-------------------------- MODULE MvcSourceProofs --------------------------
(***************************************************************************)
(* Theorems about MvcSource, for streams of any length, any display order, *)
(* any set of seek points, any ring size and any sequence of requests.     *)
(***************************************************************************)
EXTENDS MvcSource, Minima, FiniteSetTheorems, FunctionTheorems, TLAPS

-----------------------------------------------------------------------------
(* Display orders *)

LEMMA IntervalSize ==
  ASSUME NEW a \in Nat, NEW c \in Nat, a <= c
  PROVE  IsFiniteSet(a..c - 1) /\ Cardinality(a..c - 1) = c - a
<1>1. c - 1 \in Int /\ a \in Int
  OBVIOUS
<1>2. /\ IsFiniteSet(a..c - 1)
      /\ Cardinality(a..c - 1) = IF a > c - 1 THEN 0 ELSE c - 1 - a + 1
  BY <1>1, FS_Interval
<1> QED BY <1>2

\* An injective image of a finite set is as large as the set.
LEMMA ImageCardinality ==
  ASSUME NEW d, NEW S, IsFiniteSet(S),
         \A i, j \in S : d[i] = d[j] => i = j,
         NEW T, \A x : x \in T <=> \E j \in S : x = d[j]
  PROVE  IsFiniteSet(T) /\ Cardinality(T) = Cardinality(S)
<1> DEFINE f == [j \in S |-> d[j]]
<1>1. f \in Bijection(S, T)
  BY DEF Bijection, Injection, Surjection, IsInjective
<1>2. ExistsBijection(S, T)
  <2> HIDE DEF f
  <2> QED BY <1>1 DEF ExistsBijection
<1> QED BY <1>2, FS_Bijection

LEMMA PicsFinite == IsFiniteSet(Pics) /\ Cardinality(Pics) = NumPics
  BY FS_Interval, ConstantsAssumption DEF Pics

\* A display order reaches every picture.
LEMMA DispOnto ==
  ASSUME NEW st, Conforming(st), NEW x \in Pics
  PROVE  \E j \in Pics : st.disp[j] = x
<1>1. st.disp \in Injection(Pics, Pics)
  BY DEF Conforming, Injection, IsInjective
<1>2. st.disp \in Surjection(Pics, Pics)
  BY <1>1, PicsFinite, FS_Injection
<1> QED BY <1>2 DEF Surjection

\* What a decoder started at decode index k has to put out.
LEMMA DecodedFromCount ==
  ASSUME Conforming(stream), NEW k \in Pics
  PROVE  /\ DecodedFrom(k) \subseteq Pics
         /\ IsFiniteSet(DecodedFrom(k))
         /\ Cardinality(DecodedFrom(k)) = NumPics - k
<1>1. k \in Nat /\ NumPics - 1 \in Int /\ k <= NumPics - 1
  BY ConstantsAssumption DEF Pics
<1>2. stream.disp \in [Pics -> Pics] /\ k..NumPics - 1 \subseteq Pics
  BY <1>1 DEF Conforming, Pics
<1>3. \A i, j \in k..NumPics - 1 : stream.disp[i] = stream.disp[j] => i = j
  BY <1>2 DEF Conforming
<1>4. DecodedFrom(k) \subseteq Pics
  BY <1>2 DEF DecodedFrom
<1>5. IsFiniteSet(DecodedFrom(k)) /\ Cardinality(DecodedFrom(k)) = NumPics - k
  <2>1. IsFiniteSet(k..NumPics - 1)
    BY <1>1, FS_Interval
  <2>2. \A x : x \in DecodedFrom(k) <=> \E j \in k..NumPics - 1 : x = stream.disp[j]
    BY DEF DecodedFrom
  <2>3. /\ IsFiniteSet(DecodedFrom(k))
        /\ Cardinality(DecodedFrom(k)) = Cardinality(k..NumPics - 1)
    BY ONLY <1>3, <2>1, <2>2, ImageCardinality
  <2>4. Cardinality(k..NumPics - 1) = NumPics - k
    <3>1. k \in Nat /\ NumPics \in Nat /\ k <= NumPics
      BY <1>1, ConstantsAssumption
    <3> QED BY ONLY <3>1, IntervalSize
  <2> QED BY <2>3, <2>4
<1> QED BY <1>4, <1>5

\* A cold start at a seek point still has every picture from its own on.
LEMMA SeekPointCovers ==
  ASSUME Conforming(stream), NEW k \in stream.rap, NEW x \in Pics, x >= stream.disp[k]
  PROVE  x \in DecodedFrom(k)
<1>1. PICK j \in Pics : stream.disp[j] = x
  BY DispOnto
<1>2. k \in Pics
  BY DEF Conforming
<1>3. stream.disp[k] \in Int /\ x \in Int /\ j \in Int /\ k \in Int
  BY <1>2, ConstantsAssumption DEF Pics, Conforming
<1>4. ~(j < k)
  <2> SUFFICES ASSUME j < k PROVE FALSE
    OBVIOUS
  <2>1. stream.disp[j] < stream.disp[k]
    BY DEF Conforming
  <2> QED BY <2>1, <1>1, <1>3
<1>5. j \in k..NumPics - 1
  BY <1>2, <1>3, <1>4, ConstantsAssumption DEF Pics
<1> QED BY <1>1, <1>5 DEF DecodedFrom

\* A decoder started at the stream's start has every picture.
LEMMA StartCovers ==
  ASSUME Conforming(stream)
  PROVE  DecodedFrom(0) = Pics
<1>1. ASSUME NEW x \in Pics PROVE x \in DecodedFrom(0)
  <2>1. PICK j \in Pics : stream.disp[j] = x
    BY DispOnto
  <2> QED BY <2>1 DEF DecodedFrom, Pics
<1>2. 0 \in Pics
  BY ConstantsAssumption DEF Pics
<1> QED BY <1>1, <1>2, DecodedFromCount

\* A seek point is displayed no earlier than it is decoded: frame <= valid_from,
\* which is what load_index_cache requires of an entry.
LEMMA SeekPointNotEarly ==
  ASSUME Conforming(stream), NEW k \in stream.rap
  PROVE  k <= stream.disp[k]
<1> DEFINE T == {stream.disp[j] : j \in 0..k - 1}
<1>1. k \in Pics /\ stream.disp \in [Pics -> Pics]
  BY DEF Conforming
<1>2. k \in Nat /\ stream.disp[k] \in Nat /\ 0..k - 1 \subseteq Pics
  BY <1>1, ConstantsAssumption DEF Pics
<1>3. IsFiniteSet(T) /\ Cardinality(T) = k
  <2>1. \A i, j \in 0..k - 1 : stream.disp[i] = stream.disp[j] => i = j
    BY <1>2 DEF Conforming
  <2>2. IsFiniteSet(0..k - 1)
    BY <1>2, FS_Interval
  <2>3. \A x : x \in T <=> \E j \in 0..k - 1 : x = stream.disp[j]
    OBVIOUS
  <2>4. IsFiniteSet(T) /\ Cardinality(T) = Cardinality(0..k - 1)
    <3> HIDE DEF T
    <3> QED BY ONLY <2>1, <2>2, <2>3, ImageCardinality
  <2>5. Cardinality(0..k - 1) = k
    <3>1. 0 \in Nat /\ k \in Nat /\ 0 <= k
      BY <1>2
    <3>2. Cardinality(0..k - 1) = k - 0
      BY ONLY <3>1, IntervalSize
    <3> QED BY <3>1, <3>2
  <2> QED BY <2>4, <2>5
<1>4. T \in SUBSET (0..stream.disp[k] - 1)
  <2> SUFFICES ASSUME NEW j \in 0..k - 1
               PROVE  stream.disp[j] \in 0..stream.disp[k] - 1
    OBVIOUS
  <2>1. j \in Pics /\ j < k
    BY <1>2
  <2>2. stream.disp[j] < stream.disp[k]
    BY <2>1 DEF Conforming
  <2>3. stream.disp[j] \in Nat
    BY <2>1, <1>1, ConstantsAssumption DEF Pics
  <2> QED BY <2>2, <2>3, <1>2
<1>5. /\ IsFiniteSet(0..stream.disp[k] - 1)
      /\ Cardinality(0..stream.disp[k] - 1) = stream.disp[k]
  <2>1. stream.disp[k] - 1 \in Int /\ 0 \in Int
    BY <1>2
  <2>2. /\ IsFiniteSet(0..stream.disp[k] - 1)
        /\ Cardinality(0..stream.disp[k] - 1)
             = IF 0 > stream.disp[k] - 1 THEN 0 ELSE stream.disp[k] - 1 - 0 + 1
    BY <2>1, FS_Interval
  <2> QED BY <1>2, <2>2
<1>6. Cardinality(T) <= Cardinality(0..stream.disp[k] - 1)
  BY <1>4, <1>5, FS_Subset
<1> QED BY <1>3, <1>5, <1>6

-----------------------------------------------------------------------------
(* Putting out one picture *)

\* The labels agree with the decoder: what LabelsTrue says of a live decoder.
Agree(p, n, v) ==
    /\ Cardinality(p) = NumPics - n
    /\ \A x \in Pics : x >= v => (x \in p <=> x >= n)

LEMMA PutOut ==
  ASSUME NEW p \in SUBSET Pics, NEW m \in p
  PROVE  /\ IsFiniteSet(p) /\ IsFiniteSet(p \ {m})
         /\ Cardinality(p) \in Nat
         /\ Cardinality(p \ {m}) = Cardinality(p) - 1
         /\ Cardinality(p) >= 1
<1>1. IsFiniteSet(p)
  BY PicsFinite, FS_Subset
<1>2. Cardinality(p) \in Nat
  BY <1>1, FS_CardinalityType
<1>3. Cardinality(p \ {m}) = Cardinality(p) - 1 /\ IsFiniteSet(p \ {m})
  BY <1>1, FS_RemoveElement
<1>4. Cardinality(p) # 0
  BY <1>1, FS_EmptySet
<1> QED BY <1>1, <1>2, <1>3, <1>4

\* The next picture of a decoder in step bears the label next_out once the
\* leading pictures are past, and the labels agree again after it.
LEMMA PutOutAgrees ==
  ASSUME NEW p \in SUBSET Pics, NEW n \in 0..NumPics, NEW v \in Pics,
         Agree(p, n, v), p # {}, NEW m, m = Min(p)
  PROVE  /\ m \in p
         /\ n < NumPics
         /\ n >= v => m = n
         /\ Agree(p \ {m}, n + 1, v)
<1>0. NumPics \in Nat /\ Pics \subseteq Nat /\ n \in Nat /\ v \in Nat /\ v <= NumPics - 1
  BY ConstantsAssumption DEF Pics
<1>1. m \in p /\ \A y \in p : m <= y
  <2>1. p \in SUBSET Nat
    BY <1>0
  <2> QED BY <2>1, MinExists
<1>2. /\ IsFiniteSet(p) /\ Cardinality(p) = NumPics - n
      /\ Cardinality(p \ {m}) = NumPics - n - 1
      /\ n < NumPics
  BY <1>0, <1>1, PutOut DEF Agree
<1>3. CASE n >= v
  <2>1. n..NumPics - 1 \in SUBSET p
    BY <1>0, <1>3 DEF Agree, Pics
  <2>2. Cardinality(n..NumPics - 1) = NumPics - n
    BY <1>0, <1>2, FS_Interval
  <2>3. p = n..NumPics - 1
    BY <2>1, <2>2, <1>2, FS_Subset
  <2>4. m = n
    BY <1>0, <1>1, <1>2, <2>3
  <2>5. \A x \in Pics : x >= v => (x \in p \ {m} <=> x >= n + 1)
    BY <1>0, <2>3, <2>4 DEF Pics
  <2> QED BY <1>0, <1>1, <1>2, <2>4, <2>5 DEF Agree
<1>4. CASE ~(n >= v)
  <2>1. m < v
    <3> SUFFICES ASSUME ~(m < v) PROVE FALSE
      OBVIOUS
    <3> DEFINE late == v..NumPics - 1
    <3>1. p \in SUBSET late
      BY <1>0, <1>1 DEF Pics
    <3>2. IsFiniteSet(late) /\ Cardinality(late) = NumPics - v
      BY <1>0, FS_Interval
    <3>3. Cardinality(p) <= NumPics - v
      <4> HIDE DEF late
      <4>1. Cardinality(p) <= Cardinality(late)
        BY <3>1, <3>2, FS_Subset
      <4> QED BY <3>2, <4>1
    <3> QED BY <1>0, <1>2, <1>4, <3>3
  <2>2. \A x \in Pics : x >= v => (x \in p \ {m} <=> x >= n + 1)
    <3> SUFFICES ASSUME NEW x \in Pics, x >= v
                 PROVE  x \in p \ {m} <=> x >= n + 1
      OBVIOUS
    <3>1. x \in Nat /\ m \in Nat
      BY <1>0, <1>1
    <3>2. x # m
      BY <1>0, <2>1, <3>1
    <3>3. x \in p <=> x >= n
      BY DEF Agree
    <3> QED BY <1>0, <1>4, <3>1, <3>2, <3>3
  <2> QED BY <1>0, <1>1, <1>2, <1>4, <2>2 DEF Agree
<1> QED BY <1>3, <1>4

-----------------------------------------------------------------------------
(* Types of the operators *)

LEMMA PicsNat == /\ Pics \subseteq Nat /\ NumPics \in Nat /\ NumPics >= 1 /\ 0 \in Pics
                 /\ \A x \in Pics : x <= NumPics - 1
  BY ConstantsAssumption DEF Pics

LEMMA PicsInt == /\ \A x \in Pics : x \in Int
                 /\ \A x \in 0..NumPics : x \in Int
                 /\ NumPics \in Int
  BY ConstantsAssumption DEF Pics

LEMMA PicsInCount == \A x \in Pics : x \in 0..NumPics
  BY ConstantsAssumption DEF Pics

LEMMA StreamConforms == TypeOK => Conforming(stream)
  BY StreamAssumption DEF TypeOK

LEMMA RingInitCapType ==
  ASSUME NEW m
  PROVE  RingInitCap(m) \in 2..MaxSlots
<1>1. slot_bytes(m) = 1 \/ slot_bytes(m) = 2
  BY DEF slot_bytes
<1>2. Budget \div 1 \in Int /\ Budget \div 2 \in Int
  BY ConstantsAssumption
<1>3. Budget \div slot_bytes(m) \in Int
  BY <1>1, <1>2
<1> QED BY <1>3, ConstantsAssumption DEF RingInitCap

LEMMA ContentType ==
  ASSUME NEW m \in Pics
  PROVE  ContentOf(m) \in Contents
  BY DEF ContentOf, Contents

LEMMA ModType ==
  ASSUME NEW a \in Nat, NEW b \in Nat, b > 0
  PROVE  a % b \in 0..b - 1
  OBVIOUS

LEMMA TargetType ==
  ASSUME req \in Requests, InRange
  PROVE  Target \in Pics
<1>1. req \in Int /\ Alt \in BOOLEAN /\ NumPics \in Nat
  BY ConstantsAssumption DEF Requests
<1>2. CASE Alt
  BY <1>1, <1>2 DEF Target, SourceOf, InRange, NumFrames, Pics
<1>3. CASE ~Alt
  BY <1>1, <1>3 DEF Target, SourceOf, InRange, NumFrames, Pics
<1> QED BY <1>1, <1>2, <1>3

LEMMA ResponseType ==
  /\ None \in Responses
  /\ \A why \in Failures : Failed(why) \in Responses
  /\ \A n, c : c \in Contents => Frame(ViewOf(n), c) \in Responses
<1>1. \A n : ViewOf(n) \in Views
  BY DEF ViewOf, Views
<1>2. "layout" \in Views /\ Corrupt \in Contents
  BY DEF Views, Contents
<1> QED BY <1>1, <1>2 DEF None, Failed, Frame, Responses

\* seek_to picks the start of the stream, or the last seek point usable.
LEMMA SeekPointChosen ==
  ASSUME TypeOK, NEW t \in Pics
  PROVE  /\ SpFrame(t) \in Pics /\ SpValidFrom(t) \in Pics
         /\ SpValidFrom(t) <= t
         /\ \/ SpFrame(t) = 0 /\ SpValidFrom(t) = 0
            \/ SpFrame(t) \in stream.rap /\ SpValidFrom(t) = stream.disp[SpFrame(t)]
         /\ \A k \in Usable(t) : k <= SpFrame(t)
<1>1. Conforming(stream)
  BY StreamConforms
<1>2. CASE Usable(t) = {}
  BY <1>2, PicsNat DEF SpFrame, SpValidFrom
<1>3. CASE Usable(t) # {}
  <2>1. Usable(t) \in SUBSET (0..NumPics - 1) /\ NumPics - 1 \in Nat
    BY <1>1, PicsNat DEF Usable, Conforming, Pics
  <2>2. Best(t) \in Usable(t) /\ \A k \in Usable(t) : Best(t) >= k
    BY <1>3, <2>1, MaxExists DEF Best
  <2>3. /\ Best(t) \in stream.rap /\ stream.disp[Best(t)] <= t
        /\ Best(t) \in Pics /\ stream.disp[Best(t)] \in Pics
    BY <1>1, <2>2 DEF Usable, SpValid, Conforming
  <2>4. SpFrame(t) = Best(t) /\ SpValidFrom(t) = stream.disp[Best(t)]
    BY <1>3 DEF SpFrame, SpValidFrom, SpValid
  <2>5. \A k \in Usable(t) : k <= Best(t)
    BY <2>1, <2>2
  <2> QED BY <2>3, <2>4, <2>5
<1> QED BY <1>2, <1>3

LEMMA RingStoreType ==
  ASSUME TypeOK, ring_cap > 0, NEW index \in Pics, NEW m \in Pics, NEW oom,
         ring_store(index, m, oom)
  PROVE  /\ ring_cap' = ring_cap
         /\ slots' \in [0..ring_cap - 1 -> SlotType]
         /\ ring_head' \in 0..ring_cap - 1
<1>1. ring_cap \in Nat /\ ring_head \in 0..ring_cap - 1 /\ slots \in [0..ring_cap - 1 -> SlotType]
  BY ConstantsAssumption DEF TypeOK
<1>2. ring_head' \in 0..ring_cap - 1
  <2>1. ring_head + 1 \in Nat
    BY <1>1
  <2> QED BY <1>1, <2>1, ModType DEF ring_store, NextHead
<1>3. slots' \in [0..ring_cap - 1 -> SlotType]
  <2>1. slots[ring_head] \in SlotType
    BY <1>1
  <2>2. slots[ring_head].bufcap \in 0..2 /\ slot_bytes(m) \in 0..2
    BY <2>1 DEF SlotType, slot_bytes
  <2>3. ContentOf(m) \in Contents /\ Corrupt \in Contents
    BY ContentType DEF Contents
  <2> QED BY <1>1, <2>2, <2>3 DEF ring_store, SlotType
<1> QED BY <1>2, <1>3 DEF ring_store

-----------------------------------------------------------------------------
(* Type correctness.  That next_out stays within the stream is no matter   *)
(* of its own type: it holds because the decoder owes no more pictures     *)
(* than are left to count.                                                 *)

NoOverrun == Cardinality(pend) + next_out <= NumPics

TypeInv == TypeOK /\ NoOverrun

DecoderType ==
    /\ dec \in BOOLEAN /\ pend \subseteq Pics /\ origin \in Pics
    /\ last_poc \in Pocs \cup {NoPoc}
    /\ next_out \in 0..NumPics /\ valid_from \in Pics
    /\ NoOverrun

LEMMA EmitType ==
  ASSUME TypeInv, NEW m \in Pics, NEW poc \in Pocs, Emit(m, poc)
  PROVE  /\ m \in pend
         /\ pend' \subseteq Pics
         /\ Cardinality(pend') = Cardinality(pend) - 1
         /\ Cardinality(pend) \in Nat /\ Cardinality(pend) >= 1
         /\ next_out < NumPics
<1>1. pend \subseteq Pics /\ pend # {} /\ m = Min(pend) /\ pend' = pend \ {m}
  BY DEF TypeInv, TypeOK, Emit
<1>2. m \in pend
  <2>1. pend \in SUBSET Nat
    BY <1>1, PicsNat
  <2> QED BY <1>1, <2>1, MinExists
<1>3. /\ Cardinality(pend) \in Nat /\ Cardinality(pend) >= 1
      /\ Cardinality(pend \ {m}) = Cardinality(pend) - 1
  BY <1>1, <1>2, PutOut
<1>4. next_out < NumPics
  BY <1>3, PicsNat DEF TypeInv, TypeOK, NoOverrun
<1> QED BY <1>1, <1>2, <1>3, <1>4

LEMMA NextPictureType ==
  ASSUME TypeInv, NEW m \in Pics, NEW poc \in Pocs, NextPicture(m, poc)
  PROVE  DecoderType' /\ next_out \in Pics
<1>1. Emit(m, poc) /\ last_poc' = poc /\ next_out' = next_out + 1
  BY DEF NextPicture
<1>2. dec' = dec /\ origin' = origin /\ valid_from' = valid_from
  BY <1>1 DEF NextPicture, Emit
<1>3. /\ pend' \subseteq Pics /\ next_out < NumPics
      /\ Cardinality(pend') = Cardinality(pend) - 1 /\ Cardinality(pend) \in Nat
  BY <1>1, EmitType
<1>4. next_out \in Nat
  BY PicsNat DEF TypeInv, TypeOK
<1>5. next_out' \in 0..NumPics /\ next_out \in Pics
  BY <1>1, <1>3, <1>4, PicsNat DEF Pics
<1>6. NoOverrun'
  BY <1>1, <1>3, <1>4, PicsNat DEF TypeInv, NoOverrun
<1> QED BY <1>1, <1>2, <1>3, <1>5, <1>6 DEF TypeInv, TypeOK, DecoderType

LEMMA TypeInit == Init => TypeInv
<1> SUFFICES ASSUME Init PROVE TypeInv
  OBVIOUS
<1>1. slots \in [0..ring_cap - 1 -> SlotType]
  BY DEF Init, EmptyRing
<1>2. req \in Requests
  BY PicsNat, ConstantsAssumption DEF Init, Requests, NumFrames
<1>3. Cardinality(pend) = 0
  BY FS_EmptySet DEF Init
<1>4. 0 \in 0..MaxSlots - 1 /\ 0 \in 0..NumPics /\ 0 \in Pics
  BY ConstantsAssumption DEF Pics
<1>5. NoOverrun
  BY <1>3, PicsNat DEF Init, NoOverrun
<1>6. last_poc \in Pocs \cup {NoPoc} /\ resp \in Responses
  BY ResponseType DEF Init
<1>7. ring_cap = 0 /\ pc = "closed" /\ ring_head = 0
  BY DEF Init
<1>8. /\ ring_cap \in {0} \cup 2..MaxSlots
      /\ ring_cap = 0 <=> pc = "closed"
      /\ ring_cap > 0 => ring_head < ring_cap
  BY <1>7
<1>9. /\ pend \subseteq Pics /\ origin \in Pics /\ next_out \in 0..NumPics
      /\ valid_from \in Pics /\ dec \in BOOLEAN /\ stream \in Streams
      /\ ring_head \in 0..MaxSlots - 1
  BY <1>4, <1>7 DEF Init
<1> QED BY <1>1, <1>2, <1>5, <1>6, <1>7, <1>8, <1>9 DEF TypeInv, TypeOK

\* Every step keeps every variable within its type.
LEMMA TypeStep == TypeInv /\ [Next]_vars => TypeInv'
<1> SUFFICES ASSUME TypeInv, [Next]_vars PROVE TypeInv'
  OBVIOUS
<1> USE DEF TypeInv
<1>1. CASE Open
  <2> DEFINE m == Min(Pics)
             cap == RingInitCap(m)
  <2>1. m \in Pics
    BY PicsNat, MinExists
  <2>2. cap \in 2..MaxSlots /\ cap \in Nat /\ MaxSlots \in Nat
    BY RingInitCapType, ConstantsAssumption
  <2>3. pend' = Pics \ {m} /\ next_out' = 1 /\ ring_cap' = cap /\ ring_head' = 1 % cap
    BY <1>1 DEF Open
  <2>4. slots' \in [0..cap - 1 -> SlotType]
    <3>1. slot_bytes(m) \in 0..2 /\ 0 \in Pics /\ m \in Contents /\ Corrupt \in Contents
      BY <2>1, PicsNat DEF slot_bytes, Contents
    <3>2. EmptySlot \in SlotType /\ [index |-> 0, pic |-> m, bufcap |-> slot_bytes(m)] \in SlotType
      BY <3>1 DEF EmptySlot, SlotType
    <3>3. PICK oom : slots' = [i \in 0..cap - 1 |->
                    IF i = 0 /\ ~oom
                    THEN [index |-> 0, pic |-> m, bufcap |-> slot_bytes(m)]
                    ELSE EmptySlot]
      BY <1>1 DEF Open
    <3> HIDE DEF m, cap
    <3> QED BY <3>2, <3>3
  <2>5. ring_head' \in 0..cap - 1
    BY <2>2, <2>3, ModType
  <2>6. last_poc' \in Pocs
    BY <1>1 DEF Open
  <2>7. NoOverrun'
    <3>1. Cardinality(Pics \ {m}) = NumPics - 1
      BY <2>1, PicsFinite, FS_RemoveElement
    <3> QED BY <2>3, <3>1, PicsNat DEF NoOverrun
  <2>8. /\ pc' = "idle" /\ dec' = TRUE /\ resp' = None
        /\ UNCHANGED <<stream, req, origin, valid_from>>
    BY <1>1 DEF Open
  <2>9. ring_head' \in 0..MaxSlots - 1 /\ ring_cap' \in {0} \cup 2..MaxSlots /\ ring_cap' > 0
    BY <2>2, <2>3, <2>5
  <2>10. next_out' \in 0..NumPics /\ pend' \subseteq Pics
    BY <2>3, PicsNat
  <2> HIDE DEF m, cap
  <2> QED BY <2>3, <2>4, <2>5, <2>6, <2>7, <2>8, <2>9, <2>10, ResponseType DEF TypeOK
<1>2. CASE OpenFails
  BY <1>2, ResponseType DEF OpenFails, TypeOK, NoOverrun, decoder, counters, ring, Failures
<1>3. CASE Close
  <2>1. slots' \in [0..ring_cap' - 1 -> SlotType]
    BY <1>3 DEF Close, EmptyRing
  <2>2. req' \in Requests
    BY <1>3, PicsNat, ConstantsAssumption DEF Close, Requests, NumFrames
  <2>3. Cardinality(pend') = 0
    BY <1>3, FS_EmptySet DEF Close
  <2>4. 0 \in 0..MaxSlots - 1
    BY ConstantsAssumption
  <2> QED BY <1>3, <2>1, <2>2, <2>3, <2>4, PicsNat, ResponseType DEF Close, TypeOK, NoOverrun
<1>4. CASE Request
  BY <1>4, ResponseType DEF Request, TypeOK, NoOverrun, decoder, counters, ring
<1>5. CASE Lookup
  <2>1. CASE OutOfRange
    BY <1>5, <2>1, ResponseType
       DEF OutOfRange, Return, TypeOK, NoOverrun, decoder, counters, ring, Failures
  <2>2. CASE CacheHit
    <3>1. Target \in Pics
      BY <2>2, TargetType DEF CacheHit, TypeOK
    <3>2. ring_find(Target) \in Holding(Target)
      <4>1. Holding(Target) \in SUBSET Nat /\ Holding(Target) # {}
        BY <2>2, ConstantsAssumption DEF CacheHit, Holding, TypeOK
      <4> QED BY <4>1, MinExists DEF ring_find
    <3>3. slots[ring_find(Target)].pic \in Contents
      <4>1. slots[ring_find(Target)] \in SlotType
        BY <3>2 DEF Holding, TypeOK
      <4> QED BY <4>1 DEF SlotType
    <3>4. resp' \in Responses
      BY <2>2, <3>3, ResponseType DEF CacheHit, Return
    <3> QED BY <2>2, <3>4 DEF CacheHit, Return, TypeOK, NoOverrun, decoder, counters, ring
  <2>3. CASE SeekRestart
    <3>1. Target \in Pics
      BY <2>3, TargetType DEF SeekRestart, CacheMiss, TypeOK
    <3>2. SpFrame(Target) \in Pics /\ SpValidFrom(Target) \in Pics
      BY <3>1, SeekPointChosen
    <3>3. /\ DecodedFrom(SpFrame(Target)) \subseteq Pics
          /\ Cardinality(DecodedFrom(SpFrame(Target))) = NumPics - SpFrame(Target)
      BY <3>2, StreamConforms, DecodedFromCount
    <3>4. SpFrame(Target) \in 0..NumPics
      BY <3>2, PicsInCount
    <3>5. /\ dec' = TRUE /\ origin' = SpFrame(Target)
          /\ pend' = DecodedFrom(SpFrame(Target)) /\ last_poc' = NoPoc
          /\ next_out' = SpFrame(Target) /\ valid_from' = SpValidFrom(Target)
          /\ pc' = "decoding" /\ pc = "called"
          /\ UNCHANGED <<stream, req, resp, ring>>
      BY <2>3 DEF SeekRestart, reset_decoder, CacheMiss
    <3>6. NoOverrun'
      BY <3>3, <3>4, <3>5, PicsNat DEF NoOverrun
    <3> QED BY <3>2, <3>3, <3>4, <3>5, <3>6 DEF TypeOK, ring
  <2>4. CASE SeekFails
    <3>1. Cardinality(pend') = 0
      BY <2>4, FS_EmptySet DEF SeekFails
    <3>2. NoOverrun'
      BY <2>4, <3>1, PicsNat DEF SeekFails, NoOverrun, TypeOK, counters
    <3> QED BY <2>4, <3>2, PicsNat, ResponseType
            DEF SeekFails, CacheMiss, Return, TypeOK, counters, ring, Failures
  <2>5. CASE SeekContinue
    BY <2>5 DEF SeekContinue, CacheMiss, TypeOK, NoOverrun, decoder, counters, ring
  <2> QED BY <1>5, <2>1, <2>2, <2>3, <2>4, <2>5 DEF Lookup
<1>6. CASE Decode
  <2>0. pc = "decoding" => ring_cap > 0
    BY ConstantsAssumption DEF TypeOK
  <2>1. CASE DiscardLeading \/ SkipEarly
    <3>1. PICK m \in Pics, poc \in Pocs : NextPicture(m, poc)
      BY <2>1 DEF DiscardLeading, SkipEarly
    <3>2. DecoderType'
      BY <3>1, NextPictureType
    <3>3. UNCHANGED <<pc, stream, req, resp, ring>>
      BY <2>1, <3>1 DEF DiscardLeading, SkipEarly, NextPicture
    <3> QED BY <3>2, <3>3 DEF DecoderType, TypeOK, ring
  <2>2. CASE CachePassing \/ ServeTarget
    <3>1. PICK m \in Pics, poc \in Pocs, oom \in BOOLEAN :
             NextPicture(m, poc) /\ ring_store(next_out, m, oom)
      BY <2>2 DEF CachePassing, ServeTarget
    <3>2. DecoderType' /\ next_out \in Pics
      BY <3>1, NextPictureType
    <3>3. ring_cap > 0 /\ stream' = stream /\ req' = req
      BY <2>0, <3>1 DEF NextPicture
    <3>4. /\ ring_cap' = ring_cap /\ slots' \in [0..ring_cap - 1 -> SlotType]
          /\ ring_head' \in 0..ring_cap - 1
      BY <3>1, <3>2, <3>3, RingStoreType
    <3>5. ring_head' \in 0..MaxSlots - 1 /\ ring_head' < ring_cap
      BY <3>3, <3>4, ConstantsAssumption DEF TypeOK
    <3>6. pc' \in {"idle", "decoding"} /\ pc = "decoding"
      BY <2>2, <3>1 DEF CachePassing, ServeTarget, NextPicture, Return
    <3>7. resp' \in Responses
      <4>1. CASE CachePassing
        BY <4>1 DEF CachePassing, TypeOK
      <4>2. CASE ServeTarget
        BY <4>2, ContentType, ResponseType DEF ServeTarget, Return
      <4> QED BY <2>2, <4>1, <4>2
    <3> QED BY <3>2, <3>3, <3>4, <3>5, <3>6, <3>7 DEF DecoderType, TypeOK
  <2>3. CASE OrderDiverges
    <3>1. PICK m \in Pics, poc \in Pocs : Emit(m, poc)
      BY <2>3 DEF OrderDiverges
    <3>2. pend' \subseteq Pics /\ Cardinality(pend') = Cardinality(pend) - 1 /\ Cardinality(pend) \in Nat
      BY <3>1, EmitType
    <3>3. next_out' = next_out /\ dec' = dec /\ origin' = origin
      BY <2>3, <3>1 DEF OrderDiverges, Emit, counters
    <3>4. NoOverrun'
      BY <3>2, <3>3, PicsNat DEF NoOverrun, TypeOK
    <3> QED BY <2>3, <3>2, <3>3, <3>4, ResponseType
            DEF OrderDiverges, Return, TypeOK, counters, ring, Failures
  <2>4. CASE DecodeFails
    BY <2>4, ResponseType
       DEF DecodeFails, Return, TypeOK, NoOverrun, decoder, counters, ring, Failures
  <2>5. CASE EndOfStream
    BY <2>5, ResponseType
       DEF EndOfStream, Return, TypeOK, NoOverrun, decoder, counters, ring, Failures
  <2> QED BY <1>6, <2>1, <2>2, <2>3, <2>4, <2>5 DEF Decode, Advance
<1>7. CASE UNCHANGED vars
  BY <1>7 DEF TypeOK, NoOverrun, vars, decoder, counters, ring
<1> QED BY <1>1, <1>2, <1>3, <1>4, <1>5, <1>6, <1>7 DEF Next

LEMMA TypeAlways == Spec => []TypeInv
  BY TypeInit, TypeStep, PTL DEF Spec

\* Type correctness, under every fault.
THEOREM TypeCorrect == Spec => []TypeOK
<1>1. TypeInv => TypeOK
  BY DEF TypeInv
<1> QED BY <1>1, TypeAlways, PTL

-----------------------------------------------------------------------------
(* The cache *)

LEMMA Larger ==
  ASSUME NEW a \in Int, NEW b \in Int
  PROVE  Max({a, b}) = IF a >= b THEN a ELSE b
<1>1. CASE a >= b
  BY <1>1 DEF Max
<1>2. CASE b > a
  BY <1>2 DEF Max
<1> QED BY <1>1, <1>2

\* ring_init's slots, each as large as one for a picture with both views.
LEMMA CapWithin ==
  ASSUME NEW m
  PROVE  LET ceiling == Max({Budget, 2 * slot_bytes(m)})
         IN  /\ ceiling \in Nat
             /\ RingInitCap(m) * 2 <= IF m \in stream.mono THEN 2 * ceiling ELSE ceiling
<1>1. Budget \in Nat /\ MaxSlots \in Nat /\ MaxSlots >= 2
  BY ConstantsAssumption
<1>2. CASE m \in stream.mono
  <2>1. slot_bytes(m) = 1 /\ Budget \div 1 = Budget
    BY <1>1, <1>2 DEF slot_bytes
  <2>2. Max({Budget, 2 * slot_bytes(m)}) = IF Budget >= 2 THEN Budget ELSE 2
    BY <1>1, <2>1, Larger
  <2> QED BY <1>1, <1>2, <2>1, <2>2 DEF RingInitCap
<1>3. CASE m \notin stream.mono
  <2>1. slot_bytes(m) = 2
    BY <1>3 DEF slot_bytes
  <2>2. Max({Budget, 2 * slot_bytes(m)}) = IF Budget >= 4 THEN Budget ELSE 4
    BY <1>1, <2>1, Larger
  <2>3. Budget \div 2 \in Nat /\ (Budget \div 2) * 2 <= Budget
    BY <1>1
  <2> QED BY <1>1, <1>3, <2>1, <2>2, <2>3 DEF RingInitCap
<1> QED BY <1>2, <1>3

\* The ring stays within the cache's budget, twice that if the first picture
\* shows one view of two (ring_init, ring_store): whatever the pictures after
\* it are, and whatever fails.
THEOREM CacheAlwaysBounded == Spec => []CacheBounded
<1> DEFINE Sized == ring_cap > 0 => ring_cap = RingInitCap(Min(Pics))
<1>1. Init => Sized
  BY DEF Init
<1>2. Sized /\ [Next]_vars => Sized'
  <2> SUFFICES ASSUME Sized, [Next]_vars PROVE Sized'
    OBVIOUS
  <2>1. stream' = stream => RingInitCap(Min(Pics))' = RingInitCap(Min(Pics))
    BY DEF RingInitCap, slot_bytes
  <2>2. CASE Open
    <3>1. ring_cap' = RingInitCap(Min(Pics)) /\ stream' = stream
      BY <2>2 DEF Open
    <3> QED BY <2>1, <3>1
  <2>3. CASE Close
    BY <2>3 DEF Close
  <2>4. CASE OpenFails \/ Request \/ Lookup
    <3>1. UNCHANGED <<stream, ring_cap>>
      BY <2>4 DEF OpenFails, Request, Lookup, OutOfRange, CacheHit, SeekRestart, SeekFails,
                  SeekContinue, ring
    <3> QED BY <2>1, <3>1
  <2>5. CASE Decode
    <3>1. UNCHANGED <<stream, ring_cap>>
      BY <2>5 DEF Decode, Advance, DiscardLeading, SkipEarly, CachePassing, ServeTarget,
                  OrderDiverges, DecodeFails, EndOfStream, NextPicture, ring_store, ring
    <3> QED BY <2>1, <3>1
  <2>6. CASE UNCHANGED vars
    BY <2>1, <2>6 DEF vars, ring
  <2> QED BY <2>2, <2>3, <2>4, <2>5, <2>6 DEF Next
<1>3. TypeInv /\ Sized => CacheBounded
  <2> SUFFICES ASSUME TypeInv, Sized, NEW i \in DOMAIN slots
               PROVE  LET m == Min(Pics)
                          ceiling == Max({Budget, 2 * slot_bytes(m)})
                      IN  ring_cap * slots[i].bufcap <= IF m \in stream.mono THEN 2 * ceiling
                                                                              ELSE ceiling
    BY DEF CacheBounded
  <2> DEFINE m == Min(Pics)
             ceiling == Max({Budget, 2 * slot_bytes(m)})
             bound == IF m \in stream.mono THEN 2 * ceiling ELSE ceiling
             b == slots[i].bufcap
  <2>1. ring_cap \in Nat /\ slots[i] \in SlotType /\ i \in 0..ring_cap - 1
    BY ConstantsAssumption DEF TypeInv, TypeOK
  <2>2. b \in 0..2 /\ ring_cap > 0
    BY <2>1 DEF SlotType
  <2>3. ring_cap * 2 <= bound /\ bound \in Int
    <3>1. ring_cap = RingInitCap(m)
      BY <2>2
    <3> HIDE DEF m
    <3> QED BY <3>1, CapWithin
  <2> HIDE DEF bound, b
  <2>4. ring_cap * b <= bound
    <3>1. b = 0 \/ b = 1 \/ b = 2
      BY <2>2
    <3> QED BY <2>1, <2>2, <2>3, <3>1
  <2> QED BY <2>4 DEF bound, b
<1> QED BY <1>1, <1>2, <1>3, TypeAlways, PTL DEF Spec

-----------------------------------------------------------------------------
(* The counters and the decoder *)

\* A run is in step again after every restart and every picture counted, so
\* only the tripwire's own failure can leave the two out of step.
THEOREM DriftAlwaysLoud == Spec => DriftIsLoud
<1>1. TypeInv /\ [Next]_vars => [InStep /\ ~InStep' => resp'.kind = "order"]_vars
  <2> SUFFICES ASSUME TypeInv, [Next]_vars, InStep, ~InStep', ~UNCHANGED vars
               PROVE  resp'.kind = "order"
    OBVIOUS
  <2>0. NumPics \in Int /\ next_out \in Int
    BY PicsNat DEF TypeInv, TypeOK
  <2>1. CASE Open
    <3> DEFINE m == Min(Pics)
    <3>1. m \in Pics
      BY PicsNat, MinExists
    <3>2. pend' = Pics \ {m} /\ next_out' = 1
      BY <2>1 DEF Open
    <3>3. Cardinality(Pics \ {m}) = NumPics - 1
      BY <3>1, PicsFinite, FS_RemoveElement
    <3> QED BY <3>2, <3>3 DEF InStep
  <2>2. CASE OpenFails \/ Close \/ Request
    BY <2>2 DEF OpenFails, Close, Request, InStep, decoder, counters
  <2>3. CASE Lookup
    <3>1. CASE SeekRestart
      <4>1. Target \in Pics
        BY <3>1, TargetType DEF SeekRestart, CacheMiss, TypeInv, TypeOK
      <4>2. SpFrame(Target) \in Pics
        BY <4>1, SeekPointChosen DEF TypeInv
      <4>3. Cardinality(DecodedFrom(SpFrame(Target))) = NumPics - SpFrame(Target)
        BY <4>2, StreamConforms, DecodedFromCount DEF TypeInv
      <4>4. pend' = DecodedFrom(SpFrame(Target)) /\ next_out' = SpFrame(Target)
        BY <3>1 DEF SeekRestart, reset_decoder
      <4> QED BY <4>3, <4>4 DEF InStep
    <3>2. CASE OutOfRange \/ CacheHit \/ SeekFails \/ SeekContinue
      BY <3>2 DEF OutOfRange, CacheHit, SeekFails, SeekContinue, InStep, decoder, counters
    <3> QED BY <2>3, <3>1, <3>2 DEF Lookup
  <2>4. CASE Decode
    <3>1. CASE \E m \in Pics, poc \in Pocs : NextPicture(m, poc)
      <4>1. PICK m \in Pics, poc \in Pocs : NextPicture(m, poc)
        BY <3>1
      <4>2. Cardinality(pend') = Cardinality(pend) - 1 /\ Cardinality(pend) \in Nat
        BY <4>1, EmitType DEF NextPicture
      <4>3. next_out' = next_out + 1 /\ dec' = dec
        BY <4>1 DEF NextPicture, Emit
      <4> QED BY <2>0, <4>2, <4>3 DEF InStep
    <3>2. CASE OrderDiverges
      BY <3>2 DEF OrderDiverges, Return, Failed
    <3>3. CASE DecodeFails \/ EndOfStream
      BY <3>3 DEF DecodeFails, EndOfStream, InStep, decoder, counters
    <3> QED BY <2>4, <3>1, <3>2, <3>3
            DEF Decode, Advance, DiscardLeading, SkipEarly, CachePassing, ServeTarget
  <2> QED BY <2>1, <2>2, <2>3, <2>4 DEF Next
<1> QED BY <1>1, TypeAlways, PTL DEF Spec, DriftIsLoud

\* A decode run never starts, nor goes on, with a usable seek point ahead of it:
\* seek_to takes the last one that can serve the target.
THEOREM NearestSeekPointTaken == Spec => []NearestSeekPoint
<1> DEFINE Near == pc = "decoding" => InRange /\ \A k \in Usable(Target) : k <= next_out
<1>1. Init => Near
  BY DEF Init
<1>2. TypeInv /\ Near /\ [Next]_vars => Near'
  <2> SUFFICES ASSUME TypeInv, Near, [Next]_vars, pc' = "decoding"
               PROVE  InRange' /\ (\A k \in Usable(Target) : k <= next_out)'
    OBVIOUS
  <2>0. next_out \in Int /\ stream.rap \subseteq Int
    <3>1. stream.rap \subseteq Pics /\ next_out \in 0..NumPics
      BY StreamConforms DEF TypeInv, TypeOK, Conforming
    <3> QED BY <3>1, PicsInt
  <2>1. CASE SeekRestart
    <3>1. Target \in Pics /\ InRange
      BY <2>1, TargetType DEF SeekRestart, CacheMiss, TypeInv, TypeOK
    <3>2. \A k \in Usable(Target) : k <= SpFrame(Target)
      BY <3>1, SeekPointChosen DEF TypeInv
    <3>3. next_out' = SpFrame(Target) /\ UNCHANGED <<stream, req>>
      BY <2>1 DEF SeekRestart
    <3> QED BY <3>1, <3>2, <3>3 DEF InRange, Target, Usable, SpValid
  <2>2. CASE SeekContinue
    <3>1. Target \in Pics /\ InRange
      BY <2>2, TargetType DEF SeekContinue, CacheMiss, TypeInv, TypeOK
    <3>2. \A k \in Usable(Target) : k <= SpFrame(Target)
      BY <3>1, SeekPointChosen DEF TypeInv
    <3>3. ~(SpFrame(Target) > next_out) /\ UNCHANGED <<stream, req, next_out>>
      BY <2>2 DEF SeekContinue, MustRestart, counters
    <3>4. SpFrame(Target) \in Int /\ Usable(Target) \subseteq Int
      <4>1. SpFrame(Target) \in Pics
        BY <3>1, SeekPointChosen DEF TypeInv
      <4> QED BY <4>1, <2>0, PicsInt DEF Usable
    <3>5. SpFrame(Target) <= next_out
      BY <2>0, <3>3, <3>4
    <3>6. \A k \in Usable(Target) : k <= next_out
      BY <2>0, <3>2, <3>4, <3>5
    <3> QED BY <3>1, <3>3, <3>6 DEF InRange, Target, Usable, SpValid
  <2>3. CASE DiscardLeading \/ SkipEarly \/ CachePassing
    <3>1. PICK m \in Pics, poc \in Pocs : NextPicture(m, poc)
      BY <2>3 DEF DiscardLeading, SkipEarly, CachePassing
    <3>2. pc = "decoding" /\ next_out' = next_out + 1 /\ UNCHANGED <<stream, req>>
      BY <3>1 DEF NextPicture
    <3>3. \A k \in Usable(Target) : k <= next_out + 1
      <4>1. Usable(Target) \subseteq Int
        BY <2>0 DEF Usable
      <4> QED BY <2>0, <3>2, <4>1
    <3> QED BY <3>2, <3>3 DEF InRange, Target, Usable, SpValid
  <2>4. CASE UNCHANGED vars
    BY <2>4 DEF vars, counters, InRange, Target, Usable, SpValid
  <2> QED BY <2>1, <2>2, <2>3, <2>4
          DEF Next, Lookup, Decode, Advance, Open, OpenFails, Close, Request, OutOfRange, CacheHit,
              SeekFails, ServeTarget, OrderDiverges, DecodeFails, EndOfStream, Return
<1>3. Near => NearestSeekPoint
  BY DEF NearestSeekPoint
<1> QED BY <1>1, <1>2, <1>3, TypeAlways, PTL DEF Spec

-----------------------------------------------------------------------------
(***************************************************************************)
(* What mvc_get_frame returns.  On a stream whose DisplayPocs never run    *)
(* backwards, every frame returned is the one asked for, every label in    *)
(* the ring is true, and the module implements FrameServer step by step.   *)
(*                                                                         *)
(* The inductive invariant is Safe: the counters agree with the decoder    *)
(* (LabelsTrue), the decoder's pictures are right from valid_from on       *)
(* (Sound), it owes none below the last POC (Ordered), and a run that was  *)
(* never cut short starts at or past valid_from (Positioned).              *)
(***************************************************************************)

NoBackwardPocs == "order" \notin Faults

Closed ==
    pc = "closed" => ~dec /\ pend = {} /\ origin = 0 /\ valid_from = 0

Decoding == pc = "decoding" => dec /\ InRange

Ordered == \A x \in pend : last_poc <= x

Sound == origin = 0 \/ stream.disp[origin] <= valid_from

Positioned ==
    "decode" \notin Faults =>
        /\ DiscardSparesTarget
        /\ pc \in {"idle", "called"} /\ dec => valid_from <= next_out

Safe ==
    /\ TypeInv
    /\ Closed /\ Decoding /\ LabelsTrue /\ Ordered /\ Sound
    /\ CacheCoherent /\ ServedTrue /\ Positioned

-----------------------------------------------------------------------------
(* The decoder's steps *)

\* The picture that comes out of a decoder in step.
LEMMA EmitSafe ==
  ASSUME NoBackwardPocs, Safe, dec, NEW m \in Pics, NEW poc \in Pocs, Emit(m, poc)
  PROVE  /\ poc = m /\ InOrder(poc)
         /\ next_out < NumPics
         /\ next_out >= valid_from => m = next_out /\ ContentOf(m) = m
         /\ Agree(pend', next_out + 1, valid_from)
         /\ \A x \in pend' : m <= x
         /\ dec' = dec /\ origin' = origin
<1>1. pend \subseteq Pics /\ pend # {} /\ m = Min(pend) /\ pend' = pend \ {m}
  BY DEF Safe, TypeInv, TypeOK, Emit
<1>2. next_out \in 0..NumPics /\ valid_from \in Pics /\ origin \in Pics
  BY DEF Safe, TypeInv, TypeOK
<1>3. Agree(pend, next_out, valid_from)
  BY DEF Safe, LabelsTrue, Agree
<1>4. /\ m \in pend /\ next_out < NumPics
      /\ next_out >= valid_from => m = next_out
      /\ Agree(pend \ {m}, next_out + 1, valid_from)
  BY <1>1, <1>2, <1>3, PutOutAgrees
<1>5. poc = m
  BY DEF Emit, MayCarry, NoBackwardPocs
<1>6. InOrder(poc)
  <2>1. last_poc <= m
    BY <1>4 DEF Safe, Ordered
  <2>2. last_poc \in Int /\ m \in Int
    BY PicsInt DEF Safe, TypeInv, TypeOK, Pocs, BackwardPoc, NoPoc
  <2> QED BY <1>5, <2>1, <2>2 DEF InOrder
<1>7. \A x \in pend' : m <= x
  <2>1. pend \in SUBSET Nat
    BY <1>1, PicsNat
  <2> QED BY <1>1, <2>1, MinExists
<1>8. next_out >= valid_from => ContentOf(m) = m
  <2> SUFFICES ASSUME next_out >= valid_from PROVE ContentOf(m) = m
    OBVIOUS
  <2>1. m = next_out
    BY <1>4
  <2>2. CASE origin = 0
    BY <2>2 DEF ContentOf
  <2>3. CASE origin # 0
    <3>1. stream.disp[origin] <= valid_from
      BY <2>3 DEF Safe, Sound
    <3>2. stream.disp[origin] \in Int /\ valid_from \in Int /\ m \in Int
      BY <1>2, StreamConforms, PicsInt DEF Safe, TypeInv, Conforming
    <3>3. m >= stream.disp[origin]
      BY <2>1, <3>1, <3>2
    <3> QED BY <3>3 DEF ContentOf
  <2> QED BY <2>2, <2>3
<1> QED BY <1>1, <1>4, <1>5, <1>6, <1>7, <1>8 DEF Emit

\* A drained decoder in step has put out the whole stream.
LEMMA EndCounted ==
  ASSUME TypeOK, pend = {}, Cardinality(pend) = NumPics - next_out
  PROVE  next_out = NumPics
<1>1. Cardinality(pend) = 0
  BY FS_EmptySet
<1>2. next_out \in Int /\ NumPics \in Int
  BY PicsInt DEF TypeOK
<1> QED BY <1>1, <1>2

\* Counting it keeps the decoder's share of the invariant.
LEMMA NextPictureSafe ==
  ASSUME NoBackwardPocs, Safe, NEW m \in Pics, NEW poc \in Pocs, NextPicture(m, poc)
  PROVE  /\ pc = "decoding" /\ dec /\ InRange /\ next_out \in Pics
         /\ LabelsTrue' /\ Ordered' /\ Sound'
         /\ next_out >= valid_from => m = next_out /\ ContentOf(m) = m
         /\ dec' = dec /\ next_out' = next_out + 1
         /\ UNCHANGED <<stream, req, valid_from>>
<1>1. /\ pc = "decoding" /\ Emit(m, poc) /\ last_poc' = poc
      /\ next_out' = next_out + 1 /\ UNCHANGED <<stream, req, valid_from>>
  BY DEF NextPicture
<1>2. dec /\ InRange
  BY <1>1 DEF Safe, Decoding
<1>3. /\ poc = m
      /\ next_out >= valid_from => m = next_out /\ ContentOf(m) = m
      /\ Agree(pend', next_out + 1, valid_from)
      /\ \A x \in pend' : m <= x
      /\ dec' = dec /\ origin' = origin
  BY <1>1, <1>2, EmitSafe
<1>4. LabelsTrue'
  BY <1>1, <1>3 DEF LabelsTrue, Agree
<1>5. Ordered'
  BY <1>1, <1>3 DEF Ordered
<1>6. Sound'
  BY <1>1, <1>3 DEF Safe, Sound
<1>7. next_out \in Pics
  BY NextPictureType DEF Safe
<1> QED BY <1>1, <1>2, <1>3, <1>4, <1>5, <1>6, <1>7

\* Storing a picture under its own index keeps the ring true.
LEMMA RingStoreSafe ==
  ASSUME Safe, ring_cap > 0, NEW index \in Pics, NEW oom,
         ContentOf(index) = index, ring_store(index, index, oom)
  PROVE  CacheCoherent'
<1>1. slots \in [0..ring_cap - 1 -> SlotType] /\ ring_head \in 0..ring_cap - 1
  BY ConstantsAssumption DEF Safe, TypeInv, TypeOK
<1>2. DOMAIN slots' = DOMAIN slots /\ ring_head \in DOMAIN slots
  BY <1>1 DEF ring_store
<1> SUFFICES ASSUME NEW i \in DOMAIN slots, slots'[i].index # -1
             PROVE  slots'[i].pic = slots'[i].index
  BY <1>2 DEF CacheCoherent
<1>3. CASE i = ring_head
  BY <1>2, <1>3 DEF ring_store
<1>4. CASE i # ring_head
  BY <1>2, <1>4 DEF ring_store, Safe, CacheCoherent
<1> QED BY <1>3, <1>4

\* A (re)started decoder agrees with the counters seek_to sets.
LEMMA SeekAgrees ==
  ASSUME TypeOK, NEW t \in Pics
  PROVE  /\ Agree(DecodedFrom(SpFrame(t)), SpFrame(t), SpValidFrom(t))
         /\ SpFrame(t) <= SpValidFrom(t) /\ SpValidFrom(t) <= t
         /\ DecodedFrom(SpFrame(t)) \subseteq Pics
         /\ SpFrame(t) = 0 \/ stream.disp[SpFrame(t)] = SpValidFrom(t)
<1> DEFINE k == SpFrame(t)
           v == SpValidFrom(t)
<1>1. /\ k \in Pics /\ v \in Pics /\ v <= t
      /\ (k = 0 /\ v = 0) \/ (k \in stream.rap /\ v = stream.disp[k])
  BY SeekPointChosen
<1>2. Conforming(stream)
  BY StreamConforms
<1> HIDE DEF k, v
<1>3. DecodedFrom(k) \subseteq Pics /\ Cardinality(DecodedFrom(k)) = NumPics - k
  BY <1>1, <1>2, DecodedFromCount
<1>4. CASE k = 0 /\ v = 0
  <2>1. DecodedFrom(k) = Pics
    BY <1>2, <1>4, StartCovers
  <2>2. \A x \in Pics : x >= k
    BY <1>4, PicsNat
  <2>3. Agree(DecodedFrom(k), k, v)
    BY <1>3, <2>1, <2>2 DEF Agree
  <2> QED BY <1>1, <1>3, <1>4, <2>3 DEF k, v
<1>5. CASE k \in stream.rap /\ v = stream.disp[k]
  <2>1. k <= v
    BY <1>2, <1>5, SeekPointNotEarly
  <2>2. ASSUME NEW x \in Pics, x >= v PROVE x \in DecodedFrom(k) /\ x >= k
    <3>1. x \in DecodedFrom(k)
      BY <1>2, <1>5, <2>2, SeekPointCovers
    <3>2. x \in Int /\ k \in Int /\ v \in Int
      BY <1>1, PicsInt
    <3> QED BY <2>1, <2>2, <3>1, <3>2
  <2>3. Agree(DecodedFrom(k), k, v)
    BY <1>3, <2>2 DEF Agree
  <2> QED BY <1>1, <1>3, <1>5, <2>1, <2>3 DEF k, v
<1> QED BY <1>1, <1>4, <1>5

-----------------------------------------------------------------------------
(* The invariant *)

LEMMA SafeInit == Init => Safe
<1> SUFFICES ASSUME Init PROVE Safe
  OBVIOUS
<1>1. TypeInv
  BY TypeInit
<1>2. DOMAIN slots = {}
  BY DEF Init, EmptyRing
<1>3. Closed /\ Decoding /\ LabelsTrue /\ Ordered /\ Sound
  BY DEF Init, Closed, Decoding, LabelsTrue, Ordered, Sound
<1>4. CacheCoherent /\ ServedTrue
  BY <1>2 DEF Init, CacheCoherent, ServedTrue, None
<1>5. Positioned
  BY DEF Init, Positioned, DiscardSparesTarget
<1> QED BY <1>1, <1>3, <1>4, <1>5 DEF Safe

\* The first picture, which mvc_open2 decodes and caches.
LEMMA OpenSafe ==
  ASSUME NoBackwardPocs, Safe, Open
  PROVE  Closed' /\ Decoding' /\ LabelsTrue' /\ Ordered' /\ Sound' /\ CacheCoherent'
         /\ ServedTrue' /\ Positioned'
<1> DEFINE m == Min(Pics)
<1>1. m = 0
  <2>1. m \in Pics /\ \A y \in Pics : m <= y
    BY PicsNat, MinExists
  <2>2. m \in Nat /\ m <= 0
    BY <2>1, PicsNat
  <2> HIDE DEF m
  <2> QED BY <2>2
<1>2. /\ pend' = Pics \ {m} /\ next_out' = 1 /\ dec' = TRUE /\ pc' = "idle"
      /\ resp' = None /\ pc = "closed" /\ UNCHANGED <<stream, req, origin, valid_from>>
  BY DEF Open
<1>3. origin' = 0 /\ valid_from' = 0
  BY <1>2 DEF Safe, Closed
<1>4. last_poc' = m
  BY DEF Open, MayCarry, NoBackwardPocs
<1>5. PICK oom : slots' = [i \in 0..RingInitCap(m) - 1 |->
                    IF i = 0 /\ ~oom
                    THEN [index |-> 0, pic |-> m, bufcap |-> slot_bytes(m)]
                    ELSE EmptySlot]
  BY DEF Open
<1>6. CacheCoherent'
  BY <1>1, <1>5 DEF CacheCoherent, EmptySlot
<1> HIDE DEF m
<1>7. LabelsTrue'
  <2>1. Cardinality(Pics \ {m}) = NumPics - 1
    BY <1>1, PicsNat, PicsFinite, FS_RemoveElement
  <2>2. \A x \in Pics : x \in Pics \ {m} <=> x >= 1
    BY <1>1, PicsNat
  <2> QED BY <1>2, <1>3, <2>1, <2>2 DEF LabelsTrue
<1>8. Ordered'
  BY <1>1, <1>2, <1>4, PicsNat DEF Ordered
<1>9. Positioned'
  BY <1>2, <1>3 DEF Positioned, DiscardSparesTarget
<1> QED BY <1>2, <1>3, <1>6, <1>7, <1>8, <1>9
        DEF Closed, Decoding, Sound, ServedTrue, None

\* Steps that leave the decoder, its counters and the ring alone, and end a
\* call or begin one.
LEMMA SameDecoderSafe ==
  ASSUME Safe, UNCHANGED <<stream, decoder, counters, ring>>, ServedTrue', Positioned',
         pc' = "closed" => pc = "closed", Decoding'
  PROVE  Closed' /\ LabelsTrue' /\ Ordered' /\ Sound' /\ CacheCoherent'
         /\ ServedTrue' /\ Positioned'
  BY DEF Safe, Closed, LabelsTrue, Ordered, Sound, CacheCoherent, decoder, counters, ring

\* The lookup and the seek.
LEMMA LookupSafe ==
  ASSUME Safe, Lookup
  PROVE  Closed' /\ Decoding' /\ LabelsTrue' /\ Ordered' /\ Sound' /\ CacheCoherent'
         /\ ServedTrue' /\ Positioned'
<1>0. TypeOK /\ pc = "called"
  BY DEF Safe, TypeInv, Lookup, OutOfRange, CacheHit, SeekRestart, SeekFails, SeekContinue,
         CacheMiss
<1>1. CASE OutOfRange
  <2>1. ServedTrue'
    BY <1>1 DEF OutOfRange, Return, Failed, ServedTrue
  <2>2. Positioned'
    BY <1>1 DEF OutOfRange, Return, Safe, Positioned, DiscardSparesTarget, decoder, counters
  <2> QED BY <1>1, <2>1, <2>2, SameDecoderSafe DEF OutOfRange, Return, Decoding
<1>2. CASE CacheHit
  <2>1. ring_find(Target) \in Holding(Target)
    <3>1. Holding(Target) \in SUBSET Nat /\ Holding(Target) # {}
      BY <1>2, ConstantsAssumption, <1>0 DEF CacheHit, Holding, TypeOK
    <3> QED BY <3>1, MinExists DEF ring_find
  <2>2. Target # -1
    <3>1. Target \in Pics
      BY <1>0, <1>2, TargetType DEF CacheHit, TypeOK
    <3> QED BY <3>1, PicsNat
  <2>3. slots[ring_find(Target)].pic = Target
    BY <1>0, <2>1, <2>2 DEF Holding, Safe, CacheCoherent, TypeOK
  <2>4. ServedTrue'
    BY <1>2, <2>3 DEF CacheHit, Return, ServedTrue, Target, SourceOf, ViewOf
  <2>5. Positioned'
    BY <1>2 DEF CacheHit, Return, Safe, Positioned, DiscardSparesTarget, decoder, counters
  <2> QED BY <1>2, <2>4, <2>5, SameDecoderSafe DEF CacheHit, Return, Decoding
<1>3. CASE SeekRestart
  <2>1. Target \in Pics /\ InRange
    BY <1>0, <1>3, TargetType DEF SeekRestart, CacheMiss, TypeOK
  <2>2. /\ dec' = TRUE /\ origin' = SpFrame(Target)
        /\ pend' = DecodedFrom(SpFrame(Target)) /\ last_poc' = NoPoc
        /\ next_out' = SpFrame(Target) /\ valid_from' = SpValidFrom(Target)
        /\ pc' = "decoding" /\ UNCHANGED <<stream, req, resp, ring>>
    BY <1>3 DEF SeekRestart, reset_decoder
  <2>3. /\ Agree(pend', next_out', valid_from') /\ pend' \subseteq Pics
        /\ next_out' <= valid_from' /\ valid_from' <= Target
        /\ origin' = 0 \/ stream.disp[origin'] = valid_from'
        /\ origin' \in Pics /\ valid_from' \in Pics /\ next_out' \in Pics
    BY <1>0, <2>1, <2>2, SeekAgrees, SeekPointChosen
  <2>4. LabelsTrue'
    BY <2>2, <2>3 DEF LabelsTrue, Agree
  <2>5. Ordered'
    BY <2>2, <2>3, PicsNat DEF Ordered, NoPoc
  <2>6. Sound'
    <3>1. valid_from' <= valid_from'
      BY <2>3, PicsInt
    <3> QED BY <2>2, <2>3, <3>1 DEF Sound
  <2>7. Target' = Target /\ InRange'
    BY <2>1, <2>2 DEF Target, InRange
  <2>8. Positioned'
    <3>1. next_out' <= Target
      BY <2>1, <2>3, PicsInt
    <3> QED BY <2>2, <2>3, <2>7, <3>1 DEF Positioned, DiscardSparesTarget
  <2> QED BY <2>2, <2>4, <2>5, <2>6, <2>7, <2>8
          DEF Safe, Closed, Decoding, CacheCoherent, ServedTrue, ring
<1>4. CASE SeekFails
  <2>1. /\ dec' = FALSE /\ pend' = {} /\ origin' = 0 /\ pc' = "idle"
        /\ resp' = Failed("alloc") /\ UNCHANGED <<stream, req, counters, ring>>
    BY <1>4 DEF SeekFails, Return
  <2> QED BY <2>1 DEF Safe, Closed, Decoding, LabelsTrue, Ordered, Sound, CacheCoherent,
                      ServedTrue, Failed, Positioned, DiscardSparesTarget, ring
<1>5. CASE SeekContinue
  <2>1. /\ InRange /\ dec /\ ~(Target < next_out) /\ pc' = "decoding"
        /\ UNCHANGED <<stream, req, resp, decoder, counters, ring>>
    BY <1>5 DEF SeekContinue, CacheMiss, MustRestart
  <2>2. Target' = Target /\ InRange'
    BY <2>1 DEF Target, InRange
  <2>3. Decoding'
    BY <2>1, <2>2 DEF Decoding, decoder
  <2>4. Target \in Int /\ next_out \in Int /\ valid_from \in Int
    <3>1. Target \in Pics /\ valid_from \in Pics /\ next_out \in 0..NumPics
      BY <1>0, <2>1, TargetType DEF TypeOK
    <3> QED BY <3>1, PicsInt
  <2>5. next_out <= Target
    BY <2>1, <2>4
  <2>6. Positioned'
    <3> SUFFICES ASSUME "decode" \notin Faults PROVE valid_from <= Target
      BY <2>1, <2>2, <2>5 DEF Positioned, DiscardSparesTarget, counters
    <3>1. valid_from <= next_out
      BY <1>0, <2>1 DEF Safe, Positioned
    <3> QED BY <3>1, <2>4, <2>5
  <2>7. ServedTrue'
    BY <2>1 DEF Safe, ServedTrue
  <2> QED BY <2>1, <2>3, <2>6, <2>7, SameDecoderSafe
<1> QED BY <1>1, <1>2, <1>3, <1>4, <1>5 DEF Lookup

\* The decode loop of ensure_source_frame.
LEMMA DecodeSafe ==
  ASSUME NoBackwardPocs, Safe, Decode
  PROVE  Closed' /\ Decoding' /\ LabelsTrue' /\ Ordered' /\ Sound' /\ CacheCoherent'
         /\ ServedTrue' /\ Positioned'
<1>0. /\ TypeOK /\ pc = "decoding" /\ dec /\ InRange
  BY DEF Safe, TypeInv, Decoding, Decode, Advance, DiscardLeading, SkipEarly, CachePassing, ServeTarget,
         NextPicture, OrderDiverges, DecodeFails, EndOfStream
<1>1. /\ Target \in Pics /\ Target \in Int /\ valid_from \in Int /\ next_out \in Int
      /\ ring_cap \in Int /\ ring_cap > 0
  <2>1. Target \in Pics /\ valid_from \in Pics /\ next_out \in 0..NumPics
    BY <1>0, TargetType DEF TypeOK
  <2>2. ring_cap \in Int /\ ring_cap > 0
    BY <1>0, ConstantsAssumption DEF TypeOK
  <2> QED BY <2>1, <2>2, PicsInt
<1>2. "decode" \notin Faults => valid_from <= Target /\ next_out <= Target
  BY <1>0 DEF Safe, Positioned, DiscardSparesTarget
<1>3. CASE DiscardLeading \/ SkipEarly
  <2>1. PICK m \in Pics, poc \in Pocs : NextPicture(m, poc)
    BY <1>3 DEF DiscardLeading, SkipEarly
  <2>2. /\ LabelsTrue' /\ Ordered' /\ Sound' /\ dec' = dec /\ next_out' = next_out + 1
        /\ UNCHANGED <<stream, req, valid_from>>
    BY <2>1, NextPictureSafe
  <2>3. UNCHANGED <<pc, resp, ring>>
    BY <1>3 DEF DiscardLeading, SkipEarly
  <2>4. "decode" \notin Faults => next_out < Target
    BY <1>1, <1>2, <1>3 DEF DiscardLeading, SkipEarly, IsLeading, InWindow
  <2>5. "decode" \notin Faults => next_out' <= Target
    BY <1>1, <2>2, <2>4
  <2>6. Target' = Target /\ InRange'
    BY <1>0, <2>2 DEF Target, InRange
  <2>7. Positioned'
    BY <1>0, <1>2, <2>2, <2>3, <2>5, <2>6 DEF Positioned, DiscardSparesTarget
  <2> QED BY <1>0, <2>2, <2>3, <2>6, <2>7
          DEF Safe, Closed, Decoding, CacheCoherent, ServedTrue, ring
<1>4. CASE CachePassing \/ ServeTarget
  <2>1. PICK m \in Pics, poc \in Pocs, oom \in BOOLEAN :
           /\ NextPicture(m, poc) /\ ring_store(next_out, m, oom)
           /\ ServeTarget => Return(Frame(ViewOf(req), ContentOf(m)))
    BY <1>4 DEF CachePassing, ServeTarget
  <2>2. /\ LabelsTrue' /\ Ordered' /\ Sound' /\ dec' = dec /\ next_out' = next_out + 1
        /\ UNCHANGED <<stream, req, valid_from>> /\ next_out \in Pics
        /\ next_out >= valid_from => m = next_out /\ ContentOf(m) = m
    BY <2>1, NextPictureSafe
  <2>3. next_out >= valid_from
    BY <1>1, <1>4 DEF CachePassing, ServeTarget, IsLeading
  <2>4. CacheCoherent'
    BY <1>1, <2>1, <2>2, <2>3, RingStoreSafe
  <2>5. Target' = Target /\ InRange'
    BY <1>0, <2>2 DEF Target, InRange
  <2>6. CASE CachePassing
    <3>1. UNCHANGED <<pc, resp>> /\ next_out # Target
      BY <2>6 DEF CachePassing
    <3>2. "decode" \notin Faults => next_out' <= Target
      BY <1>1, <1>2, <2>2, <3>1
    <3>3. Positioned'
      BY <1>0, <1>2, <2>2, <2>5, <3>1, <3>2 DEF Positioned, DiscardSparesTarget
    <3> QED BY <1>0, <2>2, <2>4, <2>5, <3>1, <3>3 DEF Safe, Closed, Decoding, ServedTrue
  <2>7. CASE ServeTarget
    <3>1. next_out = Target /\ pc' = "idle" /\ resp' = Frame(ViewOf(req), ContentOf(m))
      BY <2>1, <2>7 DEF ServeTarget, Return
    <3>2. ServedTrue'
      BY <2>2, <2>3, <3>1 DEF ServedTrue, Target, SourceOf, ViewOf
    <3>3. valid_from' <= next_out'
      BY <1>1, <2>2, <2>3
    <3>4. Positioned'
      BY <3>1, <3>3 DEF Positioned, DiscardSparesTarget
    <3> QED BY <2>2, <2>4, <3>1, <3>2, <3>4 DEF Closed, Decoding
  <2> QED BY <1>4, <2>6, <2>7
<1>5. ~OrderDiverges
  BY <1>0, EmitSafe DEF OrderDiverges
<1>6. CASE DecodeFails
  <2>1. ServedTrue' /\ Decoding'
    BY <1>6 DEF DecodeFails, Return, Failed, ServedTrue, Decoding
  <2>2. Positioned'
    BY <1>6 DEF DecodeFails, Positioned
  <2> QED BY <1>6, <2>1, <2>2, SameDecoderSafe DEF DecodeFails, Return
<1>7. CASE EndOfStream
  <2>1. ServedTrue' /\ Decoding'
    BY <1>7 DEF EndOfStream, Return, Failed, ServedTrue, Decoding
  <2>2. next_out = NumPics
    BY <1>0, <1>7, <1>1, EndCounted DEF EndOfStream, Safe, LabelsTrue
  <2>3. valid_from <= next_out
    BY <1>0, <2>2, PicsNat DEF TypeOK
  <2>4. Positioned'
    BY <1>7, <2>3 DEF EndOfStream, Return, Positioned, DiscardSparesTarget, decoder, counters
  <2> QED BY <1>7, <2>1, <2>4, SameDecoderSafe DEF EndOfStream, Return
<1> QED BY <1>3, <1>4, <1>5, <1>6, <1>7 DEF Decode, Advance

\* Every step keeps the invariant.
LEMMA SafeStep ==
  ASSUME NoBackwardPocs
  PROVE  Safe /\ [Next]_vars => Safe'
<1> SUFFICES ASSUME Safe, [Next]_vars PROVE Safe'
  OBVIOUS
<1>0. TypeInv'
  BY TypeStep DEF Safe
<1>1. CASE Open
  BY <1>0, <1>1, OpenSafe DEF Safe
<1>2. CASE OpenFails
  <2>1. ServedTrue' /\ Positioned' /\ Decoding'
    BY <1>2 DEF OpenFails, Failed, ServedTrue, Positioned, DiscardSparesTarget, Decoding
  <2> QED BY <1>0, <1>2, <2>1, SameDecoderSafe DEF OpenFails, Safe
<1>3. CASE Close
  <2>1. DOMAIN slots' = {}
    BY <1>3 DEF Close, EmptyRing
  <2> QED BY <1>0, <1>3, <2>1
          DEF Close, Safe, Closed, Decoding, LabelsTrue, Ordered, Sound, CacheCoherent,
              ServedTrue, None, Positioned, DiscardSparesTarget
<1>4. CASE Request
  <2>1. ServedTrue' /\ Decoding'
    BY <1>4 DEF Request, None, ServedTrue, Decoding
  <2>2. Positioned'
    BY <1>4 DEF Request, Safe, Positioned, DiscardSparesTarget, decoder, counters
  <2> QED BY <1>0, <1>4, <2>1, <2>2, SameDecoderSafe DEF Request, Safe
<1>5. CASE Lookup
  BY <1>0, <1>5, LookupSafe DEF Safe
<1>6. CASE Decode
  BY <1>0, <1>6, DecodeSafe DEF Safe
<1>7. CASE UNCHANGED vars
  BY <1>0, <1>7 DEF vars, Safe, Closed, Decoding, LabelsTrue, Ordered, Sound, CacheCoherent,
              ServedTrue, Positioned, DiscardSparesTarget, InRange, Target, decoder, counters, ring
<1> QED BY <1>1, <1>2, <1>3, <1>4, <1>5, <1>6, <1>7 DEF Next

LEMMA SafeAlways ==
  ASSUME NoBackwardPocs
  PROVE  Spec => []Safe
  BY SafeInit, SafeStep, PTL DEF Spec

-----------------------------------------------------------------------------
(* Theorems *)

\* next_out counts what the decoder still holds and names its next picture,
\* after any sequence of seeks, failed calls and allocations.
THEOREM LabelsAlwaysTrue ==
  ASSUME NoBackwardPocs
  PROVE  Spec => []LabelsTrue
<1>1. Safe => LabelsTrue
  BY DEF Safe
<1> QED BY <1>1, SafeAlways, PTL

\* No leading picture decoded cold, and no mislabelled picture, is ever in the
\* ring of decoded frames.
THEOREM RingAlwaysTrue ==
  ASSUME NoBackwardPocs
  PROVE  Spec => []CacheCoherent
<1>1. Safe => CacheCoherent
  BY DEF Safe
<1> QED BY <1>1, SafeAlways, PTL

\* Whatever mvc_get_frame returns is the frame asked for, bit-exact.
THEOREM FramesServedTrue ==
  ASSUME NoBackwardPocs
  PROVE  Spec => []ServedTrue
<1>1. Safe => ServedTrue
  BY DEF Safe
<1> QED BY <1>1, SafeAlways, PTL

\* While no decode fails, the discard of leading pictures never reaches the
\* target: the guarantee mvcsource.c:1541 claims of seek_to.
THEOREM TargetAlwaysSpared ==
  ASSUME NoBackwardPocs, "decode" \notin Faults
  PROVE  Spec => []DiscardSparesTarget
<1>1. Safe => DiscardSparesTarget
  BY DEF Safe, Positioned
<1> QED BY <1>1, SafeAlways, PTL

LEMMA FrameNumberInRange ==
  ASSUME req \in Requests, InRange
  PROVE  req \in 0..NumFrames - 1
<1>1. NumFrames \in Int
  BY PicsInt DEF NumFrames
<1>2. req \in Int
  BY <1>1 DEF Requests
<1> QED BY <1>1, <1>2 DEF InRange

LEMMA OutsideClip ==
  ASSUME req < 0 \/ req >= NumFrames
  PROVE  req \notin 0..NumFrames - 1
  BY PicsInt DEF NumFrames

\* A decode run in step never drains the decoder before its target.
LEMMA NoSurpriseEnd ==
  ASSUME Safe, "decode" \notin Faults
  PROVE  ~EndOfStream
<1> SUFFICES ASSUME EndOfStream PROVE FALSE
  OBVIOUS
<1>1. TypeOK /\ pc = "decoding" /\ dec /\ InRange /\ pend = {}
  BY DEF EndOfStream, Safe, TypeInv, Decoding
<1>2. next_out <= Target
  BY <1>1 DEF Safe, Positioned, DiscardSparesTarget
<1>3. next_out = NumPics
  BY <1>1, EndCounted DEF Safe, LabelsTrue
<1>4. Target \in Pics
  BY <1>1, TargetType DEF TypeOK
<1>5. Target \in Int /\ NumPics \in Int /\ Target <= NumPics - 1
  BY <1>4, PicsInt, PicsNat
<1> QED BY <1>2, <1>3, <1>5

\* While the decoder itself does not fail, the only errors are the allocation
\* that failed in a seek, the file that would not open, and a frame number
\* outside the clip.
THEOREM NoErrorUnprovoked ==
  ASSUME NoBackwardPocs, "decode" \notin Faults
  PROVE  Spec => []NoSpuriousError
<1> DEFINE Inv == NoSpuriousError /\ (pc = "closed" => req = 0)
<1>0. 0 \in 0..NumFrames - 1
  BY PicsNat, ConstantsAssumption DEF NumFrames
<1>1. Init => Inv
  BY DEF Init, NoSpuriousError, None, Failures
<1>2. Safe /\ Inv /\ [Next]_vars => Inv'
  <2> SUFFICES ASSUME Safe, Inv, [Next]_vars PROVE Inv'
    OBVIOUS
  <2>1. CASE Open
    BY <2>1 DEF Open, NoSpuriousError, None, Failures
  <2>2. CASE OpenFails
    BY <1>0, <2>2 DEF OpenFails, NoSpuriousError, Failed
  <2>3. CASE Close
    BY <2>3 DEF Close, NoSpuriousError, None, Failures
  <2>4. CASE Request
    BY <2>4 DEF Request, NoSpuriousError, None, Failures
  <2>5. CASE Lookup
    <3>1. CASE OutOfRange
      <4>1. req \notin 0..NumFrames - 1
        BY <3>1, OutsideClip DEF OutOfRange
      <4> QED BY <3>1, <4>1 DEF OutOfRange, Return, NoSpuriousError, Failed
    <3>2. CASE CacheHit
      BY <3>2 DEF CacheHit, Return, NoSpuriousError, Frame, Failures
    <3>3. CASE SeekRestart
      BY <3>3 DEF SeekRestart, NoSpuriousError
    <3>4. CASE SeekFails
      <4>1. InRange /\ req \in Requests
        BY <3>4 DEF SeekFails, CacheMiss, Safe, TypeInv, TypeOK
      <4>2. req \in 0..NumFrames - 1
        BY <4>1, FrameNumberInRange
      <4> QED BY <3>4, <4>2 DEF SeekFails, Return, NoSpuriousError, Failed
    <3>5. CASE SeekContinue
      BY <3>5 DEF SeekContinue, NoSpuriousError
    <3> QED BY <2>5, <3>1, <3>2, <3>3, <3>4, <3>5 DEF Lookup
  <2>6. CASE Decode
    <3>1. ~DecodeFails /\ ~EndOfStream
      BY NoSurpriseEnd DEF DecodeFails
    <3>2. CASE DiscardLeading \/ SkipEarly \/ CachePassing
      BY <3>2 DEF DiscardLeading, SkipEarly, CachePassing, NextPicture, NoSpuriousError
    <3>3. CASE ServeTarget
      BY <3>3 DEF ServeTarget, Return, NoSpuriousError, Frame, Failures
    <3>4. CASE OrderDiverges
      <4>1. dec
        BY <3>4 DEF OrderDiverges, Safe, Decoding
      <4> QED BY <3>4, <4>1, EmitSafe DEF OrderDiverges
    <3> QED BY <2>6, <3>1, <3>2, <3>3, <3>4 DEF Decode, Advance
  <2>7. CASE UNCHANGED vars
    BY <2>7 DEF vars, NoSpuriousError
  <2> QED BY <2>1, <2>2, <2>3, <2>4, <2>5, <2>6, <2>7 DEF Next
<1>3. Inv => NoSpuriousError
  OBVIOUS
<1> QED BY <1>1, <1>2, <1>3, SafeAlways, PTL DEF Spec

-----------------------------------------------------------------------------
(* Refinement *)

\* The answers FrameServer allows.
LEMMA Answered ==
  /\ req \in 0..NumFrames - 1 =>
        /\ Frame(ViewOf(req), SourceOf(req)) \in ServerView!Answers(req)
        /\ Excuses \subseteq ServerView!Answers(req)
  /\ req \notin 0..NumFrames - 1 => Failed("range") \in ServerView!Answers(req)
  BY DEF ServerView!Answers

LEMMA AnswerReturns ==
  ASSUME pc \in {"called", "decoding"}, pc' = "idle", req' = req,
         resp' \in ServerView!Answers(req)
  PROVE  ServerView!Next
  BY DEF ServerView!Next, ServerView!Return

\* Every state is a state of FrameServer, every step one of its steps or a
\* stutter.
THEOREM ImplementsServerSafely ==
  ASSUME NoBackwardPocs
  PROVE  Spec => ServerView!Init /\ [][ServerView!Next]_ServerView!vars
<1>1. Init => ServerView!Init
  BY DEF Init, ServerView!Init
<1>2. Safe /\ Safe' /\ [Next]_vars => [ServerView!Next]_ServerView!vars
  <2> SUFFICES ASSUME Safe, Safe', [Next]_vars
               PROVE  [ServerView!Next]_ServerView!vars
    OBVIOUS
  <2>1. CASE Open
    BY <2>1 DEF Open, ServerView!Next, ServerView!Open
  <2>2. CASE OpenFails
    BY <2>2 DEF OpenFails, ServerView!vars
  <2>3. CASE Close
    BY <2>3 DEF Close, ServerView!Next, ServerView!Close
  <2>4. CASE Request
    BY <2>4 DEF Request, ServerView!Next, ServerView!Call
  <2>5. CASE Lookup
    <3>1. CASE OutOfRange
      <4>1. resp' \in ServerView!Answers(req)
        BY <3>1, OutsideClip, Answered DEF OutOfRange, Return
      <4> QED BY <3>1, <4>1, AnswerReturns DEF OutOfRange, Return
    <3>2. CASE CacheHit
      <4>1. req \in 0..NumFrames - 1
        BY <3>2, FrameNumberInRange DEF CacheHit, Safe, TypeInv, TypeOK
      <4>2. resp' = Frame(ViewOf(req), SourceOf(req))
        BY <3>2 DEF CacheHit, Return, Safe, ServedTrue, Frame
      <4> QED BY <3>2, <4>1, <4>2, Answered, AnswerReturns DEF CacheHit, Return
    <3>3. CASE SeekRestart
      BY <3>3 DEF SeekRestart, CacheMiss, ServerView!vars
    <3>4. CASE SeekFails
      <4>1. req \in 0..NumFrames - 1
        BY <3>4, FrameNumberInRange DEF SeekFails, CacheMiss, Safe, TypeInv, TypeOK
      <4>2. resp' \in Excuses
        BY <3>4 DEF SeekFails, Return, Excuses
      <4> QED BY <3>4, <4>1, <4>2, Answered, AnswerReturns DEF SeekFails, CacheMiss, Return
    <3>5. CASE SeekContinue
      BY <3>5 DEF SeekContinue, CacheMiss, ServerView!vars
    <3> QED BY <2>5, <3>1, <3>2, <3>3, <3>4, <3>5 DEF Lookup
  <2>6. CASE Decode
    <3>0. pc = "decoding" => dec /\ req \in 0..NumFrames - 1
      BY FrameNumberInRange DEF Safe, Decoding, TypeInv, TypeOK
    <3>1. CASE DiscardLeading \/ SkipEarly \/ CachePassing
      BY <3>1 DEF DiscardLeading, SkipEarly, CachePassing, NextPicture, ServerView!vars
    <3>2. CASE ServeTarget
      <4>1. pc = "decoding" /\ req' = req /\ resp'.kind = "ok" /\ pc' = "idle"
        BY <3>2 DEF ServeTarget, NextPicture, Return, Frame
      <4>2. resp' = Frame(ViewOf(req), SourceOf(req))
        BY <4>1 DEF Safe, ServedTrue
      <4> QED BY <3>0, <4>1, <4>2, Answered, AnswerReturns
    <3>3. CASE OrderDiverges
      BY <3>0, <3>3, EmitSafe DEF OrderDiverges
    <3>4. CASE DecodeFails
      <4>1. resp' \in Excuses
        BY <3>4 DEF DecodeFails, Return, Excuses
      <4> QED BY <3>0, <3>4, <4>1, Answered, AnswerReturns DEF DecodeFails, Return
    <3>5. CASE EndOfStream
      <4>1. "decode" \in Faults
        BY <3>5, NoSurpriseEnd
      <4>2. resp' \in Excuses
        BY <3>5, <4>1 DEF EndOfStream, Return, Excuses
      <4> QED BY <3>0, <3>5, <4>2, Answered, AnswerReturns DEF EndOfStream, Return
    <3> QED BY <2>6, <3>1, <3>2, <3>3, <3>4, <3>5 DEF Decode, Advance
  <2>7. CASE UNCHANGED vars
    BY <2>7 DEF vars, ServerView!vars
  <2> QED BY <2>1, <2>2, <2>3, <2>4, <2>5, <2>6, <2>7 DEF Next
<1> QED BY <1>1, <1>2, SafeAlways, PTL DEF Spec

-----------------------------------------------------------------------------
(* The reverse window.  A slot is found by counting back from the head: the *)
(* picture stored d steps ago lies d slots behind it.  A run to a target     *)
(* further than a ring away passes over pictures without storing them, which *)
(* breaks that count, but only for pictures out of the target's reach; by    *)
(* the time the target is served the last ring_cap are counted again.        *)

\* Where the ring keeps picture x while it is one of the ring_cap last stored.
PlaceOf(x) ==
    LET d == next_out - x
    IN  IF d <= ring_head THEN ring_head - d ELSE ring_head - d + ring_cap

\* The pictures the window is to hold: the ring_cap last ones before the decode
\* position; during a run to a target, those of them that are within its reach.
Recent(x) ==
    /\ valid_from <= x /\ x < next_out /\ next_out - ring_cap <= x
    /\ pc = "decoding" => Target - ring_cap < x

Kept == dec => \A x \in Pics : Recent(x) => slots[PlaceOf(x)].index = x

\* Nothing takes a picture out of the run without storing it.
Undisturbed == NoBackwardPocs /\ {"decode", "cache"} \cap Faults = {}

\* Storing picture next_out under the head moves every other one a slot back.
LEMMA StoreKeeps ==
  ASSUME Safe, Kept, dec, "cache" \notin Faults, ring_cap > 0,
         NEW m \in Pics, NEW oom, ring_store(next_out, m, oom),
         next_out' = next_out + 1, UNCHANGED <<valid_from, stream, req>>,
         NEW x \in Pics, valid_from <= x, x <= next_out, next_out - ring_cap < x,
         x < next_out => Recent(x)
  PROVE  slots'[PlaceOf(x)'].index = x
<1>1. /\ ring_cap \in 2..MaxSlots /\ ring_head \in 0..ring_cap - 1 /\ MaxSlots \in Nat
      /\ slots \in [0..ring_cap - 1 -> SlotType]
      /\ x \in Int /\ next_out \in Int /\ valid_from \in Int
  <2>1. next_out \in 0..NumPics /\ valid_from \in Pics
    BY DEF Safe, TypeInv, TypeOK
  <2> QED BY <2>1, PicsInt, ConstantsAssumption DEF Safe, TypeInv, TypeOK
<1>2. /\ slots' = [slots EXCEPT ![ring_head] =
              [index |-> next_out, pic |-> ContentOf(m),
               bufcap |-> IF @.bufcap < slot_bytes(m) THEN slot_bytes(m) ELSE @.bufcap]]
      /\ ring_head' = (ring_head + 1) % ring_cap /\ ring_cap' = ring_cap
  <2>1. ~oom
    BY DEF ring_store
  <2> QED BY <2>1 DEF ring_store, NextHead
<1>3. ring_head' = IF ring_head + 1 = ring_cap THEN 0 ELSE ring_head + 1
  <2>1. CASE ring_head + 1 = ring_cap
    BY <1>1, <1>2, <2>1
  <2>2. CASE ring_head + 1 # ring_cap
    <3>1. ring_head + 1 \in 0..ring_cap - 1
      BY <1>1, <2>2
    <3>2. (ring_head + 1) % ring_cap = ring_head + 1
      BY <1>1, <3>1
    <3> QED BY <1>2, <2>2, <3>2
  <2> QED BY <2>1, <2>2
<1>4. CASE x = next_out
  <2>1. PlaceOf(x)' = ring_head
    BY <1>1, <1>2, <1>3, <1>4 DEF PlaceOf
  <2> QED BY <1>1, <1>2, <1>4, <2>1
<1>5. CASE x < next_out
  <2>1. slots[PlaceOf(x)].index = x
    BY <1>5 DEF Kept
  <2>2. PlaceOf(x)' = PlaceOf(x) /\ PlaceOf(x) \in 0..ring_cap - 1 /\ PlaceOf(x) # ring_head
    BY <1>1, <1>2, <1>3, <1>5 DEF PlaceOf
  <2> QED BY <1>1, <1>2, <2>1, <2>2
<1> QED BY <1>1, <1>4, <1>5

LEMMA KeptStep ==
  ASSUME Undisturbed
  PROVE  Safe /\ Kept /\ [Next]_vars => Kept'
<1> SUFFICES ASSUME Safe, Kept, [Next]_vars PROVE Kept'
  OBVIOUS
<1>0. /\ TypeOK /\ next_out \in Int /\ valid_from \in Int /\ ring_cap \in Int
      /\ \A x \in Pics : x \in Int
  <2>1. TypeOK /\ next_out \in 0..NumPics /\ valid_from \in Pics
    BY DEF Safe, TypeInv, TypeOK
  <2> QED BY <2>1, PicsInt, ConstantsAssumption DEF TypeOK
<1>2. CASE Open
  <2> DEFINE m == Min(Pics)
             cap == RingInitCap(m)
  <2>1. /\ next_out' = 1 /\ ring_cap' = cap /\ ring_head' = 1 % cap /\ pc' = "idle"
        /\ slots' = [i \in 0..cap - 1 |->
              IF i = 0 THEN [index |-> 0, pic |-> m, bufcap |-> slot_bytes(m)] ELSE EmptySlot]
    BY <1>2 DEF Open, Undisturbed
  <2>2. cap \in 2..MaxSlots /\ MaxSlots \in Nat
    BY RingInitCapType, ConstantsAssumption
  <2> HIDE DEF m, cap
  <2>3. ring_head' = 1
    BY <2>1, <2>2
  <2> SUFFICES ASSUME NEW x \in Pics, Recent(x)' PROVE slots'[PlaceOf(x)'].index = x
    BY DEF Kept
  <2>4. x = 0
    BY <2>1, PicsNat DEF Recent
  <2>5. PlaceOf(x)' = 0
    BY <2>1, <2>2, <2>3, <2>4 DEF PlaceOf
  <2> QED BY <2>1, <2>2, <2>4, <2>5
<1>3. CASE OpenFails
  BY <1>3 DEF OpenFails, Kept, Recent, PlaceOf, Target, decoder, counters, ring
<1>4. CASE Close
  BY <1>4 DEF Close, Kept
<1>5. CASE Request
  BY <1>5 DEF Request, Kept, Recent, PlaceOf, decoder, counters, ring
<1>6. CASE OutOfRange \/ CacheHit
  BY <1>6 DEF OutOfRange, CacheHit, Return, Kept, Recent, PlaceOf, decoder, counters, ring
<1>7. CASE SeekFails
  BY <1>7 DEF SeekFails, Kept
<1>8. CASE SeekContinue
  BY <1>8 DEF SeekContinue, CacheMiss, Kept, Recent, PlaceOf, Target, decoder, counters, ring
<1>9. CASE SeekRestart
  <2>1. Target \in Pics
    BY <1>0, <1>9, TargetType DEF SeekRestart, CacheMiss, TypeOK
  <2>2. next_out' = SpFrame(Target) /\ valid_from' = SpValidFrom(Target)
    BY <1>9 DEF SeekRestart
  <2>3. next_out' <= valid_from' /\ next_out' \in Int /\ valid_from' \in Int
    <3>1. SpFrame(Target) \in Pics /\ SpValidFrom(Target) \in Pics
      BY <1>0, <2>1, SeekPointChosen
    <3> QED BY <1>0, <2>1, <2>2, <3>1, SeekAgrees
  <2> QED BY <1>0, <2>3 DEF Kept, Recent
<1>10. CASE Decode
  <2>0. /\ pc = "decoding" /\ dec /\ Target \in Int /\ ring_cap > 0
    <3>1. pc = "decoding"
      BY <1>10 DEF Decode, Advance, DiscardLeading, SkipEarly, CachePassing, ServeTarget,
              NextPicture, OrderDiverges, DecodeFails, EndOfStream
    <3>2. dec /\ InRange
      BY <3>1 DEF Safe, Decoding
    <3>3. Target \in Pics
      BY <1>0, <3>2, TargetType DEF TypeOK
    <3> QED BY <1>0, <3>1, <3>2, <3>3, PicsInt, ConstantsAssumption DEF TypeOK
  <2>1. ASSUME NEW m \in Pics, NEW poc \in Pocs, NextPicture(m, poc)
        PROVE  /\ next_out' = next_out + 1 /\ dec' = dec
               /\ UNCHANGED <<valid_from, stream, req>> /\ Target' = Target
    BY <2>1, NextPictureSafe DEF Undisturbed, Target
  <2>2. CASE DiscardLeading
    <3>1. PICK m \in Pics, poc \in Pocs : NextPicture(m, poc)
      BY <2>2 DEF DiscardLeading
    <3>2. next_out < valid_from
      BY <2>2 DEF DiscardLeading, IsLeading
    <3>3. next_out' = next_out + 1 /\ valid_from' = valid_from
      BY <2>1, <3>1
    <3> QED BY <1>0, <3>2, <3>3 DEF Kept, Recent
  <2>3. CASE SkipEarly
    <3>1. PICK m \in Pics, poc \in Pocs : NextPicture(m, poc)
      BY <2>3 DEF SkipEarly
    <3>2. ~(next_out > Target - ring_cap) /\ pc' = "decoding" /\ ring_cap' = ring_cap
      BY <2>0, <2>3 DEF SkipEarly, InWindow, ring
    <3> QED BY <1>0, <2>0, <2>1, <3>1, <3>2 DEF Kept, Recent
  <2>4. CASE CachePassing \/ ServeTarget
    <3>1. PICK m \in Pics, poc \in Pocs, oom \in BOOLEAN :
             NextPicture(m, poc) /\ ring_store(next_out, m, oom)
      BY <2>4 DEF CachePassing, ServeTarget
    <3>2. /\ pc' = "decoding" \/ next_out = Target
          /\ ring_cap' = ring_cap
      BY <2>0, <2>4, <3>1 DEF CachePassing, ServeTarget, ring_store
    <3>3. /\ next_out' = next_out + 1 /\ UNCHANGED <<valid_from, stream, req>>
          /\ Target' = Target
      BY <2>1, <3>1
    <3> SUFFICES ASSUME NEW x \in Pics, Recent(x)' PROVE slots'[PlaceOf(x)'].index = x
      BY DEF Kept
    <3>4. /\ valid_from <= x /\ x <= next_out /\ next_out - ring_cap < x
          /\ Target - ring_cap < x
      BY <1>0, <2>0, <3>2, <3>3 DEF Recent
    <3>5. x < next_out => Recent(x)
      BY <1>0, <2>0, <3>4 DEF Recent
    <3> QED BY <2>0, <3>1, <3>3, <3>4, <3>5, StoreKeeps DEF Undisturbed
  <2>5. ~OrderDiverges
    BY <2>0, EmitSafe DEF OrderDiverges, Undisturbed
  <2>6. ~DecodeFails
    BY DEF DecodeFails, Undisturbed
  <2>7. ~EndOfStream
    BY NoSurpriseEnd DEF Undisturbed
  <2> QED BY <1>10, <2>2, <2>3, <2>4, <2>5, <2>6, <2>7 DEF Decode, Advance
<1>11. CASE UNCHANGED vars
  BY <1>11 DEF vars, Kept, Recent, PlaceOf, Target, decoder, counters, ring
<1> QED BY <1>2, <1>3, <1>4, <1>5, <1>6, <1>7, <1>8, <1>9, <1>10, <1>11 DEF Next, Lookup

\* After any requests, while neither a decode nor an allocation for the ring
\* fails, the last ring_cap pictures before the decode position are in the ring,
\* leading ones excepted: walking back over them decodes nothing.
THEOREM WindowAlwaysCached ==
  ASSUME Undisturbed
  PROVE  Spec => []WindowCached
<1>1. Init => Kept
  BY DEF Init, Kept
<1>2. Safe /\ Kept => WindowCached
  <2> SUFFICES ASSUME Safe, Kept, pc = "idle", dec, NEW x \in Pics,
                      x >= valid_from, x >= next_out - ring_cap, x < next_out
               PROVE  Holding(x) # {}
    BY DEF WindowCached
  <2>1. /\ x \in Int /\ next_out \in Int /\ valid_from \in Int /\ ring_cap \in Nat
        /\ ring_head \in 0..ring_cap - 1
    <3>1. TypeOK /\ next_out \in 0..NumPics /\ valid_from \in Pics /\ ring_cap # 0
      BY DEF Safe, TypeInv, TypeOK
    <3> QED BY <3>1, PicsInt, ConstantsAssumption DEF TypeOK
  <2>2. Recent(x)
    BY <2>1 DEF Recent
  <2>3. PlaceOf(x) \in 0..ring_cap - 1
    BY <2>1 DEF PlaceOf
  <2> QED BY <2>2, <2>3 DEF Kept, Holding
<1>3. Spec => []Safe
  BY SafeAlways DEF Undisturbed
<1> QED BY <1>1, <1>2, <1>3, KeptStep, PTL DEF Spec
=============================================================================
