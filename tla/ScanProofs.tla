----------------------------- MODULE ScanProofs -----------------------------
(***************************************************************************)
(* Theorems about ScanIndex, for files of any length, lists of any         *)
(* capacity and every allocation that may fail.                            *)
(***************************************************************************)
EXTENDS ScanIndex, Minima, FiniteSetTheorems, FunctionTheorems, SequenceTheorems, TLAPS

-----------------------------------------------------------------------------
(* Sequences and growing lists *)

Lists(S) == {l \in [v : Seq(S), cap : Nat] : Len(l.v) <= l.cap}

LEMMA ListElements ==
  ASSUME NEW S, NEW l \in Lists(S)
  PROVE  /\ Len(l.v) \in Nat /\ DOMAIN l.v = 1..Len(l.v) /\ l.v \in Seq(S)
         /\ \A i \in 1..Len(l.v) : l.v[i] \in S
<1>1. l.v \in Seq(S)
  BY DEF Lists
<1> QED BY <1>1, LenProperties

\* A push adds its element at the end and never overruns what is allocated.
LEMMA PushType ==
  ASSUME NEW S, NEW l \in Lists(S), NEW x \in S, NEW first_cap \in Nat \ {0}
  PROVE  LET q == Pushed(l, x, first_cap)
         IN  /\ q \in Lists(S) /\ q.v = Append(l.v, x) /\ Len(q.v) = Len(l.v) + 1
             /\ \A i \in 1..Len(l.v) : q.v[i] = l.v[i]
             /\ q.v[Len(l.v) + 1] = x
<1>1. l.v \in Seq(S) /\ l.cap \in Nat /\ Len(l.v) \in Nat /\ Len(l.v) <= l.cap
  BY LenProperties DEF Lists
<1>2. /\ Append(l.v, x) \in Seq(S) /\ Len(Append(l.v, x)) = Len(l.v) + 1
      /\ \A i \in 1..Len(l.v) : Append(l.v, x)[i] = l.v[i]
      /\ Append(l.v, x)[Len(l.v) + 1] = x
  BY <1>1
<1>3. ASSUME NEW c \in {l.cap, first_cap, 2 * l.cap}, ~IsFull(l) => c = l.cap,
             IsFull(l) /\ l.cap = 0 => c = first_cap, IsFull(l) /\ l.cap # 0 => c = 2 * l.cap
      PROVE  c \in Nat /\ Len(l.v) + 1 <= c
  BY <1>1, <1>3 DEF IsFull
<1> QED BY <1>1, <1>2, <1>3 DEF Pushed, Lists

\* What flush_cvs leaves of the seek points: all but valid_from.
LEMMA FlushKeeps ==
  ASSUME NEW S, pb.v \in Seq(S), NEW n \in Nat, NEW f \in Nat, cvs.base \in Nat,
         idx \in Lists([nal : 1..n, frame : 0..f - 1, valid_from : Nat])
  PROVE  /\ flush_cvs \in Lists([nal : 1..n, frame : 0..f - 1, valid_from : Nat])
         /\ Len(flush_cvs.v) = Len(idx.v)
         /\ flush_cvs.cap = idx.cap
         /\ \A i \in 1..Len(idx.v) : flush_cvs.v[i] =
                IF pb.v = <<>> \/ i <= cvs.first_sp THEN idx.v[i]
                ELSE [idx.v[i] EXCEPT
                         !.valid_from = cvs.base + RankOf(pb.v[idx.v[i].frame - cvs.base + 1])]
<1> DEFINE T == [nal : 1..n, frame : 0..f - 1, valid_from : Nat]
           e(i) == IF i <= cvs.first_sp THEN idx.v[i]
                   ELSE [idx.v[i] EXCEPT
                            !.valid_from = cvs.base + RankOf(pb.v[idx.v[i].frame - cvs.base + 1])]
<1>1. /\ idx \in [v : Seq(T), cap : Nat] /\ Len(idx.v) \in Nat /\ DOMAIN idx.v = 1..Len(idx.v)
      /\ \A i \in 1..Len(idx.v) : idx.v[i] \in T
  BY LenProperties DEF Lists
<1>2. \A poc : RankOf(poc) \in Nat
  <2> SUFFICES ASSUME NEW poc PROVE RankOf(poc) \in Nat
    OBVIOUS
  <2>1. IsFiniteSet(DOMAIN pb.v)
    <3>1. Len(pb.v) \in Nat /\ DOMAIN pb.v = 1..Len(pb.v)
      BY LenProperties
    <3> QED BY <3>1, FS_Interval
  <2>2. {j \in DOMAIN pb.v : pb.v[j] < poc} \in SUBSET DOMAIN pb.v
    OBVIOUS
  <2> QED BY <2>1, <2>2, FS_Subset, FS_CardinalityType DEF RankOf
<1>3. \A i \in 1..Len(idx.v) : e(i) \in T
  <2> SUFFICES ASSUME NEW i \in 1..Len(idx.v) PROVE e(i) \in T
    OBVIOUS
  <2>1. cvs.base + RankOf(pb.v[idx.v[i].frame - cvs.base + 1]) \in Nat
    BY <1>2
  <2> QED BY <1>1, <2>1
<1>4. Ranked = [idx EXCEPT !.v = [i \in 1..Len(idx.v) |-> e(i)]]
  BY <1>1 DEF Ranked
<1> HIDE DEF e
<1>5. [i \in 1..Len(idx.v) |-> e(i)] \in Seq(T)
  BY <1>1, <1>3, IsASeq
<1>6. Len([i \in 1..Len(idx.v) |-> e(i)]) = Len(idx.v)
  BY <1>1
<1>7. Len(idx.v) <= idx.cap
  BY DEF Lists
<1>8. CASE pb.v = <<>>
  BY <1>1, <1>8 DEF flush_cvs
<1>9. CASE pb.v # <<>>
  <2>1. flush_cvs.v = [i \in 1..Len(idx.v) |-> e(i)] /\ flush_cvs.cap = idx.cap
        /\ flush_cvs \in [v : Seq(T), cap : Nat]
    BY <1>1, <1>4, <1>5, <1>9 DEF flush_cvs
  <2> QED BY <1>1, <1>6, <1>7, <1>9, <2>1 DEF e, Lists
<1> QED BY <1>8, <1>9

-----------------------------------------------------------------------------
(* Type correctness *)

SeekPointType(n, f) == [nal : 1..n, frame : 0..f - 1, valid_from : Nat]
ParamSetType(n) == [nal : 1..n, type : ParamTypes, id : -1..255]

\* The lists are as long as the counters say, and what they hold is within
\* the file and the count.
ListsInv ==
    /\ WellFormed(file)
    /\ idx \in Lists(SeekPointType(Len(file), frames))
    /\ ps \in Lists(ParamSetType(Len(file)))
    /\ pb \in Lists(Range(pb.v))
    /\ cvs.base \in 0..frames /\ cvs.first_sp \in 0..Len(idx.v)
    /\ pass = "poc" => Len(pb.v) = frames - cvs.base

ScalarsInv ==
    /\ pos \in 1..Len(file) + 1
    /\ au_start \in 1..pos
    /\ frames \in 0..pos - 1 /\ num_pics \in 0..Len(file)
    /\ seen \subseteq {7, 8}

FlagsInv == in_vcl \in BOOLEAN /\ is_mvc \in BOOLEAN /\ recovery_seen \in BOOLEAN

TypeInv == ListsInv /\ ScalarsInv /\ FlagsInv

PassType == pass \in {"poc", "idr", "done"}

LEMMA FileType ==
  ASSUME WellFormed(file)
  PROVE  Len(file) \in Nat /\ DOMAIN file = 1..Len(file)
  BY LenProperties DEF WellFormed

LEMMA TypeInvGives == TypeInv /\ PassType => TypeOK
<1> SUFFICES ASSUME TypeInv, PassType PROVE TypeOK
  OBVIOUS
<1>1. Len(file) \in Nat
  BY FileType DEF TypeInv, ListsInv
<1>2. /\ idx.v \in Seq(SeekPointType(Len(file), frames)) /\ Len(idx.v) <= idx.cap
      /\ ps.v \in Seq(ParamSetType(Len(file))) /\ Len(ps.v) <= ps.cap
      /\ Len(pb.v) <= pb.cap
  BY DEF TypeInv, ListsInv, Lists
<1>3. SeekPoints \subseteq SeekPointType(Len(file), frames)
  BY <1>2, LenProperties DEF SeekPoints, Range
<1>4. Range(ps.v) \subseteq ParamSetType(Len(file))
  BY <1>2, LenProperties DEF Range
<1> QED BY <1>2, <1>3, <1>4 DEF TypeInv, ListsInv, ScalarsInv, FlagsInv, PassType,
                                   TypeOK, SeekPointType, ParamSetType

LEMMA EmptyLists == \A S : EmptyList \in Lists(S)
  BY EmptySeq DEF EmptyList, Lists

LEMMA InitTypes == Init => TypeInv /\ PassType
<1> SUFFICES ASSUME Init PROVE TypeInv /\ PassType
  OBVIOUS
<1>1. WellFormed(file)
  BY FilesAssumption DEF Init
<1>2. Len(file) \in Nat
  BY <1>1, FileType
<1>3. /\ idx \in Lists(SeekPointType(Len(file), frames)) /\ ps \in Lists(ParamSetType(Len(file)))
      /\ pb \in Lists(Range(pb.v)) /\ Len(idx.v) = 0 /\ Len(pb.v) = 0
  BY EmptyLists, EmptySeq DEF Init, EmptyList
<1>4. cvs.base = 0 /\ cvs.first_sp = 0 /\ frames = 0
  BY DEF Init
<1>5. ListsInv
  BY <1>1, <1>3, <1>4 DEF ListsInv
<1>6. ScalarsInv
  BY <1>2, <1>4 DEF Init, ScalarsInv
<1>7. FlagsInv
  BY DEF Init, FlagsInv
<1> QED BY <1>5, <1>6, <1>7 DEF Init, TypeInv, PassType

LEMMA ClearedList ==
  ASSUME NEW S, NEW l \in Lists(S), NEW T
  PROVE  [l EXCEPT !.v = <<>>] \in Lists(T) /\ [l EXCEPT !.v = <<>>].v = <<>>
<1>1. l \in [v : Seq(S), cap : Nat]
  BY DEF Lists
<1>2. [l EXCEPT !.v = <<>>].v = <<>> /\ [l EXCEPT !.v = <<>>] \in [v : Seq(T), cap : Nat]
  <2>1. <<>> \in Seq(T)
    BY EmptySeq
  <2> DEFINE e == <<>>
  <2> HIDE DEF e
  <2>2. e \in Seq(T) => [l EXCEPT !.v = e].v = e /\ [l EXCEPT !.v = e] \in [v : Seq(T), cap : Nat]
    BY <1>1
  <2> QED BY <2>1, <2>2 DEF e
<1>3. Len(<<>>) <= [l EXCEPT !.v = <<>>].cap
  BY <1>2
<1> QED BY <1>2, <1>3 DEF Lists

\* A longer count admits the seek points there are.
LEMMA SeekPointsGrow ==
  ASSUME NEW n \in Nat, NEW f \in Nat, NEW l \in Lists(SeekPointType(n, f))
  PROVE  l \in Lists(SeekPointType(n, f + 1))
<1>1. SeekPointType(n, f) \subseteq SeekPointType(n, f + 1)
  BY DEF SeekPointType
<1>2. l.v \in Seq(SeekPointType(n, f + 1))
  BY <1>1, SeqMonotonic DEF Lists
<1> QED BY <1>2 DEF Lists

\* The seek point a picture may add.
LEMMA SeekPointPushed ==
  ASSUME TypeInv, Scanning, NEW unit \in 1..pos,
         NEW l \in Lists(SeekPointType(Len(file), frames)),
         NEW q \in PushOrDrop(l, SeekPointAt(unit), IdxCap, "idx") \cup {l}
  PROVE  /\ q \in Lists(SeekPointType(Len(file), frames + 1))
         /\ Len(q.v) \in {Len(l.v), Len(l.v) + 1} /\ Len(l.v) \in Nat
         /\ \A i \in 1..Len(l.v) : q.v[i] = l.v[i]
         /\ Len(q.v) = Len(l.v) + 1 => q.v[Len(l.v) + 1] = SeekPointAt(unit)
<1>1. Len(file) \in Nat /\ frames \in Nat /\ pos \in 1..Len(file)
  BY FileType DEF TypeInv, ListsInv, ScalarsInv, Scanning
<1>2. l \in Lists(SeekPointType(Len(file), frames + 1))
  BY <1>1, SeekPointsGrow
<1>3. SeekPointAt(unit) \in SeekPointType(Len(file), frames + 1)
  BY <1>1 DEF SeekPointAt, SeekPointType
<1>4. IdxCap \in Nat \ {0}
  BY CapsAssumption
<1>5. CASE q = l
  BY <1>2, <1>5, LenProperties DEF Lists
<1>6. CASE q = Pushed(l, SeekPointAt(unit), IdxCap)
  <2>1. Len(l.v) \in Nat
    BY <1>2, LenProperties DEF Lists
  <2> QED BY <1>2, <1>3, <1>4, <1>6, <2>1, PushType
<1> QED BY <1>5, <1>6 DEF PushOrDrop

\* A picture's count goes into the buffer, whatever it is.
LEMMA CountPushed ==
  ASSUME NEW l, l \in Lists(Range(l.v)), NEW poc
  PROVE  LET q == Pushed(l, poc, PocCap)
         IN  /\ q \in Lists(Range(q.v)) /\ Len(q.v) = Len(l.v) + 1 /\ Len(l.v) \in Nat
             /\ \A i \in 1..Len(l.v) : q.v[i] = l.v[i]
             /\ q.v[Len(l.v) + 1] = poc
<1> DEFINE S == Range(l.v) \cup {poc}
           q == Pushed(l, poc, PocCap)
<1>1. l \in Lists(S)
  BY SeqMonotonic DEF Lists
<1>2. PocCap \in Nat \ {0} /\ poc \in S
  BY CapsAssumption
<1>3. Len(l.v) \in Nat
  BY LenProperties DEF Lists
<1> HIDE DEF S
<1>4. /\ q \in Lists(S) /\ Len(q.v) = Len(l.v) + 1
      /\ \A i \in 1..Len(l.v) : q.v[i] = l.v[i]
      /\ q.v[Len(l.v) + 1] = poc
  BY <1>1, <1>2, PushType
<1>5. q \in Lists(Range(q.v))
  BY <1>4, SeqOfRange DEF Lists
<1> QED BY <1>3, <1>4, <1>5

\* The variables of the lists' invariant that a base picture changes.
LEMMA PictureTypes ==
  ASSUME TypeInv, NEW unit \in 1..pos,
         TakePicture(unit) \/ TakeIdr(unit) \/ TakeIdrOnly(unit), CountOn
  PROVE  ListsInv' /\ pos' \in 1..Len(file)' + 1 /\ frames' \in 0..pos' - 1 /\ pos' = pos + 1
<1>1. /\ Scanning /\ frames' = frames + 1 /\ pos' = pos + 1
      /\ UNCHANGED <<file, pass, ps>>
  BY DEF TakePicture, TakeIdr, TakeIdrOnly, CountOn
<1>2. Len(file) \in Nat /\ frames \in Nat /\ pos \in 1..Len(file) /\ frames \in 0..pos - 1
  BY <1>1, FileType DEF TypeInv, ListsInv, ScalarsInv, Scanning
<1>3. /\ idx \in Lists(SeekPointType(Len(file), frames)) /\ pb \in Lists(Range(pb.v))
      /\ cvs.base \in 0..frames /\ cvs.first_sp \in 0..Len(idx.v)
      /\ Len(idx.v) \in Nat
  BY LenProperties DEF TypeInv, ListsInv, Lists
<1>7. pos' \in 1..Len(file)' + 1 /\ frames' \in 0..pos' - 1 /\ WellFormed(file)' /\ frames \in 0..frames'
  BY <1>1, <1>2 DEF TypeInv, ListsInv
<1>4. CASE TakePicture(unit)
  <2>1. idx' \in PushOrDrop(idx, SeekPointAt(unit), IdxCap, "idx") \cup {idx}
    BY <1>4 DEF TakePicture
  <2>2. /\ idx' \in Lists(SeekPointType(Len(file), frames + 1))
        /\ Len(idx'.v) \in {Len(idx.v), Len(idx.v) + 1}
    BY <1>1, <1>3, <2>1, SeekPointPushed
  <2>3. pb' \in Lists(Range(pb'.v)) /\ Len(pb'.v) = Len(pb.v) + 1
    BY <1>3, <1>4, CountPushed DEF TakePicture
  <2>4. pass = "poc" /\ cvs' = cvs /\ Len(pb.v) = frames - cvs.base
    BY <1>4 DEF TakePicture, TypeInv, ListsInv
  <2>5. Len(pb'.v) = frames' - cvs'.base
    BY <1>1, <1>2, <1>3, <2>3, <2>4
  <2>6. cvs'.base \in 0..frames'
    BY <1>1, <1>2, <1>3, <2>4
  <2>7. cvs'.first_sp \in 0..Len(idx'.v)
    BY <1>3, <2>2, <2>4
  <2> QED BY <1>1, <1>7, <2>2, <2>3, <2>5, <2>6, <2>7 DEF TypeInv, ListsInv
<1>5. CASE TakeIdr(unit)
  <2>1. pb.v \in Seq(Range(pb.v)) /\ cvs.base \in Nat
    BY <1>2, <1>3 DEF Lists
  <2>2. flush_cvs \in Lists(SeekPointType(Len(file), frames)) /\ Len(flush_cvs.v) = Len(idx.v)
    BY <1>2, <1>3, <2>1, FlushKeeps DEF SeekPointType
  <2>3. idx' \in PushOrDrop(flush_cvs, SeekPointAt(unit), IdxCap, "idx")
    BY <1>5 DEF TakeIdr
  <2>4. /\ idx' \in Lists(SeekPointType(Len(file), frames + 1))
        /\ Len(idx'.v) \in {Len(idx.v), Len(idx.v) + 1}
    BY <1>1, <2>2, <2>3, SeekPointPushed
  <2>5. pb' = Pushed([pb EXCEPT !.v = <<>>], Derived.poc, PocCap)
    BY <1>5 DEF TakeIdr
  <2>6. [pb EXCEPT !.v = <<>>] \in Lists(Range([pb EXCEPT !.v = <<>>].v))
        /\ [pb EXCEPT !.v = <<>>].v = <<>>
    BY <1>3, ClearedList
  <2>7. pb' \in Lists(Range(pb'.v)) /\ Len(pb'.v) = Len([pb EXCEPT !.v = <<>>].v) + 1
    BY <2>5, <2>6, CountPushed
  <2>9. Len(pb'.v) = 1
    BY <2>6, <2>7
  <2>8. cvs'.base = frames /\ cvs'.first_sp = Len(idx.v)
    BY <1>5 DEF TakeIdr
  <2> QED BY <1>1, <1>2, <1>3, <1>7, <2>4, <2>7, <2>9, <2>8 DEF TypeInv, ListsInv
<1>6. CASE TakeIdrOnly(unit)
  <2>1. idx' \in PushOrDrop(idx, SeekPointAt(unit), IdxCap, "idx") \cup {idx}
    BY <1>6 DEF TakeIdrOnly
  <2>2. /\ idx' \in Lists(SeekPointType(Len(file), frames + 1))
        /\ Len(idx'.v) \in {Len(idx.v), Len(idx.v) + 1}
    BY <1>1, <1>3, <2>1, SeekPointPushed
  <2>3. pass = "idr" /\ UNCHANGED <<cvs, pb>>
    BY <1>6 DEF TakeIdrOnly
  <2> QED BY <1>1, <1>2, <1>3, <1>7, <2>2, <2>3 DEF TypeInv, ListsInv
<1> QED BY <1>4, <1>5, <1>6, <1>1, <1>2

LEMMA DroppedTypes ==
  ASSUME TypeInv, Fallback
  PROVE  TypeInv'
<1>1. /\ FreshLocals /\ idx' = [idx EXCEPT !.v = <<>>] /\ ps' = [ps EXCEPT !.v = <<>>]
      /\ UNCHANGED <<file, num_pics>> /\ pass' = "idr"
  BY DEF Fallback, DroppedSeekPoints
<1>2. /\ pos' = 1 /\ au_start' = 1 /\ in_vcl' = FALSE /\ frames' = 0 /\ is_mvc' = FALSE
      /\ seen' = {} /\ recovery_seen' = FALSE /\ cvs'.base = 0 /\ cvs'.first_sp = 0
      /\ pb' = EmptyList
  BY <1>1 DEF FreshLocals
<1>3. Len(file) \in Nat
  BY FileType DEF TypeInv, ListsInv
<1>4. idx' \in Lists(SeekPointType(Len(file), 0)) /\ ps' \in Lists(ParamSetType(Len(file)))
      /\ pb' \in Lists(Range(pb'.v)) /\ Len(idx'.v) = 0
  <2>1. idx \in Lists(SeekPointType(Len(file), frames)) /\ ps \in Lists(ParamSetType(Len(file)))
    BY DEF TypeInv, ListsInv
  <2>2. pb' \in Lists(Range(pb'.v))
    BY <1>2, EmptyLists
  <2>3. Len(<<>>) = 0
    OBVIOUS
  <2> QED BY <1>1, <2>1, <2>2, <2>3, ClearedList
<1>5. ListsInv'
  BY <1>1, <1>2, <1>3, <1>4 DEF TypeInv, ListsInv
<1>6. ScalarsInv'
  BY <1>1, <1>2, <1>3 DEF TypeInv, ScalarsInv
<1>7. FlagsInv'
  BY <1>2 DEF FlagsInv
<1> QED BY <1>5, <1>6, <1>7 DEF TypeInv

LEMMA FinishTypes ==
  ASSUME TypeInv, Finish
  PROVE  TypeInv'
<1>1. /\ idx' = IF pass = "poc" THEN flush_cvs ELSE idx
      /\ num_pics' = frames /\ pass' = "done"
      /\ UNCHANGED <<file, locals, ps>>
  BY DEF Finish
<1>2. /\ idx \in Lists(SeekPointType(Len(file), frames)) /\ pb.v \in Seq(Range(pb.v))
      /\ cvs.base \in Nat /\ frames \in Nat /\ Len(file) \in Nat /\ pos \in 1..Len(file) + 1
      /\ frames \in 0..pos - 1
  BY FileType DEF TypeInv, ListsInv, ScalarsInv, Lists
<1>3. flush_cvs \in Lists(SeekPointType(Len(file), frames)) /\ Len(flush_cvs.v) = Len(idx.v)
  BY <1>2, FlushKeeps DEF SeekPointType
<1>4. idx' \in Lists(SeekPointType(Len(file), frames)) /\ Len(idx'.v) = Len(idx.v)
  BY <1>1, <1>2, <1>3
<1>5. ListsInv'
  BY <1>1, <1>4 DEF TypeInv, ListsInv, locals
<1>6. ScalarsInv'
  BY <1>1, <1>2 DEF TypeInv, ScalarsInv, locals
<1>7. FlagsInv'
  BY <1>1 DEF TypeInv, FlagsInv, locals
<1> QED BY <1>5, <1>6, <1>7 DEF TypeInv

\* Every step keeps every variable within its type.
LEMMA TypeStep == TypeInv /\ PassType /\ [Next]_vars => TypeInv' /\ PassType'
<1> SUFFICES ASSUME TypeInv, PassType, [Next]_vars PROVE TypeInv' /\ PassType'
  OBVIOUS
<1>0. /\ Len(file) \in Nat /\ pos \in 1..Len(file) + 1 /\ frames \in 0..pos - 1
      /\ au_start \in 1..pos /\ Len(file) + 1 \in Nat
  BY FileType DEF TypeInv, ListsInv, ScalarsInv
<1>1. Scanning => pos \in 1..Len(file)
  BY FileType DEF TypeInv, ListsInv, Scanning
<1>2. ASSUME Scanning, pos' = pos + 1, UNCHANGED <<file, pass, frames, cvs, pb, idx, num_pics>>,
             au_start' \in 1..pos', FlagsInv',
             seen' \subseteq {7, 8}, ps' \in Lists(ParamSetType(Len(file)))
      PROVE  TypeInv' /\ PassType'
  <2>1. ListsInv'
    BY <1>2 DEF TypeInv, ListsInv
  <2>2. ScalarsInv'
    BY <1>0, <1>1, <1>2 DEF TypeInv, ScalarsInv
  <2> QED BY <1>2, <2>1, <2>2 DEF TypeInv, PassType
<1>3. LeadsAu => au_start' \in 1..pos + 1 /\ in_vcl' \in BOOLEAN
  <2>1. LeadsAu => au_start' \in 1..pos + 1
    BY <1>0 DEF LeadsAu
  <2>2. LeadsAu => in_vcl' \in BOOLEAN
    BY DEF LeadsAu
  <2> QED BY <2>1, <2>2
<1>4. CASE ScanParamSet
  <2>1. [nal |-> pos, type |-> Nal.type, id |-> Nal.id] \in ParamSetType(Len(file))
    BY <1>1, <1>4 DEF ScanParamSet, ParamSetType, ParamTypes, TypeInv, ListsInv, WellFormed,
                      Nal, Scanning
  <2>2. ps \in Lists(ParamSetType(Len(file))) /\ PsCap \in Nat \ {0}
    BY CapsAssumption DEF TypeInv, ListsInv
  <2>3. ps' \in Lists(ParamSetType(Len(file)))
    BY <1>4, <2>1, <2>2, PushType DEF ScanParamSet, PushOrDrop
  <2>4. seen' \subseteq {7, 8}
    BY <1>4 DEF ScanParamSet, TypeInv, ScalarsInv
  <2>5. FlagsInv'
    BY <1>3, <1>4 DEF ScanParamSet, TypeInv, FlagsInv
  <2> QED BY <1>2, <1>3, <1>4, <2>3, <2>4, <2>5 DEF ScanParamSet
<1>5. CASE ScanOtherLeading
  <2>1. FlagsInv'
    BY <1>3, <1>5 DEF ScanOtherLeading, TypeInv, FlagsInv
  <2> QED BY <1>2, <1>3, <1>5, <2>1 DEF ScanOtherLeading, TypeInv, ListsInv, ScalarsInv
<1>6. CASE ScanSlice
  <2>1. FlagsInv'
    BY <1>6 DEF ScanSlice, TypeInv, FlagsInv
  <2> QED BY <1>0, <1>2, <1>6, <2>1 DEF ScanSlice, TypeInv, ListsInv, ScalarsInv
<1>7. CASE ScanPicture \/ ScanIdr \/ ScanPictureIdrOnly
  <2>1. PictureAuStart \in 1..pos
    BY <1>0 DEF PictureAuStart
  <2>2. /\ TakePicture(PictureAuStart) \/ TakeIdr(PictureAuStart) \/ TakeIdrOnly(PictureAuStart)
        /\ CountPicture /\ CountOn
    BY <1>7 DEF ScanPicture, ScanIdr, ScanPictureIdrOnly, CountPicture
  <2>3. ListsInv' /\ pos' \in 1..Len(file)' + 1 /\ frames' \in 0..pos' - 1 /\ pos' = pos + 1
    BY <2>1, <2>2, PictureTypes
  <2>4. /\ au_start' = PictureAuStart /\ in_vcl' = TRUE /\ recovery_seen' = FALSE
        /\ UNCHANGED <<file, pass, is_mvc, seen, num_pics>>
    BY <2>2 DEF CountPicture, CountOn
  <2>5. ScalarsInv'
    BY <1>0, <2>1, <2>3, <2>4 DEF TypeInv, ScalarsInv
  <2>6. FlagsInv'
    BY <2>4 DEF TypeInv, FlagsInv
  <2> QED BY <2>3, <2>4, <2>5, <2>6 DEF TypeInv, PassType
<1>8. CASE Fallback
  BY <1>8, DroppedTypes DEF Fallback, PassType
<1>9. CASE Finish
  BY <1>9, FinishTypes DEF Finish, PassType
<1>10. CASE Over \/ UNCHANGED vars
  BY <1>10 DEF Over, vars, locals, TypeInv, ListsInv, ScalarsInv, FlagsInv,
                 PassType
<1> QED BY <1>4, <1>5, <1>6, <1>7, <1>8, <1>9, <1>10 DEF Next

LEMMA TypesKept == Spec => [](TypeInv /\ PassType)
  BY InitTypes, TypeStep, PTL DEF Spec

\* The scan's counters stay within the file and its lists within the memory
\* they have, whatever runs out and however often a pass is thrown away.
THEOREM ScanTypeCorrect == Spec => []TypeOK
  BY TypesKept, TypeInvGives, PTL

-----------------------------------------------------------------------------
(* The parameter set list *)

\* A parameter set that precedes the seek point.
SetAt(q) == q \in DOMAIN file /\ file[q].type \in ParamTypes

\* The list holds the sets met so far in the order of the file, and all of them
\* unless one was dropped.
ListedInv ==
    /\ \A i \in DOMAIN ps.v :
          /\ ps.v[i].nal < pos /\ SetAt(ps.v[i].nal)
          /\ ps.v[i].type = file[ps.v[i].nal].type /\ ps.v[i].id = file[ps.v[i].nal].id
    /\ \A i, j \in DOMAIN ps.v : i < j => ps.v[i].nal < ps.v[j].nal
    /\ "ps" \notin Faults =>
          \A q \in 1..pos - 1 : SetAt(q) => \E i \in DOMAIN ps.v : ps.v[i].nal = q

EndInv == Done => AtEnd

\* A NAL is passed, and listed if it is a parameter set.
ListsNal ==
    /\ Scanning /\ pos' = pos + 1 /\ UNCHANGED <<file, pass>>
    /\ ps' \in IF SetAt(pos)
              THEN PushOrDrop(ps, [nal |-> pos, type |-> Nal.type, id |-> Nal.id], PsCap, "ps")
              ELSE {ps}

LEMMA NalListed ==
  ASSUME TypeInv, ListedInv, EndInv, ListsNal
  PROVE  ListedInv' /\ EndInv' /\ ps' \in Lists(ParamSetType(Len(file)))
<1>0. /\ Len(file) \in Nat /\ DOMAIN file = 1..Len(file) /\ pos \in 1..Len(file)
      /\ ps \in Lists(ParamSetType(Len(file)))
      /\ Scanning /\ pos' = pos + 1 /\ UNCHANGED <<file, pass>>
  BY FileType DEF TypeInv, ListsInv, ScalarsInv, ListsNal, Scanning
<1>1. /\ Len(ps.v) \in Nat /\ DOMAIN ps.v = 1..Len(ps.v)
      /\ \A i \in DOMAIN ps.v : ps.v[i].nal \in 1..Len(file)
  <2>1. /\ Len(ps.v) \in Nat /\ DOMAIN ps.v = 1..Len(ps.v)
        /\ \A i \in 1..Len(ps.v) : ps.v[i] \in ParamSetType(Len(file))
    BY <1>0, ListElements
  <2> QED BY <2>1 DEF ParamSetType
<1>2. (\A q : SetAt(q)' <=> SetAt(q)) /\ EndInv'
  BY <1>0 DEF SetAt, EndInv, Done, Scanning
<1>3. CASE ~SetAt(pos)
  <2>1. ps' = ps
    BY <1>3 DEF ListsNal
  <2>2. \A i \in DOMAIN ps.v : ps.v[i].nal < pos'
    BY <1>0, <1>1 DEF ListedInv
  <2>3. \A q \in 1..pos' - 1 : SetAt(q) => q \in 1..pos - 1
    BY <1>0, <1>3
  <2> QED BY <1>0, <1>2, <2>1, <2>2, <2>3 DEF ListedInv
<1>4. CASE SetAt(pos)
  <2> DEFINE e == [nal |-> pos, type |-> Nal.type, id |-> Nal.id]
  <2>2. ps' = ps \/ ps' = Pushed(ps, e, PsCap)
    BY <1>4 DEF ListsNal, PushOrDrop
  <2>3. "ps" \notin Faults => ps' = Pushed(ps, e, PsCap)
    BY <1>4 DEF ListsNal, PushOrDrop
  <2>4. e \in ParamSetType(Len(file))
    BY <1>0, <1>4 DEF SetAt, ParamSetType, ParamTypes, TypeInv, ListsInv, WellFormed, Nal
  <2>7. CASE ps' = Pushed(ps, e, PsCap)
    <3> HIDE DEF e
    <3>1. /\ ps' \in Lists(ParamSetType(Len(file))) /\ Len(ps'.v) = Len(ps.v) + 1
          /\ \A i \in 1..Len(ps.v) : ps'.v[i] = ps.v[i]
          /\ ps'.v[Len(ps.v) + 1] = e
      BY <1>0, <2>4, <2>7, PushType, CapsAssumption, SMTT(30)
    <3>2. DOMAIN ps'.v = 1..Len(ps.v) + 1
      BY <3>1, LenProperties DEF Lists
    <3>3. e.nal = pos /\ e.type = file[pos].type /\ e.id = file[pos].id
      BY DEF e, Nal
    <3>4. ASSUME NEW i \in DOMAIN ps'.v
          PROVE  /\ ps'.v[i].nal < pos' /\ SetAt(ps'.v[i].nal)
                 /\ ps'.v[i].type = file[ps'.v[i].nal].type
                 /\ ps'.v[i].id = file[ps'.v[i].nal].id
      <4>1. CASE i \in 1..Len(ps.v)
        BY <1>0, <1>1, <3>1, <4>1, SMTT(30) DEF ListedInv
      <4>2. CASE i = Len(ps.v) + 1
        <5>1. ps'.v[i] = e
          BY <3>1, <4>2
        <5>2. SetAt(pos) /\ pos < pos'
          BY <1>0, <1>4
        <5> QED BY <3>3, <5>1, <5>2
      <4> QED BY <1>1, <3>2, <4>1, <4>2
    <3>5. ASSUME NEW i \in DOMAIN ps'.v, NEW j \in DOMAIN ps'.v, i < j
          PROVE  ps'.v[i].nal < ps'.v[j].nal
      <4>1. i \in DOMAIN ps.v /\ ps'.v[i] = ps.v[i] /\ ps.v[i].nal < pos
        BY <1>1, <3>1, <3>2, <3>5 DEF ListedInv
      <4>2. CASE j \in DOMAIN ps.v
        BY <1>1, <3>1, <3>5, <4>1, <4>2 DEF ListedInv
      <4>3. CASE j = Len(ps.v) + 1
        BY <3>1, <3>3, <4>1, <4>3
      <4> QED BY <1>1, <3>2, <4>2, <4>3
    <3>6. "ps" \notin Faults =>
             \A q \in 1..pos' - 1 : SetAt(q) => \E i \in DOMAIN ps'.v : ps'.v[i].nal = q
      <4> SUFFICES ASSUME "ps" \notin Faults, NEW q \in 1..pos' - 1, SetAt(q)
                   PROVE  \E i \in DOMAIN ps'.v : ps'.v[i].nal = q
        OBVIOUS
      <4>1. CASE q \in 1..pos - 1
        BY <1>1, <3>1, <3>2, <4>1 DEF ListedInv
      <4>2. CASE q = pos
        BY <1>1, <3>1, <3>2, <3>3, <4>2
      <4> QED BY <1>0, <4>1, <4>2
    <3> QED BY <1>2, <3>1, <3>4, <3>5, <3>6, <1>0 DEF ListedInv
  <2>8. CASE ps' = ps /\ "ps" \in Faults
    <3>1. \A i \in DOMAIN ps.v : ps.v[i].nal < pos'
      BY <1>0, <1>1 DEF ListedInv
    <3> QED BY <1>0, <1>2, <2>8, <3>1 DEF ListedInv
  <2> QED BY <2>2, <2>3, <2>7, <2>8
<1> QED BY <1>3, <1>4, <1>0 DEF ListsNal

\* Nothing is listed when a pass ends or is thrown away.
LEMMA NoneListed ==
  ASSUME TypeInv, ListedInv, Fallback \/ Finish
  PROVE  ListedInv' /\ EndInv'
<1>1. CASE Fallback
  <2>1. ps'.v = <<>> /\ pos' = 1 /\ pass' = "idr"
    BY <1>1, ClearedList DEF Fallback, FreshLocals, TypeInv, ListsInv
  <2> QED BY <2>1 DEF ListedInv, EndInv, Done
<1>2. CASE Finish
  BY <1>2 DEF Finish, locals, ListedInv, SetAt, EndInv, Done, AtEnd
<1> QED BY <1>1, <1>2

LEMMA ListedStep ==
  ASSUME TypeInv, ListedInv, EndInv, [Next]_vars
  PROVE  ListedInv' /\ EndInv'
<1>1. CASE ScanParamSet
  BY <1>1, NalListed DEF ScanParamSet, ListsNal, SetAt, Scanning, Nal
<1>2. CASE ScanOtherLeading \/ ScanSlice
  <2>1. ~SetAt(pos)
    BY <1>2 DEF ScanOtherLeading, ScanSlice, SetAt, Nal, IsVcl, ParamTypes
  <2> QED BY <1>2, <2>1, NalListed DEF ScanOtherLeading, ScanSlice, ListsNal
<1>3. CASE ScanPicture \/ ScanIdr \/ ScanPictureIdrOnly
  <2>1. Scanning /\ Counted /\ CountOn
    BY <1>3 DEF ScanPicture, ScanIdr, ScanPictureIdrOnly, CountPicture, TakePicture, TakeIdr,
                TakeIdrOnly
  <2>2. ~SetAt(pos)
    BY <2>1 DEF Counted, IsFirstSlice, SetAt, Nal, ParamTypes
  <2> QED BY <2>1, <2>2, NalListed DEF CountOn, ListsNal
<1>4. CASE Fallback \/ Finish
  BY <1>4, NoneListed
<1>5. CASE Over \/ UNCHANGED vars
  BY <1>5 DEF Over, vars, locals, ListedInv, SetAt, EndInv, Done, AtEnd
<1> QED BY <1>1, <1>2, <1>3, <1>4, <1>5 DEF Next

LEMMA ListedKept == Spec => [](ListedInv /\ EndInv)
<1>1. Init => ListedInv /\ EndInv
  BY DEF Init, EmptyList, ListedInv, EndInv, Done
<1> QED BY <1>1, ListedStep, TypesKept, PTL DEF Spec

\* At a seek point the sets before it are the front of the list, and the last of
\* a kind and id in it is the last in the file.
LEMMA RefeedIsLast == TypeInv /\ ListedInv /\ EndInv => RefeedTrue
<1> SUFFICES ASSUME TypeInv, ListedInv, EndInv, Done, "ps" \notin Faults, NEW sp \in SeekPoints,
                    NEW q \in 1..sp.nal - 1, file[q].type \in ParamTypes
             PROVE  (\E i \in Refed(sp) : ps.v[i].nal = q) <=>
                        file[q].id = -1 \/ q = Max(SentBefore(file[q].type, file[q].id, sp.nal))
  BY DEF RefeedTrue
<1>0. /\ Len(file) \in Nat /\ DOMAIN file = 1..Len(file) /\ pos \in 1..Len(file) + 1
      /\ ps \in Lists(ParamSetType(Len(file)))
  BY FileType DEF TypeInv, ListsInv, ScalarsInv
<1>1. /\ Len(ps.v) \in Nat /\ DOMAIN ps.v = 1..Len(ps.v)
      /\ \A i \in DOMAIN ps.v : ps.v[i].nal \in 1..Len(file)
  <2>1. /\ Len(ps.v) \in Nat /\ DOMAIN ps.v = 1..Len(ps.v)
        /\ \A i \in 1..Len(ps.v) : ps.v[i] \in ParamSetType(Len(file))
    BY <1>0, ListElements
  <2> QED BY <2>1 DEF ParamSetType
<1>2. sp.nal \in 1..Len(file) /\ pos = Len(file) + 1
  <2>1. idx.v \in Seq(SeekPointType(Len(file), frames))
    BY DEF TypeInv, ListsInv, Lists
  <2>2. sp \in SeekPointType(Len(file), frames)
    BY <2>1, LenProperties DEF SeekPoints, Range
  <2> QED BY <1>0, <2>2 DEF SeekPointType, EndInv, AtEnd
<1>3. Preceding(sp) = {i \in DOMAIN ps.v : ps.v[i].nal < sp.nal}
  <2>1. ASSUME NEW i \in DOMAIN ps.v, ps.v[i].nal < sp.nal, NEW j \in 1..i
        PROVE  ps.v[j].nal < sp.nal
    <3>1. j \in DOMAIN ps.v /\ (j = i \/ j < i)
      BY <1>1
    <3>2. j < i => ps.v[j].nal < ps.v[i].nal
      BY <3>1 DEF ListedInv
    <3> DEFINE a == ps.v[j].nal
               b == ps.v[i].nal
               c == sp.nal
    <3>3. a \in Int /\ b \in Int /\ c \in Int /\ b < c
      BY <1>1, <1>2, <2>1, <3>1
    <3>4. (j = i => a = b) /\ (j < i => a < b)
      BY <3>2
    <3> HIDE DEF a, b, c
    <3>5. a < c
      BY <3>1, <3>3, <3>4
    <3> QED BY <3>5 DEF a, c
  <2>2. ASSUME NEW i \in DOMAIN ps.v, \A j \in 1..i : ps.v[j].nal < sp.nal
        PROVE  ps.v[i].nal < sp.nal
    BY <1>1, <2>2
  <2> QED BY <2>1, <2>2 DEF Preceding
<1>4. PICK i \in DOMAIN ps.v : ps.v[i].nal = q
  BY <1>0, <1>2 DEF ListedInv, SetAt
<1>5. \A j \in DOMAIN ps.v : ps.v[j].nal = q => j = i
  BY <1>1, <1>4 DEF ListedInv
<1>6. i \in Preceding(sp) /\ ps.v[i].type = file[q].type /\ ps.v[i].id = file[q].id
  BY <1>2, <1>3, <1>4 DEF ListedInv
<1>7. (\E j \in Refed(sp) : ps.v[j].nal = q) <=> file[q].id = -1 \/ Overrides(i, sp)
  BY <1>4, <1>5, <1>6 DEF Refed, Preceding
<1> DEFINE S == SentBefore(file[q].type, file[q].id, sp.nal)
<1>8. S \in SUBSET (0..Len(file)) /\ q \in S
  BY <1>0, <1>2 DEF SentBefore
<1>9. Max(S) \in S /\ \A y \in S : Max(S) >= y
  <2> HIDE DEF S
  <2> QED BY <1>0, <1>8, MaxExists
<1>10. Overrides(i, sp) <=> \A y \in S : q >= y
  <2>1. ASSUME Overrides(i, sp), NEW y \in S PROVE q >= y
    <3>1. y \in 1..sp.nal - 1 /\ file[y].type = file[q].type /\ file[y].id = file[q].id
      BY DEF SentBefore
    <3>2. PICK j \in DOMAIN ps.v : ps.v[j].nal = y
      BY <1>0, <1>2, <3>1 DEF ListedInv, SetAt
    <3>3. j \in Preceding(sp) /\ ps.v[j].type = file[q].type /\ ps.v[j].id = file[q].id
      BY <1>2, <1>3, <3>1, <3>2 DEF ListedInv
    <3>4. ~(j > i)
      BY <1>6, <2>1, <3>3 DEF Overrides
    <3>5. j < i => y < q
      BY <1>4, <3>2 DEF ListedInv
    <3> QED BY <1>1, <1>4, <3>1, <3>2, <3>4, <3>5
  <2>2. ASSUME \A y \in S : q >= y, NEW j \in Preceding(sp), j > i,
               ps.v[j].type = ps.v[i].type, ps.v[j].id = ps.v[i].id
        PROVE  FALSE
    <3>1. j \in DOMAIN ps.v /\ ps.v[j].nal < sp.nal /\ ps.v[j].nal \in 1..Len(file)
      BY <1>1, <1>3, <2>2
    <3>2. q < ps.v[j].nal
      BY <1>4, <2>2, <3>1 DEF ListedInv
    <3>3. ps.v[j].nal \in S
      BY <1>2, <1>6, <2>2, <3>1 DEF SentBefore, ListedInv
    <3> QED BY <2>2, <3>1, <3>2, <3>3
  <2> QED BY <2>1, <2>2 DEF Overrides
<1>11. (\A y \in S : q >= y) <=> q = Max(S)
  <2> HIDE DEF S
  <2>1. \A y \in S : y \in Nat
    BY <1>0, <1>8
  <2>2. Max(S) \in Nat /\ q \in Nat
    BY <1>8, <1>9, <2>1
  <2>3. (\A y \in S : q >= y) => q >= Max(S)
    BY <1>9
  <2>4. Max(S) >= q
    BY <1>8, <1>9
  <2> QED BY <1>9, <2>2, <2>3, <2>4
<1> QED BY <1>7, <1>10, <1>11

\* "Feeding just the last of each leaves the decoder in the identical state"
\* (mvcsource.c:890): if no allocation of the set list fails, a decode from any
\* seek point of any file starts with the last set of each type and id before it.
THEOREM RefeedCorrect == Spec => []RefeedTrue
  BY TypesKept, ListedKept, RefeedIsLast, PTL

-----------------------------------------------------------------------------
(* Counting the pictures a decoder puts out *)

\* The definitions about the file change with nothing else.
LEMMA FileFixed ==
  ASSUME file' = file
  PROVE  /\ Decoded' = Decoded
         /\ \A p : DecodeIndex(p)' = DecodeIndex(p)
         /\ \A p : AccessUnitOf(p)' = AccessUnitOf(p)
         /\ \A type, id, p : SetBefore(type, id, p)' = SetBefore(type, id, p)
         /\ \A type, id, p : ActiveAt(type, id, p)' = ActiveAt(type, id, p)
<1>1. \A type, id, p : SetBefore(type, id, p)' = SetBefore(type, id, p)
  BY DEF SetBefore, SentBefore
<1>2. \A type, id, p : ActiveAt(type, id, p)' = ActiveAt(type, id, p)
  BY <1>1 DEF ActiveAt
<1>3. \A p : CanDecode(p)' <=> CanDecode(p)
  BY <1>1, <1>2 DEF CanDecode
<1>4. Decoded' = Decoded
  BY <1>3 DEF Decoded
<1>5. \A p : DecodeIndex(p)' = DecodeIndex(p)
  BY <1>4 DEF DecodeIndex
<1>6. \A p : AccessUnitOf(p)' = AccessUnitOf(p)
  BY DEF AccessUnitOf
<1> QED BY <1>1, <1>2, <1>4, <1>5, <1>6

LEMMA DecodedFinite ==
  ASSUME WellFormed(file)
  PROVE  /\ Decoded \subseteq 1..Len(file) /\ IsFiniteSet(Decoded)
         /\ \A S \in SUBSET Decoded : IsFiniteSet(S) /\ Cardinality(S) \in Nat
<1>1. Len(file) \in Nat /\ DOMAIN file = 1..Len(file)
  BY FileType
<1>2. Decoded \in SUBSET (1..Len(file))
  BY <1>1 DEF Decoded
<1>3. IsFiniteSet(Decoded)
  <2>1. IsFiniteSet(1..Len(file))
    BY <1>1, FS_Interval
  <2> QED BY <1>2, <2>1, FS_Subset
<1> QED BY <1>2, <1>3, FS_Subset, FS_CardinalityType

\* One NAL further, the picture that starts there, if it does, has been passed.
LEMMA IndexStep ==
  ASSUME WellFormed(file), NEW n \in Nat
  PROVE  /\ DecodeIndex(n) \in Nat
         /\ n \in Decoded => DecodeIndex(n + 1) = DecodeIndex(n) + 1
         /\ n \notin Decoded => DecodeIndex(n + 1) = DecodeIndex(n)
<1> DEFINE S(k) == {q \in Decoded : q < k}
<1>1. IsFiniteSet(S(n)) /\ Cardinality(S(n)) \in Nat /\ \A q \in Decoded : q \in Nat
  BY DecodedFinite, FileType
<1>0. \A q \in Decoded : q < n + 1 <=> q < n \/ q = n
  BY <1>1
<1>2. n \in Decoded => S(n + 1) = S(n) \cup {n} /\ n \notin S(n)
  <2>1. n \notin S(n)
    OBVIOUS
  <2>2. ASSUME n \in Decoded PROVE S(n + 1) = S(n) \cup {n}
    <3>1. ASSUME NEW q PROVE q \in S(n + 1) <=> q \in S(n) \cup {n}
      BY <1>0, <2>2
    <3> HIDE DEF S
    <3> QED BY <3>1
  <2> QED BY <2>1, <2>2
<1>3. n \notin Decoded => S(n + 1) = S(n)
  BY <1>0
<1> HIDE DEF S
<1>4. n \in Decoded => Cardinality(S(n + 1)) = Cardinality(S(n)) + 1
  BY <1>1, <1>2, FS_AddElement
<1> QED BY <1>1, <1>3, <1>4 DEF S, DecodeIndex

LEMMA IndexGrows ==
  ASSUME WellFormed(file), NEW m \in Nat, NEW n \in Nat, m <= n
  PROVE  DecodeIndex(m) <= DecodeIndex(n) /\ (m \in Decoded /\ m < n => DecodeIndex(m) < DecodeIndex(n))
<1>1. \A q \in Decoded : q \in Nat
  BY DecodedFinite, FileType
<1>2. ASSUME NEW k \in Nat, k <= n PROVE DecodeIndex(k) <= DecodeIndex(n)
  <2>1. {q \in Decoded : q < k} \in SUBSET {q \in Decoded : q < n}
    BY <1>1, <1>2
  <2>2. IsFiniteSet({q \in Decoded : q < n})
    BY DecodedFinite
  <2> QED BY <2>1, <2>2, FS_Subset DEF DecodeIndex
<1>3. ASSUME m \in Decoded, m < n PROVE DecodeIndex(m) < DecodeIndex(n)
  <2>1. DecodeIndex(m + 1) = DecodeIndex(m) + 1 /\ DecodeIndex(m) \in Nat /\ DecodeIndex(n) \in Nat
    BY <1>3, IndexStep
  <2> QED BY <1>2, <1>3, <2>1
<1> QED BY <1>2, <1>3

\* The pictures are numbered from 0 without gaps.
LEMMA IndexOnto ==
  ASSUME WellFormed(file), NEW n \in Nat \ {0}, NEW k \in Nat, k < DecodeIndex(n)
  PROVE  \E p \in Decoded : p < n /\ DecodeIndex(p) = k
<1> DEFINE S == {m \in Nat : k < DecodeIndex(m)}
<1>1. Min(S) \in S /\ \A y \in S : Min(S) <= y
  <2>1. S \in SUBSET Nat /\ S # {}
    OBVIOUS
  <2> HIDE DEF S
  <2> QED BY <2>1, MinExists
<1>2. PICK m \in S : \A y \in S : m <= y
  BY <1>1
<1>3. DecodeIndex(0) = 0
  <2>1. {q \in Decoded : q < 0} = {}
    BY DecodedFinite, FileType
  <2> QED BY <2>1, FS_EmptySet DEF DecodeIndex
<1>4. m \in Nat /\ m # 0 /\ m - 1 \in Nat /\ m <= n
  BY <1>2, <1>3
<1>5. DecodeIndex(m - 1) <= k /\ DecodeIndex(m - 1) \in Nat
  <2>1. m - 1 \notin S
    BY <1>2, <1>4
  <2> QED BY <1>4, <2>1, IndexStep
<1>6. /\ m - 1 \in Decoded => DecodeIndex(m) = DecodeIndex(m - 1) + 1
      /\ m - 1 \notin Decoded => DecodeIndex(m) = DecodeIndex(m - 1)
  <2>1. (m - 1) + 1 = m
    BY <1>4
  <2> QED BY <1>4, <2>1, IndexStep
<1>7. m - 1 \in Decoded /\ DecodeIndex(m - 1) = k
  BY <1>2, <1>5, <1>6
<1> QED BY <1>4, <1>7

LEMMA IndexEnds ==
  ASSUME WellFormed(file)
  PROVE  DecodeIndex(1) = 0 /\ DecodeIndex(Len(file) + 1) = Cardinality(Decoded)
<1>1. {q \in Decoded : q < 1} = {} /\ {q \in Decoded : q < Len(file) + 1} = Decoded
  BY DecodedFinite, FileType
<1> QED BY <1>1, FS_EmptySet DEF DecodeIndex

-----------------------------------------------------------------------------
(* What the parser knows *)

LEMMA SetBeforeStep ==
  ASSUME NEW n \in Nat \ {0}, NEW type, NEW id
  PROVE  SetBefore(type, id, n + 1) =
            SetBefore(type, id, n)
                \cup {i \in {n} : file[i].type = type /\ file[i].id = id /\ file[i].usable}
<1>1. (n + 1) - 1 = n /\ 1..n = (1..n - 1) \cup {n}
  OBVIOUS
<1> QED BY <1>1 DEF SetBefore, SentBefore

LEMMA ActiveStep ==
  ASSUME NEW n \in Nat \ {0}, NEW type, NEW id
  PROVE  /\ file[n].type = type /\ file[n].id = id /\ file[n].usable => ActiveAt(type, id, n + 1) = n
         /\ ~(file[n].type = type /\ file[n].id = id /\ file[n].usable) =>
                /\ SetBefore(type, id, n + 1) = SetBefore(type, id, n)
                /\ ActiveAt(type, id, n + 1) = ActiveAt(type, id, n)
<1> DEFINE S == SetBefore(type, id, n + 1)
<1>1. ASSUME file[n].type = type, file[n].id = id, file[n].usable PROVE ActiveAt(type, id, n + 1) = n
  <2>1. S \in SUBSET (0..n) /\ n \in S /\ n \in Nat
    BY <1>1 DEF SetBefore, SentBefore
  <2> HIDE DEF S
  <2>2. Max(S) \in S /\ \A y \in S : Max(S) >= y
    BY <2>1, MaxExists
  <2>3. PICK m \in 0..n : m = Max(S) /\ m >= n
    BY <2>1, <2>2
  <2>4. m = n
    BY <2>3
  <2> QED BY <2>3, <2>4 DEF ActiveAt, S
<1>2. ~(file[n].type = type /\ file[n].id = id /\ file[n].usable) => S = SetBefore(type, id, n)
  <2>1. S = SetBefore(type, id, n)
                \cup {i \in {n} : file[i].type = type /\ file[i].id = id /\ file[i].usable}
    BY SetBeforeStep
  <2> HIDE DEF S
  <2> QED BY <2>1
<1> QED BY <1>1, <1>2 DEF ActiveAt

LEMMA ActiveIs ==
  ASSUME NEW n \in Nat \ {0}, NEW type, NEW id, SetBefore(type, id, n) # {}
  PROVE  ActiveAt(type, id, n) \in SetBefore(type, id, n)
<1>1. SetBefore(type, id, n) \in SUBSET (0..n)
  BY DEF SetBefore, SentBefore
<1> QED BY <1>1, MaxExists DEF ActiveAt

\* sets holds what the set of each id in force at n says.
Learnt(type, sets, n) ==
    /\ DOMAIN sets = {id \in Nat : SetBefore(type, id, n) # {}}
    /\ \A id \in DOMAIN sets : sets[id] = file[ActiveAt(type, id, n)].sps

LEMMA LearntStep ==
  ASSUME NEW n \in Nat \ {0}, NEW type, NEW sets, Learnt(type, sets, n)
  PROVE  /\ file[n].type # type \/ file[n].id \notin Nat \/ ~file[n].usable => Learnt(type, sets, n + 1)
         /\ file[n].type = type /\ file[n].id \in Nat /\ file[n].usable =>
                Learnt(type, With(sets, file[n].id, file[n].sps), n + 1)
<1>1. ASSUME file[n].type # type \/ file[n].id \notin Nat \/ ~file[n].usable
      PROVE  Learnt(type, sets, n + 1)
  <2>1. \A id \in Nat : /\ SetBefore(type, id, n + 1) = SetBefore(type, id, n)
                        /\ ActiveAt(type, id, n + 1) = ActiveAt(type, id, n)
    BY <1>1, ActiveStep
  <2> QED BY <2>1 DEF Learnt
<1>2. ASSUME file[n].type = type, file[n].id \in Nat, file[n].usable
      PROVE  Learnt(type, With(sets, file[n].id, file[n].sps), n + 1)
  <2> DEFINE x == file[n].id
             w == With(sets, x, file[n].sps)
  <2>1. DOMAIN w = DOMAIN sets \cup {x} /\ w[x] = file[n].sps
        /\ \A id \in DOMAIN sets : id # x => w[id] = sets[id]
    BY DEF With
  <2>2. ActiveAt(type, x, n + 1) = n /\ n \in SetBefore(type, x, n + 1)
    BY <1>2, ActiveStep DEF SetBefore, SentBefore
  <2>3. \A id \in Nat : id # x =>
            /\ SetBefore(type, id, n + 1) = SetBefore(type, id, n)
            /\ ActiveAt(type, id, n + 1) = ActiveAt(type, id, n)
    BY ActiveStep
  <2> HIDE DEF w
  <2>4. DOMAIN w = {id \in Nat : SetBefore(type, id, n + 1) # {}}
    BY <1>2, <2>1, <2>2, <2>3 DEF Learnt
  <2>5. \A id \in DOMAIN w : w[id] = file[ActiveAt(type, id, n + 1)].sps
    BY <1>2, <2>1, <2>2, <2>3 DEF Learnt
  <2> QED BY <2>4, <2>5 DEF Learnt, w
<1> QED BY <1>1, <1>2

\* The gate is open once an SPS and a PPS have come, and the first pass knows
\* the sets that have come.
ParserInv ==
    /\ \A type \in {7, 8} : type \in seen <=> \E q \in 1..pos - 1 : file[q].type = type
    /\ pass = "poc" =>
          /\ parser = [sps |-> parser.sps, pps |-> parser.pps, ctx |-> parser.ctx]
          /\ Learnt(7, parser.sps, pos) /\ Learnt(8, parser.pps, pos)

LEMMA FreshLearnt == \A type : Learnt(type, [id \in {} |-> 0], 1)
  BY DEF Learnt, SetBefore, SentBefore

LEMMA ParserStep ==
  ASSUME TypeInv, ParserInv, [Next]_vars
  PROVE  ParserInv'
<1>0. /\ Len(file) \in Nat /\ DOMAIN file = 1..Len(file) /\ pos \in 1..Len(file) + 1
      /\ WellFormed(file)
  BY FileType DEF TypeInv, ListsInv, ScalarsInv
<1>1. ASSUME file' = file PROVE \A type, sets, n : Learnt(type, sets, n)' <=> Learnt(type, sets, n)
  <2> SUFFICES ASSUME NEW type, NEW sets, NEW n PROVE Learnt(type, sets, n)' <=> Learnt(type, sets, n)
    OBVIOUS
  <2>1. \A id : /\ SetBefore(type, id, n)' = SetBefore(type, id, n)
                /\ ActiveAt(type, id, n)' = ActiveAt(type, id, n)
    BY <1>1, FileFixed
  <2>2. {id \in Nat : SetBefore(type, id, n)' # {}} = {id \in Nat : SetBefore(type, id, n) # {}}
    BY <2>1
  <2> QED BY <1>1, <2>1, <2>2 DEF Learnt
<1>2. ASSUME Scanning, pos' = pos + 1, UNCHANGED <<file, pass>>,
             seen' = seen \cup ({Nal.type} \cap {7, 8}),
             pass = "poc" => parser' = [parser EXCEPT !.ctx = parser'.ctx],
             Nal.type \notin {7, 8}
      PROVE  ParserInv'
  <2>1. \A type \in {7, 8} : type \in seen' <=> \E q \in 1..pos' - 1 : file'[q].type = type
    BY <1>0, <1>2 DEF ParserInv, Nal
  <2>2. ASSUME pass = "poc"
        PROVE  /\ parser' = [sps |-> parser'.sps, pps |-> parser'.pps, ctx |-> parser'.ctx]
               /\ parser'.sps = parser.sps /\ parser'.pps = parser.pps
    BY <1>2, <2>2 DEF ParserInv
  <2>3. pass = "poc" => Learnt(7, parser'.sps, pos + 1) /\ Learnt(8, parser'.pps, pos + 1)
    BY <1>0, <1>2, <2>2, LearntStep DEF ParserInv, Nal
  <2> QED BY <1>1, <1>2, <2>1, <2>2, <2>3 DEF ParserInv
<1>3. CASE ScanParamSet
  <2>1. /\ Scanning /\ pos' = pos + 1 /\ UNCHANGED <<file, pass>>
        /\ seen' = seen \cup ({Nal.type} \cap {7, 8})
        /\ parser' = IF pass = "poc" THEN Learned(Nal) ELSE parser
    BY <1>3 DEF ScanParamSet
  <2>2. ASSUME NEW type \in {7, 8}
        PROVE  type \in seen' <=> \E q \in 1..pos' - 1 : file'[q].type = type
    <3>1. 1..pos' - 1 = (1..pos - 1) \cup {pos}
      BY <1>0, <2>1
    <3>2. type \in seen' <=> type \in seen \/ file[pos].type = type
      BY <2>1 DEF Nal
    <3>3. type \in seen <=> \E q \in 1..pos - 1 : file[q].type = type
      BY DEF ParserInv
    <3> QED BY <2>1, <3>1, <3>2, <3>3
  <2>3. Nal.id \in -1..255
    BY <1>0, <1>3, <2>1 DEF ScanParamSet, Nal, Scanning, WellFormed, ParamTypes
  <2>4. ASSUME pass = "poc"
        PROVE  /\ parser' = [sps |-> parser'.sps, pps |-> parser'.pps, ctx |-> parser'.ctx]
               /\ Learnt(7, parser'.sps, pos + 1) /\ Learnt(8, parser'.pps, pos + 1)
    <3>0. parser = [sps |-> parser.sps, pps |-> parser.pps, ctx |-> parser.ctx]
          /\ Learnt(7, parser.sps, pos) /\ Learnt(8, parser.pps, pos)
          /\ parser' = Learned(Nal) /\ pos \in Nat \ {0}
      BY <1>0, <2>1, <2>4 DEF ParserInv
    <3>1. CASE Nal.type = 7 /\ Nal.id # -1 /\ Nal.usable
      <4>1. parser' = [sps |-> With(parser.sps, Nal.id, Nal.sps), pps |-> parser.pps,
                       ctx |-> parser.ctx]
        BY <3>0, <3>1 DEF Learned
      <4> QED BY <2>3, <3>0, <3>1, <4>1, LearntStep DEF Nal
    <3>2. CASE Nal.type = 8 /\ Nal.id # -1 /\ Nal.usable
      <4>1. parser' = [sps |-> parser.sps, pps |-> With(parser.pps, Nal.id, Nal.sps),
                       ctx |-> parser.ctx]
        BY <3>0, <3>2 DEF Learned
      <4> QED BY <2>3, <3>0, <3>2, <4>1, LearntStep DEF Nal
    <3>3. CASE Nal.id = -1 \/ Nal.type \notin {7, 8} \/ ~Nal.usable
      <4>1. parser' = parser
        BY <3>0, <3>3 DEF Learned
      <4> QED BY <3>0, <3>3, <4>1, LearntStep DEF Nal
    <3> QED BY <3>1, <3>2, <3>3
  <2> QED BY <1>1, <2>1, <2>2, <2>4 DEF ParserInv
<1>4. CASE ScanOtherLeading
  <2>1. /\ Scanning /\ pos' = pos + 1 /\ UNCHANGED <<file, pass, seen, parser>>
        /\ Nal.type \notin {7, 8}
    BY <1>4 DEF ScanOtherLeading, ParamTypes
  <2> QED BY <1>2, <2>1 DEF ParserInv
<1>5. CASE ScanSlice
  <2>1. /\ Scanning /\ pos' = pos + 1 /\ UNCHANGED <<file, pass, seen, parser>>
        /\ Nal.type \notin {7, 8}
    BY <1>5 DEF ScanSlice, IsVcl
  <2> QED BY <1>2, <2>1 DEF ParserInv
<1>6. CASE ScanPicture \/ ScanIdr \/ ScanPictureIdrOnly
  <2>1. /\ Scanning /\ Counted /\ CountOn
        /\ pass = "poc" => parser' = [parser EXCEPT !.ctx = parser'.ctx]
    BY <1>6 DEF ScanPicture, ScanIdr, ScanPictureIdrOnly, CountPicture, TakePicture, TakeIdr,
                TakeIdrOnly, ParserInv
  <2>2. Nal.type \notin {7, 8}
    BY <2>1 DEF Counted, IsFirstSlice
  <2>3. seen' = seen /\ pos' = pos + 1 /\ UNCHANGED <<file, pass>>
    BY <2>1 DEF CountOn
  <2>4. {Nal.type} \cap {7, 8} = {}
    BY <2>2
  <2> QED BY <1>2, <2>1, <2>2, <2>3, <2>4
<1>7. CASE Fallback
  <2>1. seen' = {} /\ pos' = 1 /\ pass' = "idr"
    BY <1>7 DEF Fallback, FreshLocals
  <2> QED BY <2>1 DEF ParserInv
<1>8. CASE Finish \/ Over \/ UNCHANGED vars
  BY <1>1, <1>8 DEF Finish, Over, vars, locals, ParserInv
<1> QED BY <1>3, <1>4, <1>5, <1>6, <1>7, <1>8 DEF Next

LEMMA ParserKept == Spec => []ParserInv
<1>1. Init => ParserInv
  <2> SUFFICES ASSUME Init PROVE ParserInv
    OBVIOUS
  <2>1. seen = {} /\ pos = 1 /\ parser = FreshParser
    BY DEF Init
  <2> QED BY <2>1, FreshLearnt DEF ParserInv, FreshParser
<1> QED BY <1>1, ParserStep, TypesKept, PTL DEF Spec

-----------------------------------------------------------------------------
(* Pictures and access units *)

Before(type, p) == \E q \in 1..p - 1 : file[q].type = type

\* What makes every slice past the gate one a decoder has the sets for: without
\* it the two part (run pps_gate).  A stream that is cut carries all of its sets at
\* the next point a decoder can start from.
SetsKnown ==
    \A p \in DOMAIN file :
        IsFirstSlice(file[p]) /\ Before(7, p) /\ Before(8, p) => CanDecode(p)

\* The access unit of a picture at p would begin at unit.
UnitBegins(unit, p) ==
    /\ unit \in 1..p
    /\ unit = 1 \/ IsVcl(file[unit - 1].type)
    /\ \A q \in unit..p - 1 : ~IsVcl(file[q].type)

LEMMA UnitIs ==
  ASSUME NEW p \in Nat \ {0}, NEW unit, UnitBegins(unit, p)
  PROVE  AccessUnitOf(p) = unit..p /\ Min(AccessUnitOf(p)) = unit
<1> DEFINE V == {q \in 1..p - 1 : IsVcl(file[q].type)}
<1>1. (IF V = {} THEN 1 ELSE Max(V) + 1) = unit
  <2>1. CASE unit = 1
    <3>1. V = {}
      BY <2>1 DEF UnitBegins
    <3> QED BY <2>1, <3>1
  <2>2. CASE unit # 1
    <3>1. unit - 1 \in V /\ unit - 1 \in Nat
      BY <2>2 DEF UnitBegins
    <3>2. \A y \in V : y \in Nat /\ y <= unit - 1
      BY DEF UnitBegins
    <3>3. V \in SUBSET (0..p)
      OBVIOUS
    <3> HIDE DEF V
    <3>4. Max(V) \in V /\ \A y \in V : Max(V) >= y
      BY <3>1, <3>3, MaxExists
    <3>5. PICK m \in V : m = Max(V) /\ m >= unit - 1
      BY <3>1, <3>4
    <3>6. m = unit - 1
      BY <3>1, <3>2, <3>5
    <3> QED BY <3>1, <3>5, <3>6 DEF UnitBegins
  <2> QED BY <2>1, <2>2
<1>2. AccessUnitOf(p) = unit..p
  BY <1>1 DEF AccessUnitOf
<1>3. unit..p \in SUBSET Nat /\ unit \in unit..p /\ \A y \in unit..p : unit <= y
  BY DEF UnitBegins
<1>4. Min(unit..p) \in unit..p /\ \A y \in unit..p : Min(unit..p) <= y
  BY <1>3, MinExists
<1>5. PICK m \in unit..p : m = Min(unit..p) /\ m <= unit
  BY <1>3, <1>4
<1>6. m = unit
  BY <1>3, <1>5
<1> QED BY <1>2, <1>5, <1>6

\* Where the next access unit begins is known at every NAL.
UnitInv == UnitBegins(PictureAuStart, pos)

LEMMA UnitStep ==
  ASSUME TypeInv, UnitInv, [Next]_vars
  PROVE  UnitInv'
<1>0. pos \in Nat \ {0} /\ in_vcl \in BOOLEAN /\ au_start \in 1..pos
  BY FileType DEF TypeInv, ListsInv, ScalarsInv, FlagsInv
<1>1. ASSUME LeadsAu, ~IsVcl(file[pos].type), pos' = pos + 1, file' = file
      PROVE  UnitInv'
  <2>1. PictureAuStart' = PictureAuStart
    BY <1>1 DEF LeadsAu, PictureAuStart
  <2>2. UnitBegins(PictureAuStart, pos + 1)
    BY <1>0, <1>1 DEF UnitInv, UnitBegins
  <2> QED BY <1>1, <2>1, <2>2 DEF UnitInv, UnitBegins
<1>2. ASSUME in_vcl' = TRUE, IsVcl(file[pos].type), pos' = pos + 1, file' = file
      PROVE  UnitInv'
  <2>1. PictureAuStart' = pos + 1
    BY <1>2 DEF PictureAuStart
  <2>2. UnitBegins(pos + 1, pos + 1)
    BY <1>0, <1>2 DEF UnitBegins
  <2> QED BY <1>2, <2>1, <2>2 DEF UnitInv, UnitBegins
<1>3. CASE ScanParamSet
  BY <1>1, <1>3 DEF ScanParamSet, Nal, ParamTypes, IsVcl
<1>4. CASE ScanOtherLeading
  BY <1>1, <1>4 DEF ScanOtherLeading, Nal
<1>5. CASE ScanSlice
  BY <1>2, <1>5 DEF ScanSlice, Nal
<1>6. CASE ScanPicture \/ ScanIdr \/ ScanPictureIdrOnly
  <2>1. Counted /\ CountPicture /\ CountOn
    BY <1>6 DEF ScanPicture, ScanIdr, ScanPictureIdrOnly, CountPicture, TakePicture, TakeIdr,
                TakeIdrOnly
  <2>2. IsVcl(file[pos].type)
    BY <2>1 DEF Counted, IsFirstSlice, Nal, IsVcl
  <2> QED BY <1>2, <2>1, <2>2 DEF CountPicture, CountOn
<1>7. CASE Fallback
  <2>1. pos' = 1 /\ au_start' = 1 /\ in_vcl' = FALSE
    BY <1>7 DEF Fallback, FreshLocals
  <2>2. PictureAuStart' = 1
    BY <2>1 DEF PictureAuStart
  <2> QED BY <2>1, <2>2 DEF UnitInv, UnitBegins
<1>8. CASE Finish \/ Over \/ UNCHANGED vars
  BY <1>8 DEF Finish, Over, vars, locals, UnitInv, UnitBegins, PictureAuStart
<1> QED BY <1>3, <1>4, <1>5, <1>6, <1>7, <1>8 DEF Next

LEMMA UnitKept == Spec => []UnitInv
<1>1. Init => UnitInv
  BY DEF Init, UnitInv, UnitBegins, PictureAuStart
<1> QED BY <1>1, UnitStep, TypesKept, PTL DEF Spec

\* The pictures the scan counts are those a decoder puts out: in the first pass
\* always, in the second if the sets of every counted slice are known.
LEMMA CountedIsDecoded ==
  ASSUME TypeInv, ParserInv, Scanning
  PROVE  /\ ~Counted => pos \notin Decoded
         /\ Counted /\ SetsKnown => pos \in Decoded
         /\ Counted /\ pass = "poc" /\ Parsable(Nal) => pos \in Decoded
<1>0. pos \in DOMAIN file /\ pos \in Nat \ {0} /\ seen \subseteq {7, 8}
  BY FileType DEF Scanning, TypeInv, ListsInv, ScalarsInv
<1>1. ASSUME pos \in Decoded PROVE Counted
  <2>1. IsFirstSlice(Nal) /\ CanDecode(pos)
    BY <1>1 DEF Decoded, Nal
  <2>2. PICK a : a \in SetBefore(8, file[pos].pps, pos)
    BY <2>1 DEF CanDecode
  <2>3. PICK b : b \in SetBefore(8, file[pos].pps, pos) /\ b = ActiveAt(8, file[pos].pps, pos)
    BY <1>0, <2>2, ActiveIs
  <2>4. PICK c : c \in SetBefore(7, file[b].sps, pos)
    BY <2>1, <2>3 DEF CanDecode
  <2>5. 8 \in seen /\ 7 \in seen
    BY <2>3, <2>4 DEF SetBefore, SentBefore, ParserInv
  <2> QED BY <1>0, <2>1, <2>5 DEF Counted, GateOpen
<1>2. ASSUME Counted, SetsKnown PROVE pos \in Decoded
  <2>1. IsFirstSlice(file[pos]) /\ 7 \in seen /\ 8 \in seen
    BY <1>2 DEF Counted, GateOpen, Nal
  <2>2. Before(7, pos) /\ Before(8, pos)
    BY <2>1 DEF ParserInv, Before
  <2> QED BY <1>0, <1>2, <2>1, <2>2 DEF SetsKnown, Decoded
<1>3. ASSUME Counted, pass = "poc", Parsable(Nal) PROVE pos \in Decoded
  <2>1. /\ IsFirstSlice(file[pos]) /\ file[pos].pps \in DOMAIN parser.pps
        /\ parser.pps[file[pos].pps] \in DOMAIN parser.sps
        /\ Learnt(7, parser.sps, pos) /\ Learnt(8, parser.pps, pos)
    BY <1>3 DEF Counted, Nal, Parsable, ParserInv
  <2>2. CanDecode(pos)
    BY <2>1 DEF Learnt, CanDecode
  <2> QED BY <1>0, <2>1, <2>2 DEF Decoded
<1> QED BY <1>1, <1>2, <1>3

-----------------------------------------------------------------------------
(* The count and the seek points *)

LEMMA SetsStayKnown == file' = file => (SetsKnown' <=> SetsKnown)
<1> SUFFICES ASSUME file' = file PROVE SetsKnown' <=> SetsKnown
  OBVIOUS
<1>1. \A p : CanDecode(p)' <=> CanDecode(p)
  BY FileFixed DEF CanDecode
<1> QED BY <1>1 DEF SetsKnown, Before

\* The count is right in the first pass, and in the second if the sets are known.
CountInv ==
    /\ pass = "poc" \/ SetsKnown => frames = DecodeIndex(pos)
    /\ Done => num_pics = frames

\* The seek point of the picture at p.
PointOf(sp, p) == p \in Decoded /\ sp.frame = DecodeIndex(p) /\ sp.nal = Min(AccessUnitOf(p))

PointsInv ==
    pass = "poc" \/ SetsKnown =>
        \A i \in DOMAIN idx.v : \E p \in 1..pos - 1 : PointOf(idx.v[i], p)

\* flush_cvs moves no seek point.
LEMMA FlushPlaces ==
  ASSUME TypeInv
  PROVE  /\ flush_cvs \in Lists(SeekPointType(Len(file), frames))
         /\ Len(flush_cvs.v) = Len(idx.v) /\ DOMAIN flush_cvs.v = DOMAIN idx.v
         /\ \A i \in DOMAIN idx.v : /\ flush_cvs.v[i].nal = idx.v[i].nal
                                   /\ flush_cvs.v[i].frame = idx.v[i].frame
<1>1. /\ idx \in Lists(SeekPointType(Len(file), frames)) /\ Len(file) \in Nat /\ frames \in Nat
      /\ pb.v \in Seq(Range(pb.v)) /\ cvs.base \in Nat
  BY FileType DEF TypeInv, ListsInv, ScalarsInv, Lists
<1>2. /\ Len(idx.v) \in Nat /\ DOMAIN idx.v = 1..Len(idx.v)
      /\ \A i \in 1..Len(idx.v) : idx.v[i] \in SeekPointType(Len(file), frames)
  BY <1>1, ListElements
<1>3. /\ flush_cvs \in Lists(SeekPointType(Len(file), frames))
      /\ Len(flush_cvs.v) = Len(idx.v)
      /\ \A i \in 1..Len(idx.v) : flush_cvs.v[i] =
              IF pb.v = <<>> \/ i <= cvs.first_sp THEN idx.v[i]
              ELSE [idx.v[i] EXCEPT
                       !.valid_from = cvs.base + RankOf(pb.v[idx.v[i].frame - cvs.base + 1])]
  BY <1>1, FlushKeeps DEF SeekPointType
<1>4. \A i \in 1..Len(idx.v) : /\ flush_cvs.v[i].nal = idx.v[i].nal
                               /\ flush_cvs.v[i].frame = idx.v[i].frame
  BY <1>2, <1>3 DEF SeekPointType
<1>5. DOMAIN flush_cvs.v = 1..Len(idx.v)
  BY <1>3, ListElements
<1> QED BY <1>2, <1>3, <1>4, <1>5

\* What a counted picture does to the seek points, wherever its unit begins.
LEMMA PictureAdds ==
  ASSUME TypeInv, NEW unit \in 1..pos, TakePicture(unit) \/ TakeIdr(unit) \/ TakeIdrOnly(unit)
  PROVE  /\ Scanning /\ Counted /\ (pass = "poc" => Parsable(Nal)) /\ pass \in {"poc", "idr"}
         /\ Len(idx.v) \in Nat /\ DOMAIN idx.v = 1..Len(idx.v)
         /\ Len(idx'.v) \in {Len(idx.v), Len(idx.v) + 1} /\ DOMAIN idx'.v = 1..Len(idx'.v)
         /\ \A i \in 1..Len(idx.v) : /\ idx'.v[i].nal = idx.v[i].nal
                                     /\ idx'.v[i].frame = idx.v[i].frame
         /\ \A i \in 1..Len(idx.v) : idx'.v[i] = IF pass = "poc" /\ IsIdr(Nal)
                                                 THEN flush_cvs.v[i] ELSE idx.v[i]
         /\ Len(idx'.v) = Len(idx.v) + 1 =>
                /\ idx'.v[Len(idx.v) + 1] = SeekPointAt(unit)
                /\ IsIdr(Nal) \/ (pass = "poc" /\ IsRandomAccess)
<1>0. Scanning /\ Counted /\ (pass = "poc" => Parsable(Nal)) /\ pass \in {"poc", "idr"}
  BY DEF TakePicture, TakeIdr, TakeIdrOnly, Scanning
<1>1. /\ idx \in Lists(SeekPointType(Len(file), frames)) /\ Len(file) \in Nat /\ frames \in Nat
      /\ pb.v \in Seq(Range(pb.v)) /\ cvs.base \in Nat
  BY FileType DEF TypeInv, ListsInv, ScalarsInv, Lists
<1>2. /\ Len(idx.v) \in Nat /\ DOMAIN idx.v = 1..Len(idx.v)
      /\ \A i \in 1..Len(idx.v) : idx.v[i] \in SeekPointType(Len(file), frames)
  BY <1>1, ListElements
<1>3. CASE TakePicture(unit) \/ TakeIdrOnly(unit)
  <2>1. idx' \in PushOrDrop(idx, SeekPointAt(unit), IdxCap, "idx") \cup {idx}
    BY <1>3 DEF TakePicture, TakeIdrOnly
  <2>2. /\ idx' = idx \/ IsIdr(Nal) \/ (pass = "poc" /\ IsRandomAccess)
        /\ ~(pass = "poc" /\ IsIdr(Nal))
    BY <1>3 DEF TakePicture, TakeIdrOnly
  <2>3. /\ idx' \in Lists(SeekPointType(Len(file), frames + 1))
        /\ Len(idx'.v) \in {Len(idx.v), Len(idx.v) + 1}
        /\ \A i \in 1..Len(idx.v) : idx'.v[i] = idx.v[i]
        /\ Len(idx'.v) = Len(idx.v) + 1 => idx'.v[Len(idx.v) + 1] = SeekPointAt(unit)
    BY <1>0, <1>1, <2>1, SeekPointPushed
  <2>4. DOMAIN idx'.v = 1..Len(idx'.v)
    BY <1>1, <2>3, ListElements
  <2>5. Len(idx'.v) = Len(idx.v) + 1 => idx' # idx
    BY <1>2
  <2> QED BY <1>0, <1>2, <2>2, <2>3, <2>4, <2>5
<1>4. CASE TakeIdr(unit)
  <2>1. /\ flush_cvs \in Lists(SeekPointType(Len(file), frames))
        /\ Len(flush_cvs.v) = Len(idx.v)
        /\ \A i \in 1..Len(idx.v) : /\ flush_cvs.v[i].nal = idx.v[i].nal
                                   /\ flush_cvs.v[i].frame = idx.v[i].frame
    BY <1>2, FlushPlaces
  <2>3. idx' \in PushOrDrop(flush_cvs, SeekPointAt(unit), IdxCap, "idx") \cup {flush_cvs}
        /\ IsIdr(Nal) /\ pass = "poc"
    BY <1>4 DEF TakeIdr
  <2>2. /\ idx' \in Lists(SeekPointType(Len(file), frames + 1))
        /\ Len(idx'.v) \in {Len(flush_cvs.v), Len(flush_cvs.v) + 1}
        /\ \A i \in 1..Len(flush_cvs.v) : idx'.v[i] = flush_cvs.v[i]
        /\ Len(idx'.v) = Len(flush_cvs.v) + 1 =>
               idx'.v[Len(flush_cvs.v) + 1] = SeekPointAt(unit)
    <3> DEFINE l == flush_cvs
    <3>1. l \in Lists(SeekPointType(Len(file), frames))
          /\ idx' \in PushOrDrop(l, SeekPointAt(unit), IdxCap, "idx") \cup {l}
      BY <2>1, <2>3
    <3> HIDE DEF l
    <3>2. /\ idx' \in Lists(SeekPointType(Len(file), frames + 1))
          /\ Len(idx'.v) \in {Len(l.v), Len(l.v) + 1}
          /\ \A i \in 1..Len(l.v) : idx'.v[i] = l.v[i]
          /\ Len(idx'.v) = Len(l.v) + 1 => idx'.v[Len(l.v) + 1] = SeekPointAt(unit)
      BY <1>0, <3>1, SeekPointPushed
    <3> QED BY <3>2 DEF l
  <2>4. /\ idx' \in Lists(SeekPointType(Len(file), frames + 1))
        /\ Len(idx'.v) \in {Len(idx.v), Len(idx.v) + 1}
        /\ \A i \in 1..Len(idx.v) : idx'.v[i] = flush_cvs.v[i]
        /\ Len(idx'.v) = Len(idx.v) + 1 => idx'.v[Len(idx.v) + 1] = SeekPointAt(unit)
    BY <2>1, <2>2
  <2>5. DOMAIN idx'.v = 1..Len(idx'.v)
    BY <1>1, <2>4, ListElements
  <2> QED BY <1>0, <1>2, <2>1, <2>3, <2>4, <2>5
<1> QED BY <1>3, <1>4

-----------------------------------------------------------------------------
(* The steps of a scan of one file, and of a pair's spans (InterleaveProofs):  *)
(* unit is where the access unit of a counted picture begins.                  *)

\* The SPS a decoder has active at a picture.
SpsAt(p) == file[ActiveAt(7, file[ActiveAt(8, file[p].pps, p)].sps, p)].sps

\* What is counted, and what the parser makes of it, is what a decoder has.
Knows ==
    Scanning =>
        /\ ~Counted => pos \notin Decoded
        /\ Counted /\ SetsKnown => pos \in Decoded
        /\ Counted /\ pass = "poc" /\ Parsable(Nal) =>
               /\ pos \in Decoded
               /\ Derived = DerivePoc(parser.ctx, SpsAt(pos), file[pos])
               /\ \A ctx : [parser EXCEPT !.ctx = ctx].ctx = ctx

Passes ==
    /\ Scanning /\ ~Counted /\ pos' = pos + 1
    /\ pass = "poc" => parser'.ctx = parser.ctx
    /\ UNCHANGED <<file, pass, frames, cvs, pb, idx, num_pics>>

Takes(unit) ==
    /\ TakePicture(unit) \/ TakeIdr(unit) \/ TakeIdrOnly(unit)
    /\ CountOn
    /\ UnitBegins(unit, pos)

\* The scan has ended, or gives up.
Rests ==
    /\ pass' \in {pass, "failed"}
    /\ UNCHANGED <<file, pos, frames, cvs, pb, parser, idx, num_pics>>

ScanStep(unit) == Passes \/ Takes(unit) \/ Fallback \/ Finish \/ Rests

LEMMA ParserKnows == TypeInv /\ ParserInv => Knows
<1> SUFFICES ASSUME TypeInv, ParserInv, Scanning
             PROVE  /\ ~Counted => pos \notin Decoded
                    /\ Counted /\ SetsKnown => pos \in Decoded
                    /\ Counted /\ pass = "poc" /\ Parsable(Nal) =>
                           /\ pos \in Decoded
                           /\ Derived = DerivePoc(parser.ctx, SpsAt(pos), file[pos])
                           /\ \A ctx : [parser EXCEPT !.ctx = ctx].ctx = ctx
  BY DEF Knows
<1>1. ASSUME pass = "poc", Parsable(Nal)
      PROVE  /\ Derived = DerivePoc(parser.ctx, SpsAt(pos), file[pos])
             /\ \A ctx : [parser EXCEPT !.ctx = ctx].ctx = ctx
  <2>1. /\ Learnt(7, parser.sps, pos) /\ Learnt(8, parser.pps, pos)
        /\ parser = [sps |-> parser.sps, pps |-> parser.pps, ctx |-> parser.ctx]
    BY <1>1 DEF ParserInv
  <2>2. parser.pps[Nal.pps] = file[ActiveAt(8, file[pos].pps, pos)].sps
    BY <1>1, <2>1 DEF Learnt, Parsable, Nal
  <2>3. parser.sps[parser.pps[Nal.pps]] = SpsAt(pos)
    BY <1>1, <2>1, <2>2 DEF Learnt, Parsable, SpsAt
  <2> QED BY <2>1, <2>3 DEF Derived, Nal
<1> QED BY <1>1, CountedIsDecoded

\* Every step of the scan of one file is of these.
LEMMA StepIs ==
  ASSUME TypeInv, ParserInv, UnitInv, [Next]_vars
  PROVE  ScanStep(PictureAuStart)
<1>1. CASE ScanParamSet
  <2>1. ~Counted
    BY <1>1 DEF ScanParamSet, Counted, IsFirstSlice, Nal, ParamTypes
  <2>2. pass = "poc" => parser'.ctx = parser.ctx
    BY <1>1 DEF ScanParamSet, Learned, ParserInv
  <2> QED BY <1>1, <2>1, <2>2 DEF ScanParamSet, ScanStep, Passes
<1>2. CASE ScanOtherLeading
  <2>1. ~Counted
    BY <1>2 DEF ScanOtherLeading, Counted, IsFirstSlice, Nal, IsVcl
  <2> QED BY <1>2, <2>1 DEF ScanOtherLeading, ScanStep, Passes
<1>3. CASE ScanSlice
  BY <1>3 DEF ScanSlice, ScanStep, Passes
<1>4. CASE ScanPicture \/ ScanIdr \/ ScanPictureIdrOnly
  BY <1>4 DEF ScanPicture, ScanIdr, ScanPictureIdrOnly, CountPicture, UnitInv, ScanStep, Takes
<1>5. CASE Fallback \/ Finish
  BY <1>5 DEF ScanStep
<1>6. CASE Over \/ UNCHANGED vars
  BY <1>6 DEF Over, vars, locals, ScanStep, Rests
<1> QED BY <1>1, <1>2, <1>3, <1>4, <1>5, <1>6 DEF Next

LEMMA CountStep ==
  ASSUME TypeInv, Knows, CountInv, PointsInv, NEW unit, ScanStep(unit)
  PROVE  CountInv' /\ PointsInv'
<1>0. /\ Len(file) \in Nat /\ DOMAIN file = 1..Len(file) /\ pos \in 1..Len(file) + 1
      /\ WellFormed(file) /\ pos \in Nat \ {0} /\ frames \in Nat
  BY FileType DEF TypeInv, ListsInv, ScalarsInv
<1>1. ASSUME file' = file
      PROVE  /\ SetsKnown' <=> SetsKnown
             /\ \A p : DecodeIndex(p)' = DecodeIndex(p)
             /\ \A sp, p : PointOf(sp, p)' <=> PointOf(sp, p)
  BY <1>1, FileFixed, SetsStayKnown DEF PointOf
<1>2. CASE Passes
  <2>1. DecodeIndex(pos + 1) = DecodeIndex(pos)
    BY <1>0, <1>2, IndexStep DEF Passes, Knows
  <2>2. CountInv'
    BY <1>1, <1>2, <2>1 DEF Passes, CountInv, Done
  <2>3. 1..pos - 1 \subseteq 1..pos' - 1
    BY <1>0, <1>2 DEF Passes
  <2>4. PointsInv'
    BY <1>1, <1>2, <2>3 DEF Passes, PointsInv
  <2> QED BY <2>2, <2>4
<1>6. CASE Takes(unit)
  <2>1. /\ TakePicture(unit) \/ TakeIdr(unit) \/ TakeIdrOnly(unit)
        /\ CountOn /\ pos' = pos + 1 /\ frames' = frames + 1
        /\ UNCHANGED <<file, pass, num_pics>>
    BY <1>6 DEF Takes, CountOn
  <2>2. unit \in 1..pos /\ Min(AccessUnitOf(pos)) = unit
    BY <1>0, <1>6, UnitIs DEF Takes, UnitBegins
  <2>3. /\ Scanning /\ Counted /\ (pass = "poc" => Parsable(Nal)) /\ pass \in {"poc", "idr"}
        /\ Len(idx.v) \in Nat /\ DOMAIN idx.v = 1..Len(idx.v)
        /\ Len(idx'.v) \in {Len(idx.v), Len(idx.v) + 1} /\ DOMAIN idx'.v = 1..Len(idx'.v)
        /\ \A i \in 1..Len(idx.v) : /\ idx'.v[i].nal = idx.v[i].nal
                                    /\ idx'.v[i].frame = idx.v[i].frame
        /\ Len(idx'.v) = Len(idx.v) + 1 => idx'.v[Len(idx.v) + 1] = SeekPointAt(unit)
    BY <2>1, <2>2, PictureAdds
  <2>4. pass = "poc" \/ SetsKnown => pos \in Decoded /\ frames = DecodeIndex(pos)
    BY <2>3 DEF CountInv, Knows
  <2>5. pass = "poc" \/ SetsKnown => frames' = DecodeIndex(pos')
    BY <1>0, <2>1, <2>4, IndexStep
  <2>6. CountInv'
    BY <1>1, <2>1, <2>3, <2>5 DEF CountInv, Done
  <2>7. ASSUME pass = "poc" \/ SetsKnown, NEW i \in DOMAIN idx'.v
        PROVE  \E p \in 1..pos' - 1 : PointOf(idx'.v[i], p)
    <3>1. CASE i \in 1..Len(idx.v)
      <4>1. PICK p \in 1..pos - 1 : PointOf(idx.v[i], p)
        BY <2>3, <2>7, <3>1 DEF PointsInv
      <4>2. p \in 1..pos' - 1
        BY <1>0, <2>1
      <4>3. PointOf(idx'.v[i], p)
        BY <2>3, <3>1, <4>1 DEF PointOf
      <4> QED BY <4>2, <4>3
    <3>2. CASE i = Len(idx.v) + 1 /\ Len(idx'.v) = Len(idx.v) + 1
      <4>1. idx'.v[i].nal = unit /\ idx'.v[i].frame = frames
        BY <2>3, <3>2 DEF SeekPointAt
      <4>2. PointOf(idx'.v[i], pos) /\ pos \in 1..pos' - 1
        BY <1>0, <2>1, <2>2, <2>4, <2>7, <4>1 DEF PointOf
      <4> QED BY <4>2
    <3> QED BY <2>3, <3>1, <3>2
  <2>8. PointsInv'
    BY <1>1, <2>1, <2>7 DEF PointsInv
  <2> QED BY <2>6, <2>8
<1>7. CASE Fallback
  <2>1. /\ pos' = 1 /\ frames' = 0 /\ pass' = "idr" /\ file' = file
        /\ idx' = [idx EXCEPT !.v = <<>>]
    BY <1>7 DEF Fallback, FreshLocals, DroppedSeekPoints
  <2>2. DecodeIndex(1) = 0
    BY <1>0, IndexEnds
  <2>3. idx'.v = <<>>
    BY <2>1, ClearedList DEF TypeInv, ListsInv
  <2> QED BY <1>1, <2>1, <2>2, <2>3 DEF CountInv, PointsInv, Done
<1>8. CASE Finish
  <2>1. /\ UNCHANGED <<file, pos, frames>> /\ num_pics' = frames /\ pass' = "done"
        /\ idx' = IF pass = "poc" THEN flush_cvs ELSE idx
    BY <1>8 DEF Finish, locals
  <2>2. CountInv'
    BY <1>1, <2>1 DEF CountInv, Done
  <2>3. DOMAIN idx'.v = DOMAIN idx.v
        /\ \A i \in DOMAIN idx.v : idx'.v[i].nal = idx.v[i].nal /\ idx'.v[i].frame = idx.v[i].frame
    BY <2>1, FlushPlaces
  <2>4. \A i \in DOMAIN idx.v : \A p : PointOf(idx.v[i], p) => PointOf(idx'.v[i], p)
    BY <2>3 DEF PointOf
  <2>5. PointsInv'
    BY <1>1, <2>1, <2>3, <2>4 DEF PointsInv
  <2> QED BY <2>2, <2>5
<1>9. CASE Rests
  <2>1. UNCHANGED <<file, pos, frames, idx, num_pics>> /\ pass' \in {pass, "failed"}
    BY <1>9 DEF Rests
  <2> QED BY <1>1, <2>1 DEF CountInv, PointsInv, Done
<1> QED BY <1>2, <1>6, <1>7, <1>8, <1>9 DEF ScanStep

LEMMA CountKept == Spec => [](CountInv /\ PointsInv)
<1>1. Init => CountInv /\ PointsInv
  <2> SUFFICES ASSUME Init PROVE CountInv /\ PointsInv
    OBVIOUS
  <2>1. WellFormed(file) /\ pos = 1 /\ frames = 0 /\ idx = EmptyList /\ pass = "poc"
    BY FilesAssumption DEF Init
  <2>2. DecodeIndex(1) = 0
    BY <2>1, IndexEnds
  <2> QED BY <2>1, <2>2 DEF CountInv, PointsInv, Done, EmptyList
<1>2. TypeInv /\ ParserInv /\ UnitInv /\ CountInv /\ PointsInv /\ [Next]_vars =>
          CountInv' /\ PointsInv'
  BY StepIs, ParserKnows, CountStep
<1> QED BY <1>1, <1>2, TypesKept, ParserKept, UnitKept, PTL DEF Spec

LEMMA FileStays == [Next]_vars => file' = file
  BY DEF Next, vars, locals, ScanParamSet, ScanOtherLeading, ScanSlice, ScanPicture, ScanIdr,
         ScanPictureIdrOnly, CountPicture, CountOn, Fallback, Finish, Over

LEMMA SetsKeptKnown == Spec /\ SetsKnown => []SetsKnown
<1>1. SetsKnown /\ [Next]_vars => SetsKnown'
  BY FileStays, SetsStayKnown
<1> QED BY <1>1, PTL DEF Spec

LEMMA CountIs ==
  ASSUME TypeInv, EndInv, CountInv, SetsKnown
  PROVE  CountTrue
<1>1. ASSUME Done PROVE num_pics = Cardinality(Decoded)
  <2>1. pos = Len(file) + 1 /\ WellFormed(file)
    BY <1>1, FileType DEF EndInv, AtEnd, TypeInv, ListsInv, ScalarsInv
  <2>2. num_pics = DecodeIndex(pos)
    BY <1>1 DEF CountInv
  <2> QED BY <2>1, <2>2, IndexEnds
<1> QED BY <1>1 DEF CountTrue

\* "Blind output count == scan count" (mvcsource.c:761): the clip is as long as
\* the stream, whichever pass counted, if the sets of every counted slice are
\* known.
THEOREM CountCorrect == Spec /\ SetsKnown => []CountTrue
  BY TypesKept, ListedKept, CountKept, SetsKeptKnown, CountIs, PTL

\* A first pass that runs to its end counts right without that, whatever the file.
THEOREM FirstPassCounts ==
  Spec => [][Finish /\ pass = "poc" => num_pics' = Cardinality(Decoded)]_vars
<1>1. TypeInv /\ CountInv =>
         [Finish /\ pass = "poc" => num_pics' = Cardinality(Decoded)]_vars
  <2> SUFFICES ASSUME TypeInv, CountInv, Finish, pass = "poc"
               PROVE  num_pics' = Cardinality(Decoded)
    OBVIOUS
  <2>1. num_pics' = frames /\ AtEnd
    BY DEF Finish
  <2>2. pos = Len(file) + 1 /\ WellFormed(file)
    BY <2>1, FileType DEF AtEnd, TypeInv, ListsInv, ScalarsInv
  <2> QED BY <2>1, <2>2, IndexEnds DEF CountInv
<1> QED BY <1>1, TypesKept, CountKept, PTL

LEMMA PointsAtBoundary ==
  ASSUME PointsInv, SetsKnown
  PROVE  SeekAtBoundary
<1> SUFFICES ASSUME NEW sp \in SeekPoints
             PROVE  \E p \in Decoded : sp.frame = DecodeIndex(p) /\ sp.nal = Min(AccessUnitOf(p))
  BY DEF SeekAtBoundary
<1>1. PICK i \in DOMAIN idx.v : sp = idx.v[i]
  BY DEF SeekPoints, Range
<1> QED BY <1>1 DEF PointsInv, PointOf

\* Every seek point stands where the access unit of the picture it is for
\* begins: its leading NALs are fed again, and nothing of the unit before.
THEOREM BoundaryCorrect == Spec /\ SetsKnown => []SeekAtBoundary
  BY CountKept, SetsKeptKnown, PointsAtBoundary, PTL

-----------------------------------------------------------------------------
(* Display order *)

LEMMA SamePicture ==
  ASSUME WellFormed(file), NEW p \in Decoded, NEW q \in Decoded
  PROVE  /\ p < q <=> DecodeIndex(p) < DecodeIndex(q)
         /\ DecodeIndex(p) = DecodeIndex(q) => p = q
<1>1. p \in Nat /\ q \in Nat
  BY DecodedFinite, FileType
<1>2. DecodeIndex(p) \in Nat /\ DecodeIndex(q) \in Nat
  BY <1>1, IndexStep
<1>3. p < q => DecodeIndex(p) < DecodeIndex(q)
  BY <1>1, IndexGrows
<1>4. q < p => DecodeIndex(q) < DecodeIndex(p)
  BY <1>1, IndexGrows
<1> QED BY <1>1, <1>2, <1>3, <1>4

\* A sequence counts the resets up to a picture.
LEMMA SequenceGrows ==
  ASSUME WellFormed(file), NEW p \in Decoded, NEW q \in Decoded, q <= p
  PROVE  /\ Sequence(q) \in Nat /\ Sequence(p) \in Nat /\ Sequence(q) <= Sequence(p)
         /\ \A r \in Decoded : q < r /\ r <= p /\ Resets(r) => Sequence(q) < Sequence(p)
         /\ (\A r \in Decoded : q < r /\ r <= p => ~Resets(r)) => Sequence(q) = Sequence(p)
<1> DEFINE S(n) == {r \in Decoded : r <= n /\ Resets(r)}
<1>0. \A r \in Decoded : r \in Nat
  BY DecodedFinite, FileType
<1>1. /\ IsFiniteSet(S(p)) /\ Cardinality(S(p)) \in Nat /\ Cardinality(S(q)) \in Nat
  BY DecodedFinite
<1>2. S(q) \in SUBSET S(p)
  BY <1>0
<1>3. Cardinality(S(q)) <= Cardinality(S(p)) /\ (Cardinality(S(q)) = Cardinality(S(p)) => S(q) = S(p))
  <2> HIDE DEF S
  <2> QED BY <1>1, <1>2, FS_Subset
<1>4. ASSUME NEW r \in Decoded, q < r, r <= p, Resets(r) PROVE Sequence(q) < Sequence(p)
  <2>1. r \in S(p) /\ r \notin S(q)
    BY <1>0, <1>4
  <2> HIDE DEF S
  <2>2. Cardinality(S(q)) < Cardinality(S(p))
    BY <1>1, <1>3, <2>1
  <2> QED BY <2>2 DEF S, Sequence
<1>5. ASSUME \A r \in Decoded : q < r /\ r <= p => ~Resets(r) PROVE Sequence(q) = Sequence(p)
  <2>1. S(p) = S(q)
    BY <1>0, <1>5
  <2> QED BY <2>1 DEF Sequence
<1> QED BY <1>1, <1>3, <1>4, <1>5 DEF Sequence

LEMMA CountsAreInts ==
  ASSUME WellFormed(file), NEW p \in Decoded
  PROVE  file[p].poc \in Int /\ Sequence(p) \in Nat
<1>1. file[p].poc \in Int
  BY DEF WellFormed, Decoded, IsFirstSlice
<1>2. p \in Nat
  BY DecodedFinite, FileType
<1> QED BY <1>1, <1>2, SequenceGrows

\* What is shown earlier has a smaller display index.
LEMMA ShownIndex ==
  ASSUME WellFormed(file), NEW p \in Decoded, NEW q \in Decoded
  PROVE  /\ DisplayIndex(p) \in 0..Cardinality(Decoded) - 1
         /\ ShownBefore(q, p) => DisplayIndex(q) < DisplayIndex(p)
<1> DEFINE S(n) == {r \in Decoded : ShownBefore(r, n)}
<1>0. \A r \in Decoded : file[r].poc \in Int /\ Sequence(r) \in Nat
  BY CountsAreInts
<1>1. /\ IsFiniteSet(S(p)) /\ Cardinality(S(p)) \in Nat /\ Cardinality(S(q)) \in Nat
      /\ IsFiniteSet(Decoded) /\ Cardinality(Decoded) \in Nat
  BY DecodedFinite
<1>2. p \notin S(p) /\ q \notin S(q)
  BY <1>0 DEF ShownBefore
<1>3. S(p) \in SUBSET Decoded
  OBVIOUS
<1>4. Cardinality(S(p)) < Cardinality(Decoded)
  <2> HIDE DEF S
  <2>1. Cardinality(S(p)) <= Cardinality(Decoded) /\ Cardinality(S(p)) # Cardinality(Decoded)
    BY <1>1, <1>2, <1>3, FS_Subset
  <2> QED BY <1>1, <2>1
<1>5. ASSUME ShownBefore(q, p) PROVE DisplayIndex(q) < DisplayIndex(p)
  <2>1. \A r \in Decoded : ShownBefore(r, q) => ShownBefore(r, p)
    BY <1>0, <1>5 DEF ShownBefore
  <2>2. S(q) \in SUBSET S(p) /\ q \in S(p)
    BY <1>5, <2>1
  <2> HIDE DEF S
  <2>3. Cardinality(S(q)) <= Cardinality(S(p)) /\ Cardinality(S(q)) # Cardinality(S(p))
    BY <1>1, <1>2, <2>2, FS_Subset
  <2>4. Cardinality(S(q)) < Cardinality(S(p))
    BY <1>1, <2>3
  <2> QED BY <2>4 DEF S, DisplayIndex
<1> QED BY <1>1, <1>4, <1>5 DEF DisplayIndex

-----------------------------------------------------------------------------
(* Random access *)

ExactSei(q) == file[q].type = 6 /\ file[q].exact

\* p is the first VCL NAL from q on.
NextVcl(q, p) == q < p /\ IsVcl(file[p].type) /\ \A r \in q..p - 1 : ~IsVcl(file[r].type)

\* An exact recovery point SEI precedes a picture a decoder has the sets for:
\* without it the SEI is held against a later one (a hazard, mvcsource.c:681).
RecoveriesPaired ==
    \A q, p \in DOMAIN file : ExactSei(q) /\ NextVcl(q, p) => p \in Decoded

\* A pending recovery point is the coming picture's own.
RecoveryInv ==
    pass = "poc" /\ recovery_seen => \E q \in PictureAuStart..pos - 1 : ExactSei(q)

\* A seek point's picture is one a decoder can start from.
CanStart(sp, p) == sp.frame = DecodeIndex(p) => IsIdr(file[p]) \/ IsRecoveryPoint(p)
StartsInv ==
    pass = "poc" \/ SetsKnown => \A i \in DOMAIN idx.v : \A p \in Decoded : CanStart(idx.v[i], p)

LEMMA PairedStays == file' = file => (RecoveriesPaired' <=> RecoveriesPaired)
<1> SUFFICES ASSUME file' = file PROVE RecoveriesPaired' <=> RecoveriesPaired
  OBVIOUS
<1>1. Decoded' = Decoded
  BY FileFixed
<1> QED BY <1>1 DEF RecoveriesPaired, ExactSei, NextVcl

LEMMA RecoveryStep ==
  ASSUME TypeInv, Knows, UnitInv, RecoveriesPaired, RecoveryInv, [Next]_vars
  PROVE  RecoveryInv'
<1>0. /\ Len(file) \in Nat /\ DOMAIN file = 1..Len(file) /\ pos \in Nat \ {0}
      /\ PictureAuStart \in 1..pos
  BY FileType DEF TypeInv, ListsInv, ScalarsInv, UnitInv, UnitBegins
<1>1. \A q : file' = file => (ExactSei(q)' <=> ExactSei(q))
  BY DEF ExactSei
<1>2. ASSUME LeadsAu, pos' = pos + 1, UNCHANGED <<file, pass>>,
             pass = "poc" /\ recovery_seen' => recovery_seen \/ ExactSei(pos)
      PROVE  RecoveryInv'
  <2>1. PictureAuStart' = PictureAuStart
    BY <1>2 DEF LeadsAu, PictureAuStart
  <2>2. PictureAuStart..pos' - 1 = (PictureAuStart..pos - 1) \cup {pos}
    BY <1>0, <1>2
  <2> QED BY <1>1, <1>2, <2>1, <2>2 DEF RecoveryInv
<1>3. CASE ScanParamSet
  BY <1>2, <1>3 DEF ScanParamSet
<1>4. CASE ScanOtherLeading
  BY <1>2, <1>4 DEF ScanOtherLeading, ExactSei, Nal
<1>5. CASE ScanSlice
  <2>1. /\ Scanning /\ ~Counted /\ IsVcl(file[pos].type)
        /\ UNCHANGED <<file, pass, recovery_seen>>
    BY <1>5 DEF ScanSlice, Nal
  <2> SUFFICES ASSUME pass = "poc", recovery_seen PROVE FALSE
    BY <2>1 DEF RecoveryInv
  <2>2. PICK q \in PictureAuStart..pos - 1 : ExactSei(q)
    BY DEF RecoveryInv
  <2>3. q \in DOMAIN file /\ pos \in DOMAIN file /\ q < pos
    BY <1>0, <2>1 DEF Scanning
  <2>4. NextVcl(q, pos)
    BY <1>0, <2>1, <2>3 DEF NextVcl, UnitInv, UnitBegins
  <2>5. pos \in Decoded
    BY <2>2, <2>3, <2>4 DEF RecoveriesPaired
  <2> QED BY <2>1, <2>5 DEF Knows
<1>6. CASE ScanPicture \/ ScanIdr \/ ScanPictureIdrOnly \/ Fallback
  <2>1. recovery_seen' = FALSE
    BY <1>6 DEF ScanPicture, ScanIdr, ScanPictureIdrOnly, CountPicture, CountOn, Fallback, FreshLocals
  <2> QED BY <2>1 DEF RecoveryInv
<1>7. CASE Finish
  BY <1>7 DEF Finish, RecoveryInv
<1>8. CASE Over \/ UNCHANGED vars
  <2>1. UNCHANGED <<file, pass, pos, recovery_seen, PictureAuStart>>
    BY <1>8 DEF Over, vars, locals, PictureAuStart
  <2> QED BY <1>1, <2>1 DEF RecoveryInv
<1> QED BY <1>3, <1>4, <1>5, <1>6, <1>7, <1>8 DEF Next

LEMMA StartsStep ==
  ASSUME TypeInv, Knows, CountInv, StartsInv, NEW unit, ScanStep(unit),
         Takes(unit) /\ pass = "poc" /\ recovery_seen => \E q \in unit..pos - 1 : ExactSei(q)
  PROVE  StartsInv'
<1>0. WellFormed(file) /\ pos \in Nat \ {0} /\ frames \in Nat
  BY FileType DEF TypeInv, ListsInv, ScalarsInv
<1>1. ASSUME file' = file
      PROVE  /\ SetsKnown' <=> SetsKnown
             /\ Decoded' = Decoded
             /\ \A sp, p : CanStart(sp, p)' <=> CanStart(sp, p)
  <2>1. \A p : IsRecoveryPoint(p)' <=> IsRecoveryPoint(p)
    BY <1>1, FileFixed DEF IsRecoveryPoint
  <2> QED BY <1>1, <2>1, FileFixed, SetsStayKnown DEF CanStart
<1>2. CASE Passes \/ Rests
  BY <1>1, <1>2 DEF Passes, Rests, StartsInv
<1>3. CASE Takes(unit)
  <2>1. /\ TakePicture(unit) \/ TakeIdr(unit) \/ TakeIdrOnly(unit)
        /\ UNCHANGED <<file, pass>>
    BY <1>3 DEF Takes, CountOn
  <2>2. unit \in 1..pos /\ AccessUnitOf(pos) = unit..pos
    BY <1>0, <1>3, UnitIs DEF Takes, UnitBegins
  <2>3. /\ Scanning /\ Counted /\ (pass = "poc" => Parsable(Nal))
        /\ Len(idx.v) \in Nat /\ DOMAIN idx.v = 1..Len(idx.v)
        /\ Len(idx'.v) \in {Len(idx.v), Len(idx.v) + 1} /\ DOMAIN idx'.v = 1..Len(idx'.v)
        /\ \A i \in 1..Len(idx.v) : idx'.v[i].frame = idx.v[i].frame
        /\ Len(idx'.v) = Len(idx.v) + 1 =>
              /\ idx'.v[Len(idx.v) + 1] = SeekPointAt(unit)
              /\ IsIdr(Nal) \/ (pass = "poc" /\ IsRandomAccess)
    BY <2>1, <2>2, PictureAdds
  <2>4. pass = "poc" \/ SetsKnown => pos \in Decoded /\ frames = DecodeIndex(pos)
    BY <2>3 DEF CountInv, Knows
  <2>5. pass = "poc" /\ IsRandomAccess => IsIdr(file[pos]) \/ IsRecoveryPoint(pos)
    <3>1. unit..pos - 1 \subseteq unit..pos
      BY <1>0, <2>2
    <3> QED BY <1>3, <2>2, <3>1 DEF IsRandomAccess, IsRecoveryPoint, ExactSei, Nal
  <2>6. ASSUME pass = "poc" \/ SetsKnown, NEW i \in DOMAIN idx'.v, NEW p \in Decoded
        PROVE  CanStart(idx'.v[i], p)
    <3>1. CASE i \in 1..Len(idx.v)
      BY <2>3, <2>6, <3>1 DEF StartsInv, CanStart
    <3>2. CASE i = Len(idx.v) + 1 /\ Len(idx'.v) = Len(idx.v) + 1
      <4>1. idx'.v[i].frame = frames /\ (IsIdr(Nal) \/ (pass = "poc" /\ IsRandomAccess))
        BY <2>3, <3>2 DEF SeekPointAt
      <4>2. idx'.v[i].frame = DecodeIndex(p) => p = pos
        BY <1>0, <2>4, <2>6, <4>1, SamePicture
      <4> QED BY <2>5, <4>1, <4>2 DEF CanStart, Nal
    <3> QED BY <2>3, <3>1, <3>2
  <2> QED BY <1>1, <2>1, <2>6 DEF StartsInv
<1>4. CASE Fallback
  <2>1. idx' = [idx EXCEPT !.v = <<>>]
    BY <1>4 DEF Fallback, DroppedSeekPoints
  <2>2. idx'.v = <<>>
    BY <2>1, ClearedList DEF TypeInv, ListsInv
  <2> QED BY <2>2 DEF StartsInv
<1>5. CASE Finish
  <2>1. /\ file' = file /\ pass' = "done" /\ idx' = IF pass = "poc" THEN flush_cvs ELSE idx
    BY <1>5 DEF Finish, locals
  <2>2. DOMAIN idx'.v = DOMAIN idx.v /\ \A i \in DOMAIN idx.v : idx'.v[i].frame = idx.v[i].frame
    BY <2>1, FlushPlaces
  <2>3. \A i \in DOMAIN idx.v : \A p : CanStart(idx.v[i], p) => CanStart(idx'.v[i], p)
    BY <2>2 DEF CanStart
  <2> QED BY <1>1, <2>1, <2>2, <2>3 DEF StartsInv
<1> QED BY <1>2, <1>3, <1>4, <1>5 DEF ScanStep

LEMMA AccessKept == Spec /\ RecoveriesPaired => [](RecoveryInv /\ StartsInv)
<1>1. Init => RecoveryInv /\ StartsInv
  BY DEF Init, EmptyList, RecoveryInv, StartsInv
<1>2. RecoveriesPaired /\ [Next]_vars => RecoveriesPaired'
  BY FileStays, PairedStays
<1>3. TypeInv /\ ParserInv /\ UnitInv /\ CountInv /\ RecoveriesPaired /\ RecoveryInv /\ StartsInv
          /\ [Next]_vars => RecoveryInv' /\ StartsInv'
  BY StepIs, ParserKnows, RecoveryStep, StartsStep DEF RecoveryInv
<1> QED BY <1>1, <1>2, <1>3, TypesKept, ParserKept, UnitKept, CountKept, PTL DEF Spec

-----------------------------------------------------------------------------
(* The stream handed to the frame server *)

\* "Everything before such a point in decode order also precedes it in display
\* order" (mvcsource.c:740): what the standard says of an exact recovery point.
RecoveriesExact ==
    \A p \in Decoded : IsRecoveryPoint(p) => \A q \in Decoded : q < p => ShownBefore(q, p)

\* No two pictures of a sequence have the same count.
CountsDiffer ==
    \A p, q \in Decoded : Sequence(p) = Sequence(q) /\ file[p].poc = file[q].poc => p = q

Encoded == SetsKnown /\ RecoveriesPaired /\ RecoveriesExact /\ CountsDiffer

LEMMA ExactStays ==
  ASSUME file' = file
  PROVE  (RecoveriesExact' <=> RecoveriesExact) /\ (CountsDiffer' <=> CountsDiffer)
<1>1. /\ Decoded' = Decoded
      /\ \A p : Sequence(p)' = Sequence(p)
      /\ \A p, q : ShownBefore(p, q)' <=> ShownBefore(p, q)
      /\ \A p : IsRecoveryPoint(p)' <=> IsRecoveryPoint(p)
  <2>1. Decoded' = Decoded
    BY FileFixed
  <2>2. \A p : Sequence(p)' = Sequence(p)
    BY <2>1 DEF Sequence, Resets
  <2>3. \A p, q : ShownBefore(p, q)' <=> ShownBefore(p, q)
    BY <2>2 DEF ShownBefore
  <2>4. \A p : IsRecoveryPoint(p)' <=> IsRecoveryPoint(p)
    BY FileFixed DEF IsRecoveryPoint
  <2> QED BY <2>1, <2>2, <2>3, <2>4
<1>2. RecoveriesExact' <=> RecoveriesExact
  BY <1>1 DEF RecoveriesExact
<1>3. CountsDiffer' <=> CountsDiffer
  BY <1>1 DEF CountsDiffer
<1> QED BY <1>2, <1>3

LEMMA EncodedStays == [Next]_vars /\ Encoded => Encoded'
  BY FileStays, ExactStays, SetsStayKnown, PairedStays DEF Encoded

\* Distinct pictures have distinct display indices.
LEMMA ShownApart ==
  ASSUME WellFormed(file), CountsDiffer, NEW p \in Decoded, NEW q \in Decoded,
         DisplayIndex(p) = DisplayIndex(q)
  PROVE  p = q
<1>1. ~ShownBefore(p, q) /\ ~ShownBefore(q, p)
  BY ShownIndex, DecodedFinite
<1>2. file[p].poc \in Int /\ file[q].poc \in Int /\ Sequence(p) \in Nat /\ Sequence(q) \in Nat
  BY CountsAreInts
<1> QED BY <1>1, <1>2 DEF ShownBefore, CountsDiffer

\* Everything decoded before a picture that a decoder can start from is shown
\* before it.
LEMMA StartsShown ==
  ASSUME WellFormed(file), RecoveriesExact, NEW p \in Decoded, NEW q \in Decoded, q < p,
         IsIdr(file[p]) \/ IsRecoveryPoint(p)
  PROVE  DisplayIndex(q) < DisplayIndex(p)
<1>1. ShownBefore(q, p)
  <2>1. CASE IsIdr(file[p])
    <3>1. p \in Nat /\ q \in Nat /\ Resets(p)
      BY <2>1, DecodedFinite, FileType DEF Resets
    <3>2. Sequence(q) < Sequence(p)
      BY <3>1, SequenceGrows
    <3> QED BY <3>2 DEF ShownBefore
  <2>2. CASE IsRecoveryPoint(p)
    BY <2>2 DEF RecoveriesExact
  <2> QED BY <2>1, <2>2
<1> QED BY <1>1, ShownIndex

LEMMA StreamConforms ==
  ASSUME TypeInv, EndInv, CountInv, PointsInv, StartsInv, SetsKnown, RecoveriesExact, CountsDiffer
  PROVE  HandsOverStream
<1> SUFFICES ASSUME Done PROVE Served!Conforming(StreamFound)
  BY DEF HandsOverStream
<1>1. /\ WellFormed(file) /\ num_pics = Cardinality(Decoded) /\ num_pics \in Nat
      /\ num_pics = frames
  <2>1. num_pics = Cardinality(Decoded)
    BY CountIs DEF CountTrue
  <2>2. WellFormed(file)
    BY DEF TypeInv, ListsInv
  <2> QED BY <2>1, <2>2, DecodedFinite DEF CountInv
<1> DEFINE pics == 0..num_pics - 1
           picture(k) == CHOOSE p \in Decoded : DecodeIndex(p) = k
           disp == [k \in pics |-> DisplayIndex(picture(k))]
           rap == {sp.frame : sp \in SeekPoints}
<1>2. \A k \in pics : picture(k) \in Decoded /\ DecodeIndex(picture(k)) = k
  <2> SUFFICES ASSUME NEW k \in pics PROVE \E p \in Decoded : DecodeIndex(p) = k
    OBVIOUS
  <2>1. Len(file) + 1 \in Nat \ {0} /\ k \in Nat /\ k < DecodeIndex(Len(file) + 1)
    BY <1>1, IndexEnds, FileType
  <2> QED BY <1>1, <2>1, IndexOnto
<1>3. /\ StreamFound.disp = disp /\ StreamFound.rap = rap /\ StreamFound.mono = {}
      /\ Served!Pics = pics
  BY DEF StreamFound, Served!Pics
<1>4. \A k \in pics : disp[k] = DisplayIndex(picture(k))
  OBVIOUS
<1> HIDE DEF picture
<1>5. disp \in [pics -> pics]
  BY <1>1, <1>2, ShownIndex
<1>6. \A j, k \in pics : disp[j] = disp[k] => j = k
  <2> SUFFICES ASSUME NEW j \in pics, NEW k \in pics, disp[j] = disp[k] PROVE j = k
    OBVIOUS
  <2>1. picture(j) = picture(k)
    BY <1>1, <1>2, <1>4, ShownApart
  <2> QED BY <1>2, <2>1
<1>7. rap \subseteq pics
  <2>1. \A i \in DOMAIN idx.v : idx.v[i].frame \in 0..frames - 1
    <3>1. idx \in Lists(SeekPointType(Len(file), frames))
      BY DEF TypeInv, ListsInv
    <3>2. \A i \in DOMAIN idx.v : idx.v[i] \in SeekPointType(Len(file), frames)
      BY <3>1, ListElements
    <3> QED BY <3>2 DEF SeekPointType
  <2> QED BY <1>1, <2>1 DEF SeekPoints, Range
<1>8. \A k \in rap : \A j \in pics : j < k => disp[j] < disp[k]
  <2> SUFFICES ASSUME NEW i \in DOMAIN idx.v, NEW j \in pics, j < idx.v[i].frame
               PROVE  disp[j] < disp[idx.v[i].frame]
    BY DEF SeekPoints, Range
  <2> DEFINE k == idx.v[i].frame
  <2>1. k \in pics
    BY <1>7 DEF SeekPoints, Range
  <2>2. picture(j) \in Decoded /\ picture(k) \in Decoded /\ picture(j) < picture(k)
    BY <1>1, <1>2, <2>1, SamePicture
  <2>3. IsIdr(file[picture(k)]) \/ IsRecoveryPoint(picture(k))
    BY <1>2, <2>1 DEF StartsInv, CanStart
  <2>4. DisplayIndex(picture(j)) < DisplayIndex(picture(k))
    BY <1>1, <2>2, <2>3, StartsShown
  <2> QED BY <1>4, <2>1, <2>4
<1> HIDE DEF pics, disp, rap
<1> QED BY <1>3, <1>5, <1>6, <1>7, <1>8 DEF Served!Conforming

\* What the scan hands over is a stream that the frame server's guarantees rest
\* on: a permutation of display indices, and a cold decode from any seek point has
\* every later one.
THEOREM StreamHandedOver == Spec /\ Encoded => []HandsOverStream
<1>1. Spec /\ Encoded => []Encoded
  BY EncodedStays, PTL DEF Spec
<1>2. Spec /\ Encoded => RecoveriesPaired
  BY DEF Encoded
<1>3. Spec /\ Encoded => [](RecoveryInv /\ StartsInv)
  BY <1>2, AccessKept
<1>4. TypeInv /\ EndInv /\ CountInv /\ PointsInv /\ StartsInv /\ Encoded => HandsOverStream
  BY StreamConforms DEF Encoded
<1> QED BY <1>1, <1>3, <1>4, TypesKept, ListedKept, CountKept, PTL

-----------------------------------------------------------------------------
(* The seek points of the second pass *)

\* An IDR has the least count of its sequence: nothing is displayed across it.
IdrsFirst ==
    \A p \in Decoded : IsIdr(file[p]) =>
        \A q \in Decoded : Sequence(q) = Sequence(p) => file[p].poc <= file[q].poc

\* At an IDR, decode order and display order agree.
LEMMA IdrIndex ==
  ASSUME WellFormed(file), IdrsFirst, NEW p \in Decoded, IsIdr(file[p])
  PROVE  DisplayIndex(p) = DecodeIndex(p)
<1>1. Resets(p) /\ p \in Nat /\ \A q \in Decoded : q \in Nat
  BY DecodedFinite, FileType DEF Resets
<1>2. \A q \in Decoded : ShownBefore(q, p) <=> q < p
  <2> SUFFICES ASSUME NEW q \in Decoded PROVE ShownBefore(q, p) <=> q < p
    OBVIOUS
  <2>1. /\ file[p].poc \in Int /\ file[q].poc \in Int
        /\ Sequence(p) \in Nat /\ Sequence(q) \in Nat
    BY CountsAreInts
  <2>2. CASE q < p
    <3>1. Sequence(q) < Sequence(p)
      BY <1>1, <2>2, SequenceGrows
    <3> QED BY <2>2, <3>1 DEF ShownBefore
  <2>3. CASE p <= q
    <3>1. Sequence(p) <= Sequence(q)
      BY <1>1, <2>3, SequenceGrows
    <3>2. Sequence(p) = Sequence(q) => file[p].poc <= file[q].poc
      BY DEF IdrsFirst
    <3> QED BY <1>1, <2>1, <2>3, <3>1, <3>2 DEF ShownBefore
  <2> QED BY <1>1, <2>2, <2>3
<1>3. {q \in Decoded : ShownBefore(q, p)} = {q \in Decoded : q < p}
  BY <1>2
<1> QED BY <1>3 DEF DisplayIndex, DecodeIndex

\* A seek point of the second pass: its picture is an IDR, and valid_from is the
\* number of pictures decoded before.
IdrPoint(sp) ==
    /\ sp.valid_from = sp.frame
    /\ \A p \in Decoded : sp.frame = DecodeIndex(p) => IsIdr(file[p])

FallbackInv == pass = "idr" /\ SetsKnown => \A i \in DOMAIN idx.v : IdrPoint(idx.v[i])

LEMMA FallbackStep ==
  ASSUME TypeInv, Knows, CountInv, FallbackInv, NEW unit, ScanStep(unit)
  PROVE  FallbackInv'
<1>0. WellFormed(file) /\ pos \in Nat \ {0} /\ frames \in Nat
  BY FileType DEF TypeInv, ListsInv, ScalarsInv
<1>1. ASSUME file' = file
      PROVE  (SetsKnown' <=> SetsKnown) /\ \A sp : IdrPoint(sp)' <=> IdrPoint(sp)
  BY <1>1, FileFixed, SetsStayKnown DEF IdrPoint
<1>2. CASE Passes \/ Rests
  BY <1>1, <1>2 DEF Passes, Rests, FallbackInv
<1>3. CASE Takes(unit) /\ pass # "idr"
  BY <1>3 DEF Takes, CountOn, FallbackInv
<1>4. CASE Takes(unit) /\ pass = "idr"
  <2>1. TakeIdrOnly(unit) /\ unit \in 1..pos /\ UNCHANGED <<file, pass>>
    BY <1>0, <1>4 DEF Takes, CountOn, TakePicture, TakeIdr, UnitBegins
  <2>2. /\ Scanning /\ Counted
        /\ Len(idx.v) \in Nat /\ DOMAIN idx.v = 1..Len(idx.v)
        /\ Len(idx'.v) \in {Len(idx.v), Len(idx.v) + 1} /\ DOMAIN idx'.v = 1..Len(idx'.v)
        /\ \A i \in 1..Len(idx.v) : idx'.v[i] = idx.v[i]
        /\ Len(idx'.v) = Len(idx.v) + 1 =>
               idx'.v[Len(idx.v) + 1] = SeekPointAt(unit) /\ IsIdr(Nal)
    BY <1>4, <2>1, PictureAdds
  <2>3. ASSUME SetsKnown, NEW i \in DOMAIN idx'.v PROVE IdrPoint(idx'.v[i])
    <3>1. CASE i \in 1..Len(idx.v)
      BY <1>4, <2>2, <2>3, <3>1 DEF FallbackInv
    <3>2. CASE i = Len(idx.v) + 1 /\ Len(idx'.v) = Len(idx.v) + 1
      <4>1. pos \in Decoded /\ frames = DecodeIndex(pos) /\ IsIdr(file[pos])
        BY <2>2, <2>3, <3>2 DEF CountInv, Knows, Nal
      <4>2. idx'.v[i].frame = frames /\ idx'.v[i].valid_from = frames
        BY <2>2, <3>2 DEF SeekPointAt
      <4>3. \A p \in Decoded : frames = DecodeIndex(p) => p = pos
        BY <1>0, <4>1, SamePicture
      <4> QED BY <4>1, <4>2, <4>3 DEF IdrPoint
    <3> QED BY <2>2, <2>3, <3>1, <3>2
  <2> QED BY <1>1, <2>1, <2>3 DEF FallbackInv
<1>5. CASE Fallback
  <2>1. idx' = [idx EXCEPT !.v = <<>>]
    BY <1>5 DEF Fallback, DroppedSeekPoints
  <2>2. idx'.v = <<>>
    BY <2>1, ClearedList DEF TypeInv, ListsInv
  <2> QED BY <2>2 DEF FallbackInv
<1>6. CASE Finish
  BY <1>6 DEF Finish, FallbackInv
<1> QED BY <1>2, <1>3, <1>4, <1>5, <1>6 DEF ScanStep

LEMMA FallbackKept == Spec => []FallbackInv
<1>1. Init => FallbackInv
  BY DEF Init, FallbackInv
<1>2. TypeInv /\ ParserInv /\ UnitInv /\ CountInv /\ FallbackInv /\ [Next]_vars => FallbackInv'
  BY StepIs, ParserKnows, FallbackStep
<1> QED BY <1>1, <1>2, TypesKept, ParserKept, UnitKept, CountKept, PTL DEF Spec

LEMMA IdrsStayFirst == file' = file => (IdrsFirst' <=> IdrsFirst)
<1> SUFFICES ASSUME file' = file PROVE IdrsFirst' <=> IdrsFirst
  OBVIOUS
<1>1. Decoded' = Decoded
  BY FileFixed
<1>2. \A p : Sequence(p)' = Sequence(p)
  BY <1>1 DEF Sequence, Resets
<1> QED BY <1>1, <1>2 DEF IdrsFirst

\* The picture a seek point is for, where it is displayed, and that a decoder can
\* start from it.
PointTrue(sp) ==
    \E p \in Decoded : /\ sp.frame = DecodeIndex(p)
                       /\ sp.valid_from = DisplayIndex(p)
                       /\ IsIdr(file[p]) \/ IsRecoveryPoint(p)

LEMMA FallbackPoints ==
  ASSUME TypeInv, PointsInv, FallbackInv, SetsKnown, IdrsFirst, pass = "idr",
         NEW sp \in SeekPoints
  PROVE  PointTrue(sp)
<1>0. WellFormed(file)
  BY DEF TypeInv, ListsInv
<1>1. PICK i \in DOMAIN idx.v : sp = idx.v[i]
  BY DEF SeekPoints, Range
<1>2. PICK p \in 1..pos - 1 : p \in Decoded /\ sp.frame = DecodeIndex(p)
  BY <1>1 DEF PointsInv, PointOf
<1>3. IdrPoint(sp)
  BY <1>1 DEF FallbackInv
<1>4. IsIdr(file[p]) /\ sp.valid_from = DisplayIndex(p)
  BY <1>0, <1>2, <1>3, IdrIndex DEF IdrPoint
<1> QED BY <1>2, <1>4 DEF PointTrue

\* A scan that had to fall back is "slower on a long GOP, never wrong"
\* (mvcsource.c:741): whatever defeated the first pass, field coding and resets of
\* the count included, each seek point is an IDR with its own display index.
THEOREM FallbackNeverWrong ==
  Spec /\ SetsKnown /\ IdrsFirst =>
      [][Finish /\ pass = "idr" => SeekPointsTrue']_vars
<1>1. ASSUME TypeInv, PointsInv, FallbackInv, SetsKnown, IdrsFirst, Finish, pass = "idr"
      PROVE  SeekPointsTrue'
  <2>1. UNCHANGED <<file, idx>>
    BY <1>1 DEF Finish, locals
  <2>2. \A sp \in SeekPoints : PointTrue(sp)
    BY <1>1, FallbackPoints
  <2>3. SeekPoints' = SeekPoints
    BY <2>1 DEF SeekPoints
  <2>4. \A sp : PointTrue(sp)' <=> PointTrue(sp)
    <3>1. Decoded' = Decoded
      BY <2>1, FileFixed
    <3>2. \A p : Sequence(p)' = Sequence(p)
      BY <2>1, <3>1 DEF Sequence, Resets
    <3>3. \A p, q : ShownBefore(p, q)' <=> ShownBefore(p, q)
      BY <2>1, <3>2 DEF ShownBefore
    <3>4. \A p : DisplayIndex(p)' = DisplayIndex(p)
      BY <3>1, <3>3 DEF DisplayIndex
    <3>5. \A p : IsRecoveryPoint(p)' <=> IsRecoveryPoint(p)
      BY <2>1, FileFixed DEF IsRecoveryPoint
    <3> QED BY <2>1, <3>1, <3>4, <3>5, FileFixed DEF PointTrue
  <2> QED BY <2>2, <2>3, <2>4 DEF SeekPointsTrue, PointTrue
<1>2. TypeInv /\ PointsInv /\ FallbackInv /\ SetsKnown /\ IdrsFirst =>
          [Finish /\ pass = "idr" => SeekPointsTrue']_vars
  BY <1>1
<1>3. Spec /\ SetsKnown /\ IdrsFirst => [](SetsKnown /\ IdrsFirst)
  <2>1. SetsKnown /\ IdrsFirst /\ [Next]_vars => (SetsKnown /\ IdrsFirst)'
    BY FileStays, SetsStayKnown, IdrsStayFirst
  <2> QED BY <2>1, PTL DEF Spec
<1> QED BY <1>2, <1>3, TypesKept, CountKept, FallbackKept, PTL

-----------------------------------------------------------------------------
(* The counts that the first pass derives *)

\* The slice header codes only the low bits of the count.  The high part that
\* h264_parse_picture chooses (h264poc.h 301-307) restores the count exactly if it
\* lies within half a cycle of the previous reference picture's: strictly below,
\* at most above.  The asymmetry is that of >= and > in the code.  A count is msb
\* + lsb, msb a multiple of the cycle max; k is the number of cycles between the
\* two.
THEOREM LsbRecovers ==
    ASSUME NEW half \in Nat \ {0},
           NEW msb \in Int, NEW k \in Int,
           NEW prev_lsb \in 0..2 * half - 1,
           NEW lsb \in 0..2 * half - 1,
           LET d == (msb + k * (2 * half) + lsb) - (msb + prev_lsb)
           IN  -half < d /\ d <= half
    PROVE  PocMsb(lsb, msb, prev_lsb, 2 * half) = msb + k * (2 * half)
<1> DEFINE max == 2 * half
           step == k * max
<1>1. max \in Nat /\ step \in Int /\ max \div 2 = half
  BY SMT
<1>2. -half < step + lsb - prev_lsb /\ step + lsb - prev_lsb <= half
  BY <1>1, SMT
<1>3. -2 * max < step /\ step < 2 * max
  <2> HIDE DEF step
  <2> QED
    BY <1>1, <1>2, SMT
<1>4. k \in {-1, 0, 1}
  <2>1. ASSUME k >= 2 PROVE FALSE
    <3>1. step >= 2 * max
      BY <2>1, <1>1, SMT
    <3> HIDE DEF step
    <3> QED
      BY <3>1, <1>1, <1>3, SMT
  <2>2. ASSUME k <= -2 PROVE FALSE
    <3>1. step <= -2 * max
      BY <2>2, <1>1, SMT
    <3> HIDE DEF step
    <3> QED
      BY <3>1, <1>1, <1>3, SMT
  <2> QED
    BY <2>1, <2>2, SMT
<1>5. CASE k = 0
  BY <1>1, <1>2, <1>5, SMT DEF PocMsb
<1>6. CASE k = 1
  BY <1>1, <1>2, <1>6, SMT DEF PocMsb
<1>7. CASE k = -1
  BY <1>1, <1>2, <1>7, SMT DEF PocMsb
<1> QED
  BY <1>4, <1>5, <1>6, <1>7

LEMMA CycleTold ==
    ASSUME NEW max \in Nat \ {0},
           NEW offset \in Int, NEW k \in Int,
           NEW prev \in 0..max - 1,
           NEW num \in 0..max - 1,
           LET d == (offset + k * max + num) - (offset + prev)
           IN  0 <= d /\ d < max
    PROVE  offset + (IF prev > num THEN max ELSE 0) = offset + k * max
<1> DEFINE step == k * max
<1>1. step \in Int
  OBVIOUS
<1>2. 0 <= step + num - prev /\ step + num - prev < max
  <2> HIDE DEF step
  <2> QED BY <1>1 DEF step
<1>3. -max < step /\ step < 2 * max
  <2> HIDE DEF step
  <2> QED BY <1>1, <1>2, SMT
<1>4. k \in {0, 1}
  <2>1. ASSUME k >= 2 PROVE FALSE
    <3>1. step >= 2 * max
      BY <2>1, SMT
    <3> HIDE DEF step
    <3> QED BY <1>1, <1>3, <3>1, SMT
  <2>2. ASSUME k <= -1 PROVE FALSE
    <3>1. step <= -max
      BY <2>2, SMT
    <3> HIDE DEF step
    <3> QED BY <1>1, <1>3, <3>1, SMT
  <2> QED BY <2>1, <2>2, SMT
<1>5. CASE k = 0
  BY <1>2, <1>5, SMT
<1>6. CASE k = 1
  BY <1>2, <1>6, SMT
<1> QED BY <1>4, <1>5, <1>6

CtxType == [prev_poc_msb : Int, prev_poc_lsb : Int, prev_frame_num : Int, frame_num_offset : Int]

\* The slice header codes the frame number modulo max; the code adds a cycle when
\* the coded number decreases (h264poc.h 313-315).  If a picture's number is less
\* than a cycle ahead of the last one's, FrameNumOffset restores it, PocType2
\* counts two for every number, one less for a picture no other refers to, and
\* the state it hands on tells the number to the picture after it.  k is the
\* number of cycles between the two.
THEOREM FrameNumRecovers ==
    ASSUME NEW ctx \in CtxType, NEW sps, NEW pic, ~IsIdr(pic),
           NEW max \in Nat \ {0}, sps.max_frame_num = max,
           ctx.prev_frame_num \in 0..max - 1, pic.frame_num \in 0..max - 1,
           NEW k \in Int, NEW n \in Int,
           n = ctx.frame_num_offset + k * max + pic.frame_num,
           n - (ctx.frame_num_offset + ctx.prev_frame_num) \in 0..max - 1
    PROVE  LET next == PocType2(ctx, sps, pic)
           IN  /\ FrameNumOffset(ctx, sps, pic) = n - pic.frame_num
               /\ next.poc = 2 * n - (IF pic.ref THEN 0 ELSE 1)
               /\ next.ctx.frame_num_offset + next.ctx.prev_frame_num = n
<1> DEFINE offset == ctx.frame_num_offset
           prev == ctx.prev_frame_num
           num == pic.frame_num
           step == k * max
           told == FrameNumOffset(ctx, sps, pic)
           less == IF pic.ref THEN 0 ELSE 1
<1>1. offset \in Int /\ step \in Int /\ prev \in Int /\ num \in Int
  BY DEF CtxType
<1>2. told = offset + (IF prev > num THEN max ELSE 0)
  BY DEF FrameNumOffset
<1>3. LET d == (offset + step + num) - (offset + prev) IN 0 <= d /\ d < max
  <2>1. n = offset + step + num /\ n - (offset + prev) \in 0..max - 1
    OBVIOUS
  <2> HIDE DEF offset, prev, num, step
  <2> QED BY <1>1, <2>1
<1>4. offset + (IF prev > num THEN max ELSE 0) = offset + step
  <2>1. prev \in 0..max - 1 /\ num \in 0..max - 1
    OBVIOUS
  <2> HIDE DEF offset, prev, num
  <2> QED BY <1>1, <1>3, <2>1, CycleTold DEF step
<1>5. told = n - num
  <2>1. n = offset + step + num
    OBVIOUS
  <2> HIDE DEF offset, prev, num, step, told
  <2> QED BY ONLY <1>1, <1>2, <1>4, <2>1
<1>6. /\ PocType2(ctx, sps, pic).poc = 2 * (told + num) - less
      /\ PocType2(ctx, sps, pic).ctx = [ctx EXCEPT !.frame_num_offset = told, !.prev_frame_num = num]
  BY DEF PocType2, Numbered
<1>7. /\ PocType2(ctx, sps, pic).ctx.frame_num_offset = told
      /\ PocType2(ctx, sps, pic).ctx.prev_frame_num = num
  <2> HIDE DEF told, num
  <2> QED BY <1>6 DEF CtxType
<1> HIDE DEF told, less
<1>8. told + num = n
  <2> HIDE DEF num
  <2> QED BY <1>1, <1>5
<1> QED BY <1>5, <1>6, <1>7, <1>8 DEF told, less

\* The last picture of S before n.
LastIn(S, r, n) == r \in S /\ r < n /\ \A q \in S : q < n => q <= r

\* The count that the derivation takes for zero: 0 once an IDR has come; a stream
\* cut in mid-GOP starts from another.
Zero(p, origin) == IF \E q \in Decoded : q <= p /\ IsIdr(file[q]) THEN 0 ELSE origin

LEMMA LastStep ==
  ASSUME WellFormed(file), NEW S \in SUBSET Decoded, NEW n \in Nat
  PROVE  /\ n \in S => \A r \in S : LastIn(S, r, n + 1) <=> r = n
         /\ n \notin S => \A r \in S : LastIn(S, r, n + 1) <=> LastIn(S, r, n)
<1>1. \A q \in S : q \in Nat
  BY DecodedFinite, FileType
<1>2. \A q \in S : q < n + 1 <=> q < n \/ q = n
  BY <1>1
<1> QED BY <1>1, <1>2 DEF LastIn

LEMMA ZeroStays ==
  ASSUME WellFormed(file), NEW origin, NEW S \in SUBSET Decoded,
         \A q \in Decoded : IsIdr(file[q]) => q \in S,
         NEW p \in Decoded, ~IsIdr(file[p])
  PROVE  /\ \A r \in S : LastIn(S, r, p) => Zero(r, origin) = Zero(p, origin)
         /\ (\A r \in S : ~LastIn(S, r, p)) => Zero(p, origin) = origin
<1>1. p \in Nat /\ \A q \in Decoded : q \in Nat
  BY DecodedFinite, FileType
<1>2. \A q \in Decoded : IsIdr(file[q]) /\ q <= p => q \in S /\ q < p
  BY <1>1
<1>3. ASSUME NEW r \in S, LastIn(S, r, p) PROVE Zero(r, origin) = Zero(p, origin)
  <2>1. \A q \in Decoded : IsIdr(file[q]) => (q <= p <=> q <= r)
    BY <1>1, <1>2, <1>3 DEF LastIn
  <2> QED BY <2>1 DEF Zero
<1>4. ASSUME \A r \in S : ~LastIn(S, r, p), NEW q \in Decoded, q <= p, IsIdr(file[q])
      PROVE  FALSE
  <2> DEFINE T == {r \in S : r < p}
  <2>1. T \in SUBSET (0..p) /\ T # {}
    <3>1. q \in T
      BY <1>2, <1>4
    <3>2. \A r \in T : r \in 0..p
      BY <1>1
    <3> QED BY <3>1, <3>2
  <2>2. Max(T) \in T /\ \A y \in T : Max(T) >= y
    <3> HIDE DEF T
    <3> QED BY <1>1, <2>1, MaxExists
  <2>3. PICK m \in T : \A y \in T : m >= y
    BY <2>2
  <2>4. m \in S /\ m < p /\ \A y \in S : y < p => y <= m
    BY <1>1, <2>3
  <2> QED BY <1>4, <2>4 DEF LastIn
<1>5. (\A r \in S : ~LastIn(S, r, p)) => Zero(p, origin) = origin
  BY <1>4 DEF Zero
<1> QED BY <1>3, <1>5

(* Type 0: the high part of the count is recovered from the low one. *)

High(p) == file[p].poc - file[p].poc_lsb
Refs == {p \in Decoded : file[p].ref}

\* A count within half a cycle of another, strictly below, at most above.
NearTo(p, count, high) ==
    \E half \in Nat \ {0}, k \in Int :
        /\ SpsAt(p).max_poc_lsb = 2 * half
        /\ High(p) = high + k * (2 * half)
        /\ -half < file[p].poc - count /\ file[p].poc - count <= half

\* What the standard asks of the count of a picture of type 0, and that no
\* picture resets it.
Coded0(p, origin) ==
    /\ SpsAt(p).poc_type = 0 /\ ~file[p].mmco5
    /\ file[p].poc_lsb \in 0..SpsAt(p).max_poc_lsb - 1
    /\ IsIdr(file[p]) => file[p].ref /\ file[p].poc = 0 /\ file[p].poc_lsb = 0
    /\ ~IsIdr(file[p]) =>
          /\ \A r \in Refs : LastIn(Refs, r, p) =>
                 SpsAt(r) = SpsAt(p) /\ NearTo(p, file[r].poc, High(r))
          /\ (\A r \in Refs : ~LastIn(Refs, r, p)) => NearTo(p, origin, origin)

AllCoded0(origin) == \A p \in Decoded : Coded0(p, origin)

\* The state before the NAL at n is that of the last reference picture.
Tells0(ctx, n, origin) ==
    /\ \A r \in Refs : LastIn(Refs, r, n) =>
           /\ ctx.prev_poc_lsb = file[r].poc_lsb
           /\ ctx.prev_poc_msb = High(r) - Zero(r, origin)
    /\ (\A r \in Refs : ~LastIn(Refs, r, n)) => ctx.prev_poc_lsb = 0 /\ ctx.prev_poc_msb = 0

\* The state of h264_parse_picture.
LEMMA Derives0 ==
  ASSUME WellFormed(file), NEW origin \in Int, AllCoded0(origin), NEW p \in Decoded,
         NEW ctx \in CtxType, Tells0(ctx, p, origin)
  PROVE  LET d == DerivePoc(ctx, SpsAt(p), file[p])
         IN  /\ d.poc = file[p].poc - Zero(p, origin)
             /\ d.ctx \in CtxType
             /\ Tells0(d.ctx, p + 1, origin)
<1>1. /\ p \in Nat /\ Coded0(p, origin) /\ file[p].poc \in Int /\ Refs \in SUBSET Decoded
      /\ \A q \in Decoded : IsIdr(file[q]) => q \in Refs
  BY DecodedFinite, FileType, CountsAreInts DEF AllCoded0, Coded0, Refs
<1> DEFINE sps == SpsAt(p)
           lsb == file[p].poc_lsb
           zero == Zero(p, origin)
           c == IF IsIdr(file[p]) THEN [ctx EXCEPT !.prev_poc_msb = 0, !.prev_poc_lsb = 0] ELSE ctx
           msb == PocMsb(lsb, c.prev_poc_msb, c.prev_poc_lsb, sps.max_poc_lsb)
           d == DerivePoc(ctx, sps, file[p])
<1>2. /\ d.poc = msb + lsb
      /\ d.ctx = IF file[p].ref THEN [c EXCEPT !.prev_poc_msb = msb, !.prev_poc_lsb = lsb] ELSE c
  BY <1>1 DEF Coded0, DerivePoc, PocType0
<1>3. lsb \in Nat /\ High(p) \in Int /\ zero \in Int
  <2>1. lsb \in Nat
    BY <1>1 DEF Coded0
  <2> QED BY <1>1, <2>1 DEF High, Zero
<1>4. msb = High(p) - zero
  <2>1. CASE IsIdr(file[p])
    <3>1. lsb = 0 /\ High(p) = 0 /\ zero = 0
      BY <1>1, <2>1 DEF Coded0, High, Zero
    <3>2. c.prev_poc_msb = 0 /\ c.prev_poc_lsb = 0
      BY <2>1 DEF CtxType
    <3> QED BY <3>1, <3>2 DEF PocMsb
  <2>2. ASSUME ~IsIdr(file[p]), NEW r \in Refs, LastIn(Refs, r, p)
        PROVE  msb = High(p) - zero
    <3>1. PICK half \in Nat \ {0}, k \in Int :
             /\ sps.max_poc_lsb = 2 * half
             /\ High(p) = High(r) + k * (2 * half)
             /\ -half < file[p].poc - file[r].poc /\ file[p].poc - file[r].poc <= half
      BY <1>1, <2>2 DEF Coded0, NearTo
    <3>2. /\ r \in Decoded /\ file[r].poc \in Int /\ file[r].poc_lsb \in 0..2 * half - 1
          /\ lsb \in 0..2 * half - 1
      BY <1>1, <2>2, <3>1, CountsAreInts DEF Coded0, AllCoded0, Refs
    <3>3. High(r) \in Int /\ file[r].poc = High(r) + file[r].poc_lsb /\ file[p].poc = High(p) + lsb
      BY <1>1, <1>3, <3>2 DEF High
    <3>4. /\ c.prev_poc_lsb = file[r].poc_lsb
          /\ c.prev_poc_msb = High(r) - zero
      BY <1>1, <2>2, ZeroStays DEF Tells0
    <3> DEFINE prev == High(r) - zero
               step == k * (2 * half)
    <3>5. prev \in Int /\ step \in Int
      BY <1>3, <3>3
    <3>6. -half < (prev + step + lsb) - (prev + file[r].poc_lsb)
          /\ (prev + step + lsb) - (prev + file[r].poc_lsb) <= half
      <4>1. file[p].poc - file[r].poc = step + lsb - file[r].poc_lsb
        BY <1>1, <1>3, <3>1, <3>2, <3>3, <3>5
      <4> HIDE DEF prev, step
      <4> QED BY <1>1, <3>1, <3>2, <3>5, <4>1
    <3>7. PocMsb(lsb, prev, file[r].poc_lsb, 2 * half) = prev + step
      <4> HIDE DEF prev
      <4> QED BY <3>2, <3>5, <3>6, LsbRecovers DEF step
    <3>8. prev + step = High(p) - zero
      <4> HIDE DEF step
      <4> QED BY <1>3, <3>1, <3>3, <3>5 DEF step
    <3> QED BY <3>1, <3>4, <3>7, <3>8
  <2>3. ASSUME ~IsIdr(file[p]), \A r \in Refs : ~LastIn(Refs, r, p)
        PROVE  msb = High(p) - zero
    <3>1. PICK half \in Nat \ {0}, k \in Int :
             /\ sps.max_poc_lsb = 2 * half
             /\ High(p) = origin + k * (2 * half)
             /\ -half < file[p].poc - origin /\ file[p].poc - origin <= half
      BY <1>1, <2>3 DEF Coded0, NearTo
    <3>2. /\ c.prev_poc_lsb = 0 /\ c.prev_poc_msb = 0 /\ zero = origin
      BY <1>1, <2>3, ZeroStays DEF Tells0
    <3>3. lsb \in 0..2 * half - 1 /\ 0 \in 0..2 * half - 1 /\ file[p].poc = High(p) + lsb
      BY <1>1, <1>3, <3>1 DEF Coded0, High
    <3> DEFINE step == k * (2 * half)
    <3>4. step \in Int
      OBVIOUS
    <3> DEFINE none == 0
    <3>5. /\ none \in Int /\ none \in 0..2 * half - 1 /\ none = 0
          /\ -half < (none + step + lsb) - (none + none)
          /\ (none + step + lsb) - (none + none) <= half
      <4>1. file[p].poc - origin = step + lsb
        BY <1>1, <1>3, <3>1, <3>3, <3>4
      <4> HIDE DEF step
      <4> QED BY <1>3, <3>1, <3>3, <3>4, <4>1
    <3> HIDE DEF none
    <3>6. PocMsb(lsb, none, none, 2 * half) = none + step
      BY <3>3, <3>5, LsbRecovers, ZenonT(30) DEF step
    <3>7. none + step = High(p) - zero
      <4> HIDE DEF step
      <4> QED BY <1>3, <3>1, <3>2, <3>4, <3>5 DEF step
    <3> QED BY <3>1, <3>2, <3>5, <3>6, <3>7
  <2> QED BY <2>1, <2>2, <2>3
<1>5. d.poc = file[p].poc - zero
  <2>1. file[p].poc = High(p) + lsb
    BY <1>1, <1>3 DEF High
  <2> HIDE DEF msb, lsb, zero, d
  <2> QED BY <1>1, <1>2, <1>3, <1>4, <2>1
<1>6. d.ctx \in CtxType
  <2> DEFINE upd(x, a, b) == [x EXCEPT !.prev_poc_msb = a, !.prev_poc_lsb = b]
  <2>1. \A x \in CtxType : \A a, b \in Int : upd(x, a, b) \in CtxType
    BY DEF CtxType
  <2>2. c = IF IsIdr(file[p]) THEN upd(ctx, 0, 0) ELSE ctx
    OBVIOUS
  <2>3. d.ctx = IF file[p].ref THEN upd(c, msb, lsb) ELSE c
    BY <1>2
  <2>4. msb \in Int
    <3> HIDE DEF msb
    <3> QED BY <1>3, <1>4
  <2> HIDE DEF upd, c, msb, d
  <2> QED BY <1>3, <2>1, <2>2, <2>3, <2>4
<1>7. Tells0(d.ctx, p + 1, origin)
  <2>1. CASE file[p].ref
    <3>1. p \in Refs /\ \A r \in Refs : LastIn(Refs, r, p + 1) <=> r = p
      BY <1>1, <2>1, LastStep DEF Refs
    <3>2. d.ctx.prev_poc_lsb = lsb /\ d.ctx.prev_poc_msb = msb
      BY <1>2, <2>1 DEF CtxType
    <3> QED BY <1>4, <3>1, <3>2 DEF Tells0
  <2>2. CASE ~file[p].ref
    <3>1. p \notin Refs /\ \A r \in Refs : LastIn(Refs, r, p + 1) <=> LastIn(Refs, r, p)
      BY <1>1, <2>2, LastStep DEF Refs
    <3>2. d.ctx = ctx
      BY <1>1, <1>2, <2>2 DEF Coded0
    <3> QED BY <3>1, <3>2 DEF Tells0
  <2> QED BY <2>1, <2>2
<1> QED BY <1>5, <1>6, <1>7

(* Type 2: the frame number is recovered from its remainder. *)

\* The frame number of a picture: a reference picture has twice it as count, any
\* other one less.
FrameOf(p) == (file[p].poc + 1) \div 2

\* The frame number before the wrapped part.
FrameHigh(p) == FrameOf(p) - file[p].frame_num

\* What the standard asks of the count of a picture of type 2, and that no
\* picture resets it.
Coded2(p, origin) ==
    /\ SpsAt(p).poc_type = 2 /\ ~file[p].mmco5
    /\ SpsAt(p).max_frame_num \in Nat \ {0}
    /\ file[p].frame_num \in 0..SpsAt(p).max_frame_num - 1
    /\ file[p].poc = 2 * FrameOf(p) - (IF file[p].ref THEN 0 ELSE 1)
    /\ IsIdr(file[p]) => file[p].ref /\ file[p].poc = 0 /\ file[p].frame_num = 0
    /\ ~IsIdr(file[p]) =>
          /\ \A r \in Decoded : LastIn(Decoded, r, p) =>
                 /\ SpsAt(r) = SpsAt(p)
                 /\ \E k \in Int : FrameHigh(p) = FrameHigh(r) + k * SpsAt(p).max_frame_num
                 /\ FrameOf(p) - FrameOf(r) \in 0..SpsAt(p).max_frame_num - 1
          /\ (\A r \in Decoded : ~LastIn(Decoded, r, p)) => origin = 2 * FrameHigh(p)

AllCoded2(origin) == \A p \in Decoded : Coded2(p, origin)

\* The state before the NAL at n is that of the last picture.
Tells2(ctx, n, origin) ==
    /\ \A r \in Decoded : LastIn(Decoded, r, n) =>
           /\ ctx.prev_frame_num = file[r].frame_num
           /\ 2 * ctx.frame_num_offset = 2 * FrameHigh(r) - Zero(r, origin)
    /\ (\A r \in Decoded : ~LastIn(Decoded, r, n)) =>
           ctx.prev_frame_num = 0 /\ ctx.frame_num_offset = 0

LEMMA Derives2 ==
  ASSUME WellFormed(file), NEW origin \in Int, AllCoded2(origin), NEW p \in Decoded,
         NEW ctx \in CtxType, Tells2(ctx, p, origin)
  PROVE  LET d == DerivePoc(ctx, SpsAt(p), file[p])
         IN  /\ d.poc = file[p].poc - Zero(p, origin)
             /\ d.ctx \in CtxType
             /\ Tells2(d.ctx, p + 1, origin)
<1>1. /\ p \in Nat /\ Coded2(p, origin) /\ file[p].poc \in Int /\ Decoded \in SUBSET Decoded
      /\ \A q \in Decoded : IsIdr(file[q]) => q \in Decoded
  BY DecodedFinite, FileType, CountsAreInts DEF AllCoded2
<1> DEFINE sps == SpsAt(p)
           num == file[p].frame_num
           zero == Zero(p, origin)
           offset == FrameNumOffset(ctx, sps, file[p])
           d == DerivePoc(ctx, sps, file[p])
<1>2. /\ d.poc = 2 * (offset + num) - (IF file[p].ref THEN 0 ELSE 1)
      /\ d.ctx = [ctx EXCEPT !.frame_num_offset = offset, !.prev_frame_num = num]
  BY <1>1 DEF Coded2, DerivePoc, PocType2, Numbered
<1>3. num \in Nat /\ FrameOf(p) \in Int /\ FrameHigh(p) \in Int /\ zero \in Int
  <2>1. num \in Nat /\ FrameOf(p) \in Int
    BY <1>1 DEF Coded2, FrameOf
  <2> QED BY <2>1 DEF FrameHigh, Zero
<1>4. offset \in Int /\ 2 * offset = 2 * FrameHigh(p) - zero
  <2>1. CASE IsIdr(file[p])
    <3>1. num = 0 /\ file[p].poc = 0 /\ file[p].poc = 2 * FrameOf(p) - 0 /\ zero = 0
      BY <1>1, <2>1 DEF Coded2, Zero
    <3>2. FrameHigh(p) = 0
      <4> HIDE DEF num
      <4> QED BY <1>3, <3>1 DEF FrameHigh, num
    <3>3. offset = 0
      BY <2>1 DEF FrameNumOffset
    <3> HIDE DEF offset, zero
    <3> QED BY <3>1, <3>2, <3>3
  <2>2. ASSUME ~IsIdr(file[p]), NEW r \in Decoded, LastIn(Decoded, r, p)
        PROVE  offset \in Int /\ 2 * offset = 2 * FrameHigh(p) - zero
    <3> DEFINE max == sps.max_frame_num
               prev == file[r].frame_num
    <3>1. PICK k \in Int : FrameHigh(p) = FrameHigh(r) + k * max
      BY <1>1, <2>2 DEF Coded2
    <3>2. /\ max \in Nat \ {0} /\ num \in 0..max - 1
          /\ FrameOf(p) - FrameOf(r) \in 0..max - 1
      BY <1>1, <2>2 DEF Coded2
    <3>3. prev \in 0..max - 1 /\ FrameOf(r) \in Int
      <4>1. Coded2(r, origin) /\ file[r].poc \in Int /\ SpsAt(r) = sps
        BY <1>1, <2>2, CountsAreInts DEF Coded2, AllCoded2
      <4> QED BY <4>1 DEF Coded2, FrameOf
    <3>4. /\ ctx.prev_frame_num = prev /\ ctx.frame_num_offset \in Int
          /\ 2 * ctx.frame_num_offset = 2 * FrameHigh(r) - zero
      <4>1. Zero(r, origin) = zero
        BY <1>1, <2>2, ZeroStays
      <4>2. ctx.frame_num_offset \in Int
        BY DEF CtxType
      <4> QED BY <2>2, <4>1, <4>2 DEF Tells2
    <3> DEFINE step == k * max
               from == ctx.frame_num_offset
    <3>6. step \in Int
      BY <3>2
    <3>7. 0 <= (from + step + num) - (from + prev) /\ (from + step + num) - (from + prev) < max
      <4>1. FrameOf(p) = FrameHigh(p) + num /\ FrameOf(r) = FrameHigh(r) + prev
            /\ FrameHigh(r) \in Int
        BY <1>3, <3>2, <3>3 DEF FrameHigh
      <4> HIDE DEF step, num, prev, max
      <4>2. FrameHigh(p) = FrameHigh(r) + step
        BY <3>1 DEF step
      <4> QED BY <1>3, <3>2, <3>3, <3>4, <3>6, <4>1, <4>2
    <3>8. offset = from + step
      <4> DEFINE n == from + step + num
      <4>1. n \in Int /\ n - (from + prev) \in 0..max - 1
        <5>1. from \in Int /\ num \in Int /\ prev \in Int /\ max \in Int
          BY <3>2, <3>3, <3>4
        <5> HIDE DEF num, prev, max, from, step
        <5> QED BY <3>6, <3>7, <5>1
      <4>2. n = ctx.frame_num_offset + k * sps.max_frame_num + file[p].frame_num
        OBVIOUS
      <4>3. /\ ctx.prev_frame_num \in 0..max - 1 /\ file[p].frame_num \in 0..max - 1
            /\ n - (ctx.frame_num_offset + ctx.prev_frame_num) \in 0..max - 1
        BY <3>2, <3>3, <3>4, <4>1
      <4> HIDE DEF n
      <4>4. offset = n - num
        <5> HIDE DEF sps, num
        <5> QED BY <2>2, <3>2, <4>1, <4>2, <4>3, FrameNumRecovers DEF num
      <4>5. from \in Int /\ num \in Int
        BY <3>2, <3>4
      <4> HIDE DEF num, from, step, offset
      <4> QED BY <3>6, <4>4, <4>5 DEF n
    <3>9. FrameHigh(p) = FrameHigh(r) + step /\ FrameHigh(r) \in Int
      BY <3>1, <3>2, <3>3 DEF FrameHigh
    <3> HIDE DEF step, num, prev, max, offset
    <3> QED BY <1>3, <3>4, <3>6, <3>8, <3>9
  <2>3. ASSUME ~IsIdr(file[p]), \A r \in Decoded : ~LastIn(Decoded, r, p)
        PROVE  offset \in Int /\ 2 * offset = 2 * FrameHigh(p) - zero
    <3>1. ctx.prev_frame_num = 0 /\ ctx.frame_num_offset = 0 /\ zero = origin
      BY <1>1, <2>3, ZeroStays DEF Tells2
    <3>2. origin = 2 * FrameHigh(p)
      BY <1>1, <2>3 DEF Coded2
    <3>3. offset = 0
      BY <1>3, <2>3, <3>1 DEF FrameNumOffset
    <3> QED BY <1>3, <3>1, <3>2, <3>3
  <2> QED BY <2>1, <2>2, <2>3
<1>5. d.poc = file[p].poc - zero
  <2>1. /\ FrameOf(p) = FrameHigh(p) + num
        /\ file[p].poc = 2 * FrameOf(p) - (IF file[p].ref THEN 0 ELSE 1)
    <3>1. file[p].poc = 2 * FrameOf(p) - (IF file[p].ref THEN 0 ELSE 1)
      BY <1>1 DEF Coded2
    <3> QED BY <1>3, <3>1 DEF FrameHigh
  <2> HIDE DEF offset, num, zero, d
  <2> QED BY <1>2, <1>3, <1>4, <2>1
<1>6. /\ d.ctx \in CtxType
      /\ d.ctx.prev_frame_num = num /\ d.ctx.frame_num_offset = offset
  <2> DEFINE upd(x, a, b) == [x EXCEPT !.frame_num_offset = a, !.prev_frame_num = b]
  <2>1. \A x \in CtxType : \A a, b \in Int :
            /\ upd(x, a, b) \in CtxType
            /\ upd(x, a, b).prev_frame_num = b /\ upd(x, a, b).frame_num_offset = a
    BY DEF CtxType
  <2>2. d.ctx = upd(ctx, offset, num)
    BY <1>2
  <2>3. offset \in Int /\ num \in Int
    BY <1>3, <1>4
  <2> HIDE DEF upd, offset, num, d
  <2>4. /\ upd(ctx, offset, num) \in CtxType
        /\ upd(ctx, offset, num).prev_frame_num = num
        /\ upd(ctx, offset, num).frame_num_offset = offset
    BY <2>1, <2>3
  <2> QED BY <2>2, <2>4
<1>7. Tells2(d.ctx, p + 1, origin)
  <2>1. \A r \in Decoded : LastIn(Decoded, r, p + 1) <=> r = p
    BY <1>1, LastStep
  <2> HIDE DEF d
  <2> QED BY <1>4, <1>6, <2>1 DEF Tells2
<1> QED BY <1>5, <1>6, <1>7

(* Either. *)

\* The counts are coded as the standard asks, without a reset other than an IDR.
Coded(origin) == AllCoded0(origin) \/ AllCoded2(origin)

Tells(ctx, n, origin) ==
    /\ ctx \in CtxType
    /\ AllCoded0(origin) => Tells0(ctx, n, origin)
    /\ AllCoded2(origin) => Tells2(ctx, n, origin)

\* From the state before a picture, the derivation makes its count, up to where
\* it started from, and the state after it.
LEMMA Derives ==
  ASSUME WellFormed(file), NEW origin \in Int, Coded(origin), NEW p \in Decoded,
         NEW ctx, Tells(ctx, p, origin)
  PROVE  LET d == DerivePoc(ctx, SpsAt(p), file[p])
         IN  d.poc = file[p].poc - Zero(p, origin) /\ Tells(d.ctx, p + 1, origin)
<1>1. CASE AllCoded0(origin) /\ ~AllCoded2(origin)
  BY <1>1, Derives0 DEF Tells
<1>2. CASE AllCoded2(origin) /\ ~AllCoded0(origin)
  BY <1>2, Derives2 DEF Tells
<1>3. CASE AllCoded0(origin) /\ AllCoded2(origin)
  BY <1>3 DEF AllCoded0, AllCoded2, Coded0, Coded2
<1> QED BY <1>1, <1>2, <1>3 DEF Coded

\* Nothing happens to the state between pictures.
LEMMA TellsOn ==
  ASSUME WellFormed(file), NEW origin, NEW n \in Nat, n \notin Decoded,
         NEW ctx, Tells(ctx, n, origin)
  PROVE  Tells(ctx, n + 1, origin)
<1>1. /\ Refs \in SUBSET Decoded /\ Decoded \in SUBSET Decoded /\ n \notin Refs
  BY DEF Refs
<1>2. \A r \in Refs : LastIn(Refs, r, n + 1) <=> LastIn(Refs, r, n)
  BY <1>1, LastStep
<1>3. \A r \in Decoded : LastIn(Decoded, r, n + 1) <=> LastIn(Decoded, r, n)
  BY <1>1, LastStep
<1> QED BY <1>2, <1>3 DEF Tells, Tells0, Tells2

\* After an IDR, the reset state is the one that its own header left.
LEMMA ResetTells ==
  ASSUME WellFormed(file), NEW origin, NEW p \in Decoded, IsIdr(file[p])
  PROVE  Tells(h264_poc_reset, p + 1, origin)
<1>1. p \in Nat /\ Refs \in SUBSET Decoded /\ Decoded \in SUBSET Decoded
  BY DecodedFinite, FileType DEF Refs
<1>2. h264_poc_reset \in CtxType /\ Zero(p, origin) = 0
  BY <1>1 DEF h264_poc_reset, CtxType, Zero
<1>3. AllCoded0(origin) => Tells0(h264_poc_reset, p + 1, origin)
  <2> SUFFICES ASSUME AllCoded0(origin) PROVE Tells0(h264_poc_reset, p + 1, origin)
    OBVIOUS
  <2>1. p \in Refs /\ file[p].poc = 0 /\ file[p].poc_lsb = 0
    BY DEF AllCoded0, Coded0, Refs
  <2>2. \A r \in Refs : LastIn(Refs, r, p + 1) <=> r = p
    BY <1>1, <2>1, LastStep
  <2> QED BY <1>2, <2>1, <2>2 DEF Tells0, High, h264_poc_reset
<1>4. AllCoded2(origin) => Tells2(h264_poc_reset, p + 1, origin)
  <2> SUFFICES ASSUME AllCoded2(origin) PROVE Tells2(h264_poc_reset, p + 1, origin)
    OBVIOUS
  <2>1. Coded2(p, origin) /\ file[p].ref /\ file[p].poc = 0 /\ file[p].frame_num = 0
    BY DEF AllCoded2, Coded2
  <2>2. file[p].poc = 2 * FrameOf(p) - 0 /\ FrameOf(p) \in Int
    BY <2>1 DEF Coded2, FrameOf
  <2>3. FrameHigh(p) = 0
    BY <2>1, <2>2 DEF FrameHigh
  <2>4. \A r \in Decoded : LastIn(Decoded, r, p + 1) <=> r = p
    BY <1>1, LastStep
  <2> QED BY <1>2, <2>1, <2>3, <2>4 DEF Tells2, h264_poc_reset
<1> QED BY <1>2, <1>3, <1>4 DEF Tells

LEMMA OnlyIdrsReset ==
  ASSUME NEW origin, Coded(origin), NEW p \in Decoded
  PROVE  Resets(p) <=> IsIdr(file[p])
  BY DEF Coded, AllCoded0, AllCoded2, Coded0, Coded2, Resets

LEMMA CodedStays ==
  ASSUME file' = file, NEW origin
  PROVE  /\ Coded(origin)' <=> Coded(origin)
         /\ \A ctx, n : Tells(ctx, n, origin)' <=> Tells(ctx, n, origin)
         /\ \A p : Zero(p, origin)' = Zero(p, origin)
<1>1. Decoded' = Decoded
  BY FileFixed
<1>2. \A p : SpsAt(p)' = SpsAt(p)
  BY FileFixed DEF SpsAt
<1>3. /\ Refs' = Refs
      /\ \A S, r, n : LastIn(S, r, n)' <=> LastIn(S, r, n)
      /\ \A p : Zero(p, origin)' = Zero(p, origin)
      /\ \A p : High(p)' = High(p)
      /\ \A p : FrameOf(p)' = FrameOf(p)
  BY <1>1 DEF Refs, LastIn, Zero, High, FrameOf
<1>4. \A p : FrameHigh(p)' = FrameHigh(p)
  BY <1>3 DEF FrameHigh
<1>5. \A p, c, h : NearTo(p, c, h)' <=> NearTo(p, c, h)
  BY <1>2, <1>3, SMTT(30) DEF NearTo
<1>6. \A p : Coded0(p, origin)' <=> Coded0(p, origin)
  BY <1>2, <1>3, <1>5 DEF Coded0
<1>7. \A p : Coded2(p, origin)' <=> Coded2(p, origin)
  BY <1>1, <1>2, <1>3, <1>4 DEF Coded2
<1>8. /\ AllCoded0(origin)' <=> AllCoded0(origin)
      /\ AllCoded2(origin)' <=> AllCoded2(origin)
  BY <1>1, <1>6, <1>7 DEF AllCoded0, AllCoded2
<1>9. /\ \A ctx, n : Tells0(ctx, n, origin)' <=> Tells0(ctx, n, origin)
      /\ \A ctx, n : Tells2(ctx, n, origin)' <=> Tells2(ctx, n, origin)
  BY <1>1, <1>3, <1>4 DEF Tells0, Tells2
<1> QED BY <1>3, <1>8, <1>9 DEF Coded, Tells

-----------------------------------------------------------------------------
(* The seek points of the first pass *)

\* The pictures of the sequence under the scan.
Current(p) == p \in Decoded /\ p < pos /\ cvs.base <= DecodeIndex(p)

\* The POC buffer holds their counts; it starts at the last IDR.
BufferInv(origin) ==
    /\ \A p \in Decoded : p < pos /\ IsIdr(file[p]) => DecodeIndex(p) <= cvs.base
    /\ cvs.base # 0 => \E b \in Decoded : b < pos /\ DecodeIndex(b) = cvs.base /\ IsIdr(file[b])
    /\ \A p \in Decoded : Current(p) =>
           pb.v[DecodeIndex(p) - cvs.base + 1] = file[p].poc - Zero(p, origin)

\* The seek points of finished sequences have their display index.
Placed(sp) == \A p \in Decoded : sp.frame = DecodeIndex(p) => sp.valid_from = DisplayIndex(p)

PlacedInv ==
    \A i \in DOMAIN idx.v :
        IF i <= cvs.first_sp THEN Placed(idx.v[i]) ELSE cvs.base <= idx.v[i].frame

DeriveInv(origin) ==
    pass = "poc" => Tells(parser.ctx, pos, origin) /\ BufferInv(origin) /\ PlacedInv

LEMMA PicturesOrdered ==
  ASSUME WellFormed(file)
  PROVE  /\ \A r \in Decoded : r \in Nat /\ DecodeIndex(r) \in Nat
         /\ \A r, s \in Decoded : r < s <=> DecodeIndex(r) < DecodeIndex(s)
         /\ \A r, s \in Decoded : DecodeIndex(r) = DecodeIndex(s) => r = s
<1>1. \A r \in Decoded : r \in Nat
  BY DecodedFinite, FileType
<1>2. \A r \in Decoded : DecodeIndex(r) \in Nat
  BY <1>1, IndexStep
<1> QED BY <1>1, <1>2, SamePicture

\* The pictures of a sequence lie between two resets.
LEMMA CurrentTogether ==
  ASSUME TypeInv, NEW origin \in Int, Coded(origin), BufferInv(origin),
         NEW p \in Decoded, Current(p), NEW q \in Decoded, q < pos
  PROVE  /\ Current(q) => Zero(q, origin) = Zero(p, origin) /\ Sequence(q) = Sequence(p)
         /\ ~Current(q) => Sequence(q) < Sequence(p)
<1>1. /\ WellFormed(file) /\ cvs.base \in Nat /\ pos \in Nat
      /\ \A r \in Decoded : r \in Nat /\ DecodeIndex(r) \in Nat
      /\ \A r, s \in Decoded : r < s <=> DecodeIndex(r) < DecodeIndex(s)
  <2>1. WellFormed(file) /\ cvs.base \in Nat /\ pos \in Nat
    BY DEF TypeInv, ListsInv, ScalarsInv
  <2> QED BY <2>1, PicturesOrdered
<1>2. ASSUME NEW r \in Decoded, Current(r), NEW s \in Decoded, Current(s), r < s
      PROVE  Sequence(r) = Sequence(s)
  <2>1. \A t \in Decoded : r < t /\ t <= s => ~IsIdr(file[t])
    BY <1>1, <1>2 DEF Current, BufferInv
  <2>2. \A t \in Decoded : r < t /\ t <= s => ~Resets(t)
    BY <2>1, OnlyIdrsReset
  <2> QED BY <1>1, <1>2, <2>2, SequenceGrows
<1>3. ASSUME NEW r \in Decoded, Current(r), NEW s \in Decoded, Current(s), NEW t \in Decoded,
             IsIdr(file[t]), t <= r
      PROVE  \E u \in Decoded : u <= s /\ IsIdr(file[u])
  <2>1. CASE cvs.base # 0
    <3>1. PICK b \in Decoded : DecodeIndex(b) = cvs.base /\ IsIdr(file[b])
      BY <2>1 DEF BufferInv
    <3> QED BY <1>1, <1>3, <3>1 DEF Current
  <2>2. CASE cvs.base = 0
    <3>1. DecodeIndex(t) = 0
      BY <1>1, <1>3, <2>2 DEF Current, BufferInv
    <3> QED BY <1>1, <1>3, <3>1
  <2> QED BY <2>1, <2>2
<1>4. ASSUME Current(q) PROVE Zero(q, origin) = Zero(p, origin) /\ Sequence(q) = Sequence(p)
  <2>1. Zero(q, origin) = Zero(p, origin)
    BY <1>3, <1>4 DEF Zero
  <2>2. p < q \/ q < p \/ p = q
    BY <1>1
  <2> QED BY <1>2, <1>4, <2>1, <2>2
<1>5. ASSUME ~Current(q) PROVE Sequence(q) < Sequence(p)
  <2>1. DecodeIndex(q) < cvs.base /\ cvs.base # 0
    BY <1>1, <1>5 DEF Current
  <2>2. PICK b \in Decoded : DecodeIndex(b) = cvs.base /\ IsIdr(file[b])
    BY <2>1 DEF BufferInv
  <2>3. q < b /\ b <= p /\ q <= p /\ Resets(b)
    BY <1>1, <2>1, <2>2 DEF Current, Resets
  <2> QED BY <1>1, <2>3, SequenceGrows
<1> QED BY <1>4, <1>5

\* At the end of a sequence, a picture of it is displayed after all the pictures
\* before the sequence and those of it with a smaller count.
LEMMA DisplayInSequence ==
  ASSUME TypeInv, NEW origin \in Int, Coded(origin), BufferInv(origin), frames = DecodeIndex(pos),
         pass = "poc", NEW p \in Decoded, Current(p),
         \A q \in Decoded : q >= pos => Sequence(p) < Sequence(q)
  PROVE  DisplayIndex(p) = cvs.base + RankOf(pb.v[DecodeIndex(p) - cvs.base + 1])
<1>1. /\ WellFormed(file) /\ cvs.base \in Nat /\ pos \in Nat \ {0} /\ frames \in Nat
      /\ cvs.base <= frames
      /\ DOMAIN pb.v = 1..frames - cvs.base
      /\ \A r \in Decoded : r \in Nat /\ DecodeIndex(r) \in Nat
      /\ \A r, s \in Decoded : r < s <=> DecodeIndex(r) < DecodeIndex(s)
      /\ \A r, s \in Decoded : DecodeIndex(r) = DecodeIndex(s) => r = s
  <2>1. WellFormed(file) /\ cvs.base \in Nat /\ pos \in Nat \ {0} /\ frames \in Nat
        /\ cvs.base <= frames
    BY DEF TypeInv, ListsInv, ScalarsInv
  <2>2. DOMAIN pb.v = 1..frames - cvs.base
    <3>1. pb.v \in Seq(Range(pb.v)) /\ Len(pb.v) = frames - cvs.base
      BY DEF TypeInv, ListsInv, Lists
    <3> QED BY <3>1, LenProperties
  <2> QED BY <2>1, <2>2, PicturesOrdered
<1> DEFINE place(q) == DecodeIndex(q) - cvs.base + 1
           Old == {q \in Decoded : DecodeIndex(q) < cvs.base}
           New == {q \in Decoded : Current(q) /\ file[q].poc < file[p].poc}
           Less == {j \in DOMAIN pb.v : pb.v[j] < pb.v[place(p)]}
<1>2. \A q \in Decoded : file[q].poc \in Int /\ Sequence(q) \in Nat /\ Zero(q, origin) \in Int
  BY <1>1, CountsAreInts DEF Zero
<1>3. \A q \in Decoded : q < pos <=> DecodeIndex(q) < frames
  <2> SUFFICES ASSUME NEW q \in Decoded PROVE q < pos <=> DecodeIndex(q) < frames
    OBVIOUS
  <2>1. q < pos => DecodeIndex(q) < DecodeIndex(pos)
    BY <1>1, IndexGrows
  <2>2. pos <= q => DecodeIndex(pos) <= DecodeIndex(q)
    BY <1>1, IndexGrows
  <2> QED BY <1>1, <2>1, <2>2
<1>4. {q \in Decoded : ShownBefore(q, p)} = Old \cup New
  <2>1. ASSUME NEW q \in Decoded, q >= pos PROVE ~ShownBefore(q, p) /\ q \notin Old /\ q \notin New
    <3>1. Sequence(p) < Sequence(q)
      BY <2>1
    <3>2. ~ShownBefore(q, p)
      BY <1>2, <3>1 DEF ShownBefore
    <3>3. ~(q < pos) /\ ~(DecodeIndex(q) < frames)
      BY <1>1, <1>3, <2>1
    <3>4. ~Current(q) /\ ~(DecodeIndex(q) < cvs.base)
      BY <1>1, <3>3 DEF Current
    <3> QED BY <3>2, <3>4
  <2>2. ASSUME NEW q \in Decoded, q < pos PROVE ShownBefore(q, p) <=> q \in Old \/ q \in New
    <3>1. CASE Current(q)
      BY <1>1, <1>2, <2>2, <3>1, CurrentTogether DEF ShownBefore, Current
    <3>2. CASE ~Current(q)
      BY <1>1, <1>2, <2>2, <3>2, CurrentTogether DEF ShownBefore, Current
    <3> QED BY <3>1, <3>2
  <2> QED BY <1>1, <2>1, <2>2
<1>5. Old \cap New = {}
  BY <1>1 DEF Current
<1>6. IsFiniteSet(Old) /\ IsFiniteSet(New) /\ Cardinality(Old) \in Nat /\ Cardinality(New) \in Nat
  BY <1>1, DecodedFinite
<1>7. DisplayIndex(p) = Cardinality(Old) + Cardinality(New)
  <2>1. DisplayIndex(p) = Cardinality(Old \cup New)
    BY <1>4 DEF DisplayIndex
  <2>2. Cardinality(Old \cap New) = 0
    BY <1>5, FS_EmptySet
  <2> HIDE DEF Old, New
  <2>3. Cardinality(Old \cup New) =
            Cardinality(Old) + Cardinality(New) - Cardinality(Old \cap New)
    BY <1>6, FS_Union
  <2> QED BY <1>6, <2>1, <2>2, <2>3
<1>8. Cardinality(Old) = cvs.base
  <2>1. CASE cvs.base = frames
    <3>1. Old = {q \in Decoded : q < pos}
      BY <1>3, <2>1
    <3> QED BY <2>1, <3>1 DEF DecodeIndex
  <2>2. CASE cvs.base < frames
    <3>1. PICK b \in Decoded : DecodeIndex(b) = cvs.base
      BY <1>1, <2>2, IndexOnto
    <3>2. Old = {q \in Decoded : q < b}
      BY <1>1, <3>1
    <3> QED BY <3>1, <3>2 DEF DecodeIndex
  <2> QED BY <1>1, <2>1, <2>2
<1>9. Cardinality(New) = Cardinality(Less)
  <2> DEFINE f == [q \in New |-> place(q)]
  <2>1. \A q \in Decoded : Current(q) =>
            /\ place(q) \in DOMAIN pb.v
            /\ pb.v[place(q)] = file[q].poc - Zero(p, origin)
    <3> SUFFICES ASSUME NEW q \in Decoded, Current(q)
                 PROVE  /\ place(q) \in DOMAIN pb.v
                        /\ pb.v[place(q)] = file[q].poc - Zero(p, origin)
      OBVIOUS
    <3>1. place(q) \in DOMAIN pb.v
      BY <1>1, <1>3 DEF Current
    <3>2. Zero(q, origin) = Zero(p, origin)
      BY CurrentTogether DEF Current
    <3> QED BY <3>1, <3>2 DEF BufferInv
  <2>2. \A j \in DOMAIN pb.v : \E q \in Decoded : Current(q) /\ place(q) = j
    <3> SUFFICES ASSUME NEW j \in DOMAIN pb.v PROVE \E q \in Decoded : Current(q) /\ place(q) = j
      OBVIOUS
    <3> DEFINE k == cvs.base + j - 1
    <3>1. k \in Nat /\ k < DecodeIndex(pos) /\ j \in Nat /\ cvs.base <= k
      BY <1>1
    <3> HIDE DEF k
    <3>2. PICK q \in Decoded : q < pos /\ DecodeIndex(q) = k
      BY <1>1, <3>1, IndexOnto
    <3> QED BY <1>1, <3>1, <3>2 DEF Current, k
  <2>3. \A q \in Decoded : Current(q) => (place(q) \in Less <=> q \in New)
    BY <1>2, <2>1
  <2>4. \A q, r \in New : place(q) = place(r) => q = r
    BY <1>1, SMTT(30)
  <2>5. \A j \in Less : \E q \in New : place(q) = j
    BY <2>2, <2>3
  <2>6. \A q \in New : place(q) \in Less
    BY <2>3
  <2> HIDE DEF New, Less, place
  <2>7. f \in [New -> Less] /\ f \in Bijection(New, Less)
    BY <2>4, <2>5, <2>6, Fun_IsBij
  <2>8. ExistsBijection(New, Less)
    BY <2>7, Fun_ExistsBij
  <2> QED BY <1>6, <2>8, FS_Bijection
<1> QED BY <1>7, <1>8, <1>9 DEF RankOf

\* When a sequence is complete, flush_cvs gives its seek points their display
\* indices.
LEMMA FlushPlaced ==
  ASSUME TypeInv, NEW origin \in Int, Coded(origin), BufferInv(origin), PlacedInv,
         frames = DecodeIndex(pos), pass = "poc",
         \A p \in Decoded : Current(p) =>
             \A q \in Decoded : q >= pos => Sequence(p) < Sequence(q)
  PROVE  \A i \in DOMAIN idx.v : Placed(flush_cvs.v[i])
<1>1. /\ idx \in Lists(SeekPointType(Len(file), frames)) /\ Len(file) \in Nat /\ frames \in Nat
      /\ pb.v \in Seq(Range(pb.v)) /\ cvs.base \in Nat /\ Len(pb.v) = frames - cvs.base
      /\ pos \in Nat \ {0} /\ WellFormed(file)
  BY FileType DEF TypeInv, ListsInv, ScalarsInv, Lists
<1>2. /\ Len(idx.v) \in Nat /\ DOMAIN idx.v = 1..Len(idx.v)
      /\ \A i \in 1..Len(idx.v) : idx.v[i] \in SeekPointType(Len(file), frames)
  BY <1>1, ListElements
<1>3. \A i \in 1..Len(idx.v) : flush_cvs.v[i] =
              IF pb.v = <<>> \/ i <= cvs.first_sp THEN idx.v[i]
              ELSE [idx.v[i] EXCEPT
                       !.valid_from = cvs.base + RankOf(pb.v[idx.v[i].frame - cvs.base + 1])]
  BY <1>1, FlushKeeps DEF SeekPointType
<1> SUFFICES ASSUME NEW i \in 1..Len(idx.v), NEW p \in Decoded,
                    flush_cvs.v[i].frame = DecodeIndex(p)
             PROVE  flush_cvs.v[i].valid_from = DisplayIndex(p)
  BY <1>2 DEF Placed
<1>4. CASE i <= cvs.first_sp
  BY <1>2, <1>3, <1>4 DEF PlacedInv, Placed
<1>5. CASE ~(i <= cvs.first_sp)
  <2>1. idx.v[i].frame \in 0..frames - 1 /\ cvs.base <= idx.v[i].frame
    BY <1>2, <1>5 DEF PlacedInv, SeekPointType
  <2>2. pb.v # <<>>
    BY <1>1, <2>1
  <2>3. /\ flush_cvs.v[i].frame = idx.v[i].frame
        /\ flush_cvs.v[i].valid_from = cvs.base + RankOf(pb.v[idx.v[i].frame - cvs.base + 1])
    BY <1>2, <1>3, <1>5, <2>2 DEF SeekPointType
  <2>4. Current(p)
    <3>1. p \in Nat /\ DecodeIndex(p) < DecodeIndex(pos)
      BY <1>1, <2>1, <2>3, PicturesOrdered, SMTT(30)
    <3>2. pos <= p => DecodeIndex(pos) <= DecodeIndex(p)
      BY <1>1, <3>1, IndexGrows
    <3> QED BY <1>1, <2>1, <2>3, <3>1, <3>2, SMTT(30) DEF Current
  <2>5. DisplayIndex(p) = cvs.base + RankOf(pb.v[DecodeIndex(p) - cvs.base + 1])
    BY <2>4, DisplayInSequence
  <2> QED BY <2>3, <2>5
<1> QED BY <1>4, <1>5

LEMMA OrderStays ==
  ASSUME file' = file
  PROVE  /\ \A p : Sequence(p)' = Sequence(p)
         /\ \A p : DisplayIndex(p)' = DisplayIndex(p)
         /\ \A sp : Placed(sp)' <=> Placed(sp)
         /\ \A sp : PointTrue(sp)' <=> PointTrue(sp)
<1>1. Decoded' = Decoded
  BY FileFixed
<1>2. \A p : Sequence(p)' = Sequence(p)
  BY <1>1 DEF Sequence, Resets
<1>3. \A p, q : ShownBefore(p, q)' <=> ShownBefore(p, q)
  BY <1>2 DEF ShownBefore
<1>4. \A p : DisplayIndex(p)' = DisplayIndex(p)
  BY <1>1, <1>3 DEF DisplayIndex
<1>5. \A p : IsRecoveryPoint(p)' <=> IsRecoveryPoint(p)
  BY FileFixed DEF IsRecoveryPoint
<1>6. \A sp : Placed(sp)' <=> Placed(sp)
  BY <1>1, <1>4, FileFixed DEF Placed
<1>7. \A sp : PointTrue(sp)' <=> PointTrue(sp)
  BY <1>1, <1>4, <1>5, FileFixed DEF PointTrue
<1> QED BY <1>2, <1>4, <1>6, <1>7

LEMMA DeriveStep ==
  ASSUME TypeInv, Knows, CountInv, NEW origin \in Int, Coded(origin), DeriveInv(origin),
         NEW unit, ScanStep(unit)
  PROVE  DeriveInv(origin)'
<1>0. /\ WellFormed(file) /\ pos \in Nat \ {0} /\ frames \in Nat /\ cvs.base \in Nat
      /\ cvs.base <= frames
      /\ \A p \in Decoded : p \in Nat /\ DecodeIndex(p) \in Nat
      /\ \A r, s \in Decoded : r < s <=> DecodeIndex(r) < DecodeIndex(s)
      /\ \A r, s \in Decoded : DecodeIndex(r) = DecodeIndex(s) => r = s
  <2>1. /\ WellFormed(file) /\ pos \in Nat \ {0} /\ frames \in Nat /\ cvs.base \in Nat
        /\ cvs.base <= frames
    BY DEF TypeInv, ListsInv, ScalarsInv
  <2> QED BY <2>1, PicturesOrdered
<1>1. ASSUME file' = file
      PROVE  /\ Decoded' = Decoded
             /\ \A p : DecodeIndex(p)' = DecodeIndex(p)
             /\ \A p : Zero(p, origin)' = Zero(p, origin)
             /\ \A ctx, n : Tells(ctx, n, origin)' <=> Tells(ctx, n, origin)
             /\ \A sp : Placed(sp)' <=> Placed(sp)
  BY <1>1, FileFixed, CodedStays, OrderStays
<1>2. CASE pass = "poc" /\ Passes
  <2>0. /\ Scanning /\ ~Counted /\ pos' = pos + 1 /\ parser'.ctx = parser.ctx
        /\ UNCHANGED <<file, pass, cvs, pb, idx>>
    BY <1>2 DEF Passes
  <2>1. pos \notin Decoded
    BY <2>0 DEF Knows
  <2>2. \A p \in Decoded : p < pos' <=> p < pos
    BY <1>0, <2>0, <2>1
  <2>3. Tells(parser.ctx, pos + 1, origin)
    BY <1>0, <1>2, <2>1, TellsOn DEF DeriveInv
  <2>4. Tells(parser.ctx, pos, origin)'
    <3>1. \A ctx, n : Tells(ctx, n, origin)' <=> Tells(ctx, n, origin)
      BY <1>1, <2>0
    <3> QED BY <2>0, <2>3, <3>1
  <2>5. \A p \in Decoded : Current(p)' <=> Current(p)
    BY <1>1, <2>0, <2>2 DEF Current
  <2>6. BufferInv(origin)'
    BY <1>1, <1>2, <2>0, <2>2, <2>5 DEF DeriveInv, BufferInv
  <2>7. PlacedInv'
    BY <1>1, <1>2, <2>0 DEF DeriveInv, PlacedInv
  <2> QED BY <2>4, <2>6, <2>7 DEF DeriveInv
<1>6. ASSUME pass = "poc", TakePicture(unit) \/ TakeIdr(unit), Takes(unit)
      PROVE  /\ UNCHANGED <<file, pass>> /\ pos' = pos + 1
             /\ Scanning /\ Counted /\ Parsable(Nal) /\ pos \in Decoded /\ frames = DecodeIndex(pos)
             /\ Derived.poc = file[pos].poc - Zero(pos, origin)
             /\ Tells(Derived.ctx, pos + 1, origin)
             /\ Len(idx.v) \in Nat /\ DOMAIN idx.v = 1..Len(idx.v)
             /\ Len(idx'.v) \in {Len(idx.v), Len(idx.v) + 1} /\ DOMAIN idx'.v = 1..Len(idx'.v)
             /\ \A i \in 1..Len(idx.v) : idx'.v[i] = IF IsIdr(Nal) THEN flush_cvs.v[i] ELSE idx.v[i]
             /\ Len(idx'.v) = Len(idx.v) + 1 => idx'.v[Len(idx.v) + 1].frame = frames
             /\ \A p \in Decoded : p < pos' <=> p < pos \/ p = pos
             /\ \A p \in Decoded : p < pos <=> DecodeIndex(p) < frames
  <2>1. /\ UNCHANGED <<file, pass>> /\ pos' = pos + 1 /\ unit \in 1..pos
    BY <1>6 DEF Takes, CountOn, UnitBegins
  <2>2. /\ Scanning /\ Counted /\ Parsable(Nal)
        /\ Len(idx.v) \in Nat /\ DOMAIN idx.v = 1..Len(idx.v)
        /\ Len(idx'.v) \in {Len(idx.v), Len(idx.v) + 1} /\ DOMAIN idx'.v = 1..Len(idx'.v)
        /\ \A i \in 1..Len(idx.v) : idx'.v[i] = IF IsIdr(Nal) THEN flush_cvs.v[i] ELSE idx.v[i]
        /\ Len(idx'.v) = Len(idx.v) + 1 => idx'.v[Len(idx.v) + 1] = SeekPointAt(unit)
    BY <1>0, <1>6, <2>1, PictureAdds
  <2>3. pos \in Decoded /\ frames = DecodeIndex(pos)
    BY <1>6, <2>2 DEF CountInv, Knows
  <2>4. /\ Derived.poc = file[pos].poc - Zero(pos, origin)
        /\ Tells(Derived.ctx, pos + 1, origin)
    <3>1. Tells(parser.ctx, pos, origin)
      BY <1>6 DEF DeriveInv
    <3>2. Derived = DerivePoc(parser.ctx, SpsAt(pos), file[pos])
      BY <1>6, <2>2 DEF Knows
    <3> QED BY <1>0, <2>3, <3>1, <3>2, Derives
  <2>5. \A p \in Decoded : p < pos + 1 <=> p < pos \/ p = pos
    BY <1>0
  <2> QED BY <1>0, <2>1, <2>2, <2>3, <2>4, <2>5 DEF SeekPointAt
<1>7. CASE pass = "poc" /\ Takes(unit) /\ TakePicture(unit)
  <2>0. TakePicture(unit) /\ Takes(unit)
    BY <1>7
  <2>1. /\ UNCHANGED <<file, pass, cvs>> /\ pos' = pos + 1 /\ ~IsIdr(file[pos])
        /\ parser'.ctx = Derived.ctx
    <3>1. \A ctx : [parser EXCEPT !.ctx = ctx].ctx = ctx
      BY <1>6, <1>7, <2>0 DEF Knows
    <3> QED BY <2>0, <3>1 DEF TakePicture, Takes, CountOn, Nal
  <2>2. /\ Len(pb'.v) = Len(pb.v) + 1 /\ Len(pb.v) = frames - cvs.base
        /\ \A i \in 1..Len(pb.v) : pb'.v[i] = pb.v[i]
        /\ pb'.v[Len(pb.v) + 1] = Derived.poc
    <3>1. pb' = Pushed(pb, Derived.poc, PocCap) /\ pb \in Lists(Range(pb.v))
      BY <2>0 DEF TakePicture, TypeInv, ListsInv
    <3>2. Len(pb.v) = frames - cvs.base
      BY <1>7 DEF TypeInv, ListsInv
    <3> QED BY <3>1, <3>2, CountPushed
  <2>3. Tells(parser.ctx, pos, origin)'
    <3>1. \A ctx, n : Tells(ctx, n, origin)' <=> Tells(ctx, n, origin)
      BY <1>1, <2>1
    <3> QED BY <1>6, <1>7, <2>0, <2>1, <3>1
  <2>4. BufferInv(origin)'
    <3>1. \A p \in Decoded : Current(p)' <=> Current(p) \/ p = pos
      BY <1>0, <1>1, <1>6, <1>7, <2>0, <2>1 DEF Current
    <3>2. \A p \in Decoded : p < pos' /\ IsIdr(file[p]) => DecodeIndex(p) <= cvs.base
      BY <1>6, <1>7, <2>0, <2>1 DEF DeriveInv, BufferInv
    <3>3. cvs.base # 0 =>
              \E b \in Decoded : b < pos' /\ DecodeIndex(b) = cvs.base /\ IsIdr(file[b])
      BY <1>6, <1>7, <2>0, <2>1 DEF DeriveInv, BufferInv
    <3>4. ASSUME NEW p \in Decoded, Current(p) \/ p = pos
          PROVE  pb'.v[DecodeIndex(p) - cvs.base + 1] = file[p].poc - Zero(p, origin)
      <4>1. CASE Current(p)
        <5>1. DecodeIndex(p) - cvs.base + 1 \in 1..Len(pb.v)
          <6>1. p < pos /\ cvs.base <= DecodeIndex(p)
            BY <4>1 DEF Current
          <6>2. DecodeIndex(p) < frames
            BY <1>6, <1>7, <2>0, <6>1
          <6> DEFINE d == DecodeIndex(p)
                     b == cvs.base
                     n == Len(pb.v)
          <6>3. d \in Int /\ b \in Int /\ frames \in Int
            BY <1>0
          <6>4. b <= d /\ d < frames /\ n = frames - b
            BY <2>2, <6>1, <6>2
          <6> HIDE DEF d, b, n
          <6>5. d - b + 1 \in 1..n
            BY <6>3, <6>4
          <6> QED BY <6>5 DEF d, b, n
        <5> QED BY <1>7, <2>2, <4>1, <5>1 DEF DeriveInv, BufferInv
      <4>2. CASE p = pos
        <5>1. DecodeIndex(p) - cvs.base + 1 = Len(pb.v) + 1
          BY <1>6, <1>7, <2>0, <2>2, <4>2
        <5> QED BY <1>6, <1>7, <2>0, <2>2, <4>2, <5>1
      <4> QED BY <3>4, <4>1, <4>2
    <3> QED BY <1>1, <2>1, <3>1, <3>2, <3>3, <3>4 DEF BufferInv
  <2>5. PlacedInv'
    <3>1. ASSUME NEW i \in DOMAIN idx'.v
          PROVE  IF i <= cvs.first_sp THEN Placed(idx'.v[i]) ELSE cvs.base <= idx'.v[i].frame
      <4>1. CASE i \in 1..Len(idx.v)
        BY <1>6, <1>7, <2>0, <2>1, <4>1 DEF DeriveInv, PlacedInv, Nal
      <4>2. CASE i = Len(idx.v) + 1 /\ Len(idx'.v) = Len(idx.v) + 1
        <5>1. ~(i <= cvs.first_sp)
          BY <1>6, <1>7, <2>0, <4>2 DEF TypeInv, ListsInv
        <5> QED BY <1>0, <1>6, <1>7, <2>0, <4>2, <5>1
      <4> QED BY <1>6, <1>7, <2>0, <3>1, <4>1, <4>2
    <3> QED BY <1>1, <2>1, <3>1 DEF PlacedInv
  <2> QED BY <2>3, <2>4, <2>5 DEF DeriveInv
<1>8. CASE pass = "poc" /\ Takes(unit) /\ TakeIdr(unit)
  <2>0. TakeIdr(unit) /\ Takes(unit)
    BY <1>8
  <2>1. /\ UNCHANGED <<file, pass>> /\ pos' = pos + 1 /\ IsIdr(file[pos])
        /\ parser'.ctx = h264_poc_reset
        /\ cvs' = [base |-> frames, first_sp |-> Len(idx.v)]
    <3>1. \A ctx : [parser EXCEPT !.ctx = ctx].ctx = ctx
      BY <1>6, <1>8, <2>0 DEF Knows
    <3> QED BY <2>0, <3>1 DEF TakeIdr, Takes, CountOn, Nal
  <2>2. pb'.v[1] = Derived.poc
    <3>1. pb' = Pushed([pb EXCEPT !.v = <<>>], Derived.poc, PocCap) /\ pb \in Lists(Range(pb.v))
      BY <2>0 DEF TakeIdr, TypeInv, ListsInv
    <3>2. [pb EXCEPT !.v = <<>>].v = <<>>
      BY <3>1, ClearedList
    <3> QED BY <3>1, <3>2 DEF Pushed
  <2>3. Tells(parser.ctx, pos, origin)'
    <3>1. \A ctx, n : Tells(ctx, n, origin)' <=> Tells(ctx, n, origin)
      BY <1>1, <2>1
    <3>2. Tells(h264_poc_reset, pos + 1, origin)
      BY <1>0, <1>6, <1>8, <2>0, <2>1, ResetTells
    <3> QED BY <2>1, <3>1, <3>2
  <2>4. BufferInv(origin)'
    <3>1. \A p \in Decoded : Current(p)' <=> p = pos
      BY <1>0, <1>1, <1>6, <1>8, <2>0, <2>1 DEF Current
    <3>2. \A p \in Decoded : p < pos' => DecodeIndex(p) <= frames
      BY <1>0, <1>6, <1>8, <2>0
    <3>3. pos < pos' /\ DecodeIndex(pos) = frames /\ IsIdr(file[pos]) /\ pos \in Decoded
      BY <1>0, <1>6, <1>8, <2>0, <2>1
    <3>4. pb'.v[DecodeIndex(pos) - frames + 1] = file[pos].poc - Zero(pos, origin)
      <4>1. DecodeIndex(pos) - frames + 1 = 1
        BY <1>0, <3>3
      <4> QED BY <1>6, <1>8, <2>0, <2>2, <4>1
    <3> QED BY <1>1, <2>1, <3>1, <3>2, <3>3, <3>4 DEF BufferInv
  <2>5. PlacedInv'
    <3>1. \A p \in Decoded : Current(p) => \A q \in Decoded : q >= pos => Sequence(p) < Sequence(q)
      BY <1>0, <1>6, <1>8, <2>0, <2>1, SequenceGrows, SMTT(30) DEF Current, Resets
    <3>2. \A i \in DOMAIN idx.v : Placed(flush_cvs.v[i])
      BY <1>6, <1>8, <2>0, <3>1, FlushPlaced DEF DeriveInv
    <3>3. ASSUME NEW i \in DOMAIN idx'.v
          PROVE  IF i <= Len(idx.v) THEN Placed(idx'.v[i]) ELSE frames <= idx'.v[i].frame
      <4>1. CASE i \in 1..Len(idx.v)
        BY <1>6, <1>8, <2>0, <2>1, <3>2, <4>1, SMTT(30) DEF Nal
      <4>2. CASE i = Len(idx.v) + 1 /\ Len(idx'.v) = Len(idx.v) + 1
        BY <1>0, <1>6, <1>8, <2>0, <4>2
      <4> QED BY <1>6, <1>8, <2>0, <3>3, <4>1, <4>2
    <3> QED BY <1>1, <2>1, <3>3 DEF PlacedInv
  <2> QED BY <2>3, <2>4, <2>5 DEF DeriveInv
<1>9. CASE pass' # "poc"
  BY <1>9 DEF DeriveInv
<1>10. CASE Rests
  <2>1. UNCHANGED <<file, pos, cvs, pb, idx, parser>> /\ pass' \in {pass, "failed"}
    BY <1>10 DEF Rests
  <2>2. Tells(parser.ctx, pos, origin)' <=> Tells(parser.ctx, pos, origin)
    <3>1. \A ctx, n : Tells(ctx, n, origin)' <=> Tells(ctx, n, origin)
      BY <1>1, <2>1
    <3> QED BY <2>1, <3>1
  <2>3. BufferInv(origin)' <=> BufferInv(origin)
    BY <1>1, <2>1 DEF BufferInv, Current
  <2>4. PlacedInv' <=> PlacedInv
    BY <1>1, <2>1 DEF PlacedInv
  <2> QED BY <2>1, <2>2, <2>3, <2>4 DEF DeriveInv
<1>11. CASE Fallback \/ Finish
  BY <1>9, <1>11 DEF Fallback, Finish
<1>12. CASE pass # "poc" /\ (Passes \/ Takes(unit))
  BY <1>9, <1>12 DEF Passes, Takes, CountOn
<1>13. CASE pass = "poc" /\ Takes(unit)
  BY <1>7, <1>8, <1>13 DEF Takes, TakeIdrOnly
<1> QED BY <1>2, <1>10, <1>11, <1>12, <1>13 DEF ScanStep

LEMMA DeriveStarts ==
  ASSUME WellFormed(file), pos = 1, cvs.base = 0, idx.v = <<>>, parser.ctx = h264_poc_reset,
         NEW origin \in Int
  PROVE  DeriveInv(origin)
<1>1. \A p \in Decoded : ~(p < 1)
  BY DecodedFinite, FileType
<1>2. Tells(h264_poc_reset, 1, origin)
  BY <1>1 DEF Tells, Tells0, Tells2, LastIn, Refs, CtxType, h264_poc_reset
<1>3. BufferInv(origin)
  BY <1>1 DEF BufferInv, Current
<1>4. PlacedInv
  BY DEF PlacedInv
<1> QED BY <1>2, <1>3, <1>4 DEF DeriveInv

LEMMA DeriveKept ==
  ASSUME NEW origin \in Int
  PROVE  Spec /\ Coded(origin) => [](DeriveInv(origin) /\ Coded(origin))
<1>1. Init => DeriveInv(origin)
  BY FilesAssumption, DeriveStarts DEF Init, EmptyList, FreshParser
<1>2. Coded(origin) /\ [Next]_vars => Coded(origin)'
  BY FileStays, CodedStays
<1>3. TypeInv /\ ParserInv /\ UnitInv /\ CountInv /\ Coded(origin)
          /\ DeriveInv(origin) /\ [Next]_vars => DeriveInv(origin)'
  BY StepIs, ParserKnows, DeriveStep
<1> QED BY <1>1, <1>2, <1>3, TypesKept, ParserKept, UnitKept, CountKept, PTL DEF Spec

LEMMA PointsStep ==
  ASSUME TypeInv, CountInv, PointsInv, StartsInv, FallbackInv, SetsKnown, IdrsFirst,
         NEW origin \in Int, Coded(origin), DeriveInv(origin), SeekPointsTrue,
         NEW unit, ScanStep(unit)
  PROVE  SeekPointsTrue'
<1>1. CASE Finish
  <2>1. /\ UNCHANGED <<file, frames, pos>> /\ AtEnd /\ pass \in {"poc", "idr"}
        /\ idx' = IF pass = "poc" THEN flush_cvs ELSE idx
    BY <1>1 DEF Finish, locals
  <2>2. \A sp \in Range(idx'.v) : PointTrue(sp)
    <3>1. CASE pass = "idr"
      BY <2>1, <3>1, FallbackPoints DEF SeekPoints
    <3>2. CASE pass = "poc"
      <4>1. DOMAIN idx'.v = DOMAIN idx.v /\ \A i \in DOMAIN idx.v : idx'.v[i].frame = idx.v[i].frame
        BY <2>1, <3>2, FlushPlaces
      <4>2. \A q \in Decoded : ~(q >= pos)
        <5>1. WellFormed(file) /\ pos > Len(file) /\ pos \in Nat
          BY <2>1 DEF TypeInv, ListsInv, ScalarsInv, AtEnd
        <5> QED BY <5>1, DecodedFinite, FileType
      <4>3. \A i \in DOMAIN idx.v : Placed(idx'.v[i])
        BY <2>1, <3>2, <4>2, FlushPlaced DEF DeriveInv, CountInv
      <4>4. ASSUME NEW i \in DOMAIN idx.v PROVE PointTrue(idx'.v[i])
        <5>1. PICK p \in 1..pos - 1 : p \in Decoded /\ idx.v[i].frame = DecodeIndex(p)
          BY <3>2 DEF PointsInv, PointOf
        <5>2. IsIdr(file[p]) \/ IsRecoveryPoint(p)
          BY <3>2, <5>1 DEF StartsInv, CanStart
        <5> QED BY <4>1, <4>3, <5>1, <5>2 DEF Placed, PointTrue
      <4> QED BY <4>1, <4>4 DEF Range
    <3> QED BY <2>1, <3>1, <3>2
  <2>3. \A sp \in SeekPoints' : PointTrue(sp)'
    BY <2>1, <2>2, OrderStays DEF SeekPoints
  <2> QED BY <2>3 DEF SeekPointsTrue, PointTrue
<1>2. CASE ~Finish
  <2>1. Done' => UNCHANGED <<file, idx, pass>>
    BY <1>2 DEF Done, ScanStep, Passes, Takes, TakePicture, TakeIdr, TakeIdrOnly, CountOn,
           Fallback, Rests, Scanning
  <2> SUFFICES ASSUME Done', NEW sp \in SeekPoints' PROVE PointTrue(sp)'
    BY DEF SeekPointsTrue, PointTrue
  <2>2. Done /\ sp \in SeekPoints /\ file' = file
    BY <2>1 DEF Done, SeekPoints
  <2>3. PointTrue(sp)
    BY <2>2 DEF SeekPointsTrue, PointTrue
  <2> QED BY <2>2, <2>3, OrderStays
<1> QED BY <1>1, <1>2

\* Each seek point has the decode index and the display index ("what a seek
\* binary-searches on", mvcsource.c:44) of a picture that a decoder can start
\* from, whichever pass recorded it, for streams of POC type 0 or 2.
THEOREM SeekPointsCorrect ==
  ASSUME NEW origin \in Int
  PROVE  Spec /\ SetsKnown /\ RecoveriesPaired /\ IdrsFirst /\ Coded(origin) =>
             []SeekPointsTrue
<1>1. Init => SeekPointsTrue
  BY DEF Init, SeekPointsTrue, Done
<1>2. Spec /\ SetsKnown /\ IdrsFirst => [](SetsKnown /\ IdrsFirst)
  <2>1. SetsKnown /\ IdrsFirst /\ [Next]_vars => (SetsKnown /\ IdrsFirst)'
    BY FileStays, SetsStayKnown, IdrsStayFirst
  <2> QED BY <2>1, PTL DEF Spec
<1>3. TypeInv /\ ParserInv /\ UnitInv /\ CountInv /\ PointsInv /\ StartsInv /\ FallbackInv
          /\ SetsKnown /\ IdrsFirst /\ Coded(origin) /\ DeriveInv(origin) /\ SeekPointsTrue
          /\ [Next]_vars => SeekPointsTrue'
  BY StepIs, PointsStep
<1> QED BY <1>1, <1>2, <1>3, TypesKept, ParserKept, UnitKept, CountKept, AccessKept, FallbackKept,
        DeriveKept, PTL DEF Spec
=============================================================================
