---------------------------- MODULE MCScanIndex ----------------------------
(* Instances of ScanIndex for TLC: streams written NAL by NAL by an encoder. *)
EXTENDS ScanIndex, SequencesExt

CONSTANT Length         \* pictures of a stream

Pics == 0..Length - 1
Orders == {d \in [Pics -> Pics] : IsInjective(d)}

(***************************************************************************)
(* A stream: kind of each picture ("idr", "rp" with an exact recovery      *)
(* point, "i" without, "p"), display order, pictures that carry an SPS and *)
(* a PPS, what surrounds the slices, POC type and the frame number and POC *)
(* it starts at (0 unless cut in mid-GOP).                                 *)
(***************************************************************************)
SequenceStart(st, k) == Max({0} \cup {j \in 0..k : st.kind[j] = "idr"})

\* What the standard asks: nothing is displayed across an IDR, and everything
\* decoded before an exact recovery point is displayed before it.
Legal(st) ==
    \A j, k \in Pics : j < k =>
        /\ st.kind[k] \in {"idr", "rp"} => st.disp[j] < st.disp[k]
        /\ st.kind[j] = "idr" => st.disp[j] < st.disp[k]
        /\ st.poc_type = 2 => st.disp[j] < st.disp[k]

\* A picture displayed before one already decoded is not used for reference.
IsRef(st, k) == \A j \in 0..k - 1 : st.disp[j] < st.disp[k]

\* Frame numbers since the IDR, unwrapped: one more after each reference.
FrameNum(st, k) ==
    LET first == SequenceStart(st, k)
    IN  (IF st.kind[first] = "idr" THEN 0 ELSE st.start)
        + Cardinality({j \in first..k - 1 : IsRef(st, j)})

Poc(st, k) ==
    LET first == SequenceStart(st, k)
        origin == IF st.kind[first] = "idr" THEN 0 ELSE st.start
    IN  IF st.poc_type = 2 THEN 2 * FrameNum(st, k) - (IF IsRef(st, k) THEN 0 ELSE 1)
        ELSE origin + 2 * (st.disp[k] - first)

\* A cycle of two unequal steps; the delta makes up for the rest.
Cycle == <<2, 4>>
ExpectedPoc(n) == 6 * (n \div 2) + (IF n % 2 = 1 THEN 2 ELSE 0)
DeltaPoc(st, k) ==
    IF IsRef(st, k) THEN Poc(st, k) - ExpectedPoc(FrameNum(st, k))
    ELSE Poc(st, k) + 1 - ExpectedPoc(FrameNum(st, k) - 1)

SpsOf(poc_type) == [type |-> 7, id |-> 0, usable |-> TRUE,
    sps |-> [poc_type |-> poc_type, max_frame_num |-> 16, max_poc_lsb |-> 16,
             offset_for_non_ref_pic |-> -1, offset_for_ref_frame |-> Cycle]]
Pps(id) == [type |-> 8, id |-> id, sps |-> 0, usable |-> TRUE]
Subset(id) == [type |-> 15, id |-> id, sps |-> 0]
Aud == [type |-> 9]
Sei(exact) == [type |-> 6, exact |-> exact]
Dependent == [type |-> 20]

Slice(type, ref, intra, frame_num, poc) ==
    [type |-> type, first |-> TRUE, ref |-> ref, intra |-> intra, pps |-> 0,
     frame_num |-> frame_num % 16, poc_lsb |-> poc % 16, delta_poc0 |-> 0,
     plain |-> TRUE, poc |-> poc, mmco5 |-> FALSE]

PictureOf(st, k) ==
    [Slice(IF st.kind[k] = "idr" THEN 5 ELSE 1, IsRef(st, k), st.kind[k] # "p",
           FrameNum(st, k), Poc(st, k))
     EXCEPT !.delta_poc0 = IF st.poc_type = 1 THEN DeltaPoc(st, k) ELSE 0]

UnitOf(st, k) ==
    (IF st.aud THEN <<Aud>> ELSE <<>>)
    \o (IF k \in st.sets THEN <<SpsOf(st.poc_type), Pps(0)>> ELSE <<>>)
    \o (IF st.kind[k] = "rp" THEN <<Sei(TRUE)>> ELSE <<>>)
    \o <<PictureOf(st, k)>>
    \o (CASE st.tail = "none" -> <<>>
          [] st.tail = "slices" -> <<[PictureOf(st, k) EXCEPT !.first = FALSE]>>
          [] st.tail = "dependent" ->
                (IF k \in st.sets THEN <<Subset(0), Pps(1)>> ELSE <<>>) \o <<Dependent>>)

FileOf(st) == FlattenSeq([i \in 1..Length |-> UnitOf(st, i - 1)])

\* Streams that carry their sets at the start, at two pictures or from the
\* second picture on; the last are cut before it.
Shapes ==
    {st \in [kind : [Pics -> {"idr", "rp", "i", "p"}], disp : Orders,
             sets : {{0}, {0, 2}, {1}}, aud : BOOLEAN,
             tail : {"none", "slices", "dependent"},
             poc_type : {0, 1, 2}, start : {0, 12}] :
        /\ Legal(st)
        /\ st.kind[0] = "idr" => st.start = 0
        /\ 0 \notin st.sets => st.kind[0] # "rp"     \* see Carried
        /\ st.poc_type # 0 => st.aud /\ st.tail = "none" /\ st.sets = {0}
        /\ st.tail = "slices" => ~st.aud
        /\ st.kind[Length - 1] \notin {"i", "rp"}
        /\ (\E k \in Pics : st.kind[k] = "i") => ~st.aud /\ st.tail # "slices"}

-----------------------------------------------------------------------------
(* Streams outside the derivation's scope *)

\* A field picture; a reset of the count (MMCO5) whose successors repeat POCs.
Field == <<SpsOf(0), Pps(0), Slice(5, TRUE, TRUE, 0, 0), Sei(TRUE),
           [Slice(1, TRUE, TRUE, 1, 2) EXCEPT !.plain = FALSE], Slice(5, TRUE, TRUE, 0, 0)>>
Reset(pic, poc) == [pic EXCEPT !.mmco5 = TRUE, !.poc = poc]
Colliding == <<SpsOf(0), Pps(0), Slice(5, TRUE, TRUE, 0, 0), Slice(1, TRUE, FALSE, 1, 2),
               Reset(Slice(1, TRUE, FALSE, 2, 4), 0), Sei(TRUE), Slice(1, TRUE, TRUE, 1, 2),
               Slice(5, TRUE, TRUE, 0, 0)>>

\* A set whose id cannot be read, one that overrides another, and an SEI of
\* another kind before an I picture.
Resent == <<SpsOf(0), Pps(0), [type |-> 13, id |-> -1, sps |-> 0], Slice(5, TRUE, TRUE, 0, 0),
            Aud, Pps(0), Sei(FALSE), Slice(1, TRUE, TRUE, 1, 2),
            SpsOf(0), Slice(5, TRUE, TRUE, 0, 0), Pps(1), Sei(TRUE), Slice(1, TRUE, TRUE, 1, 2)>>

\* An SPS or a PPS that cannot be used comes with the id of the one in force: taken
\* for good, it would let the leading picture follow its recovery point.
OtherSps == [SpsOf(2) EXCEPT !.id = 1]
Spoilt(set) ==
    <<SpsOf(0), OtherSps, Pps(0), Slice(5, TRUE, TRUE, 0, 0),
      [set EXCEPT !.usable = FALSE], Slice(1, TRUE, FALSE, 1, 4), Slice(1, FALSE, FALSE, 2, 2),
      Sei(TRUE), Slice(1, TRUE, TRUE, 2, 8), Slice(1, FALSE, FALSE, 3, 6),
      Slice(5, TRUE, TRUE, 0, 0)>>
SpoiltSets == {SpsOf(2), [Pps(0) EXCEPT !.sps = 1]}

Odd == {Field, Colliding, Resent} \cup {Spoilt(set) : set \in SpoiltSets}

ScanFiles == {FileOf(st) : st \in Shapes} \cup Odd

\* Cut right before a recovery point's SEI, after its sets: the picture is not
\* counted, and the SEI is held against the next one that is.
Carried == {<<Sei(TRUE), Slice(1, TRUE, TRUE, 5, 10), SpsOf(0), Pps(0),
              Slice(1, TRUE, TRUE, 6, 12), Slice(5, TRUE, TRUE, 0, 0)>>}

\* Cut in mid-GOP: the first PPS to come is not the one the slices name.
OtherPps == {<<Slice(1, TRUE, FALSE, 5, 10), SpsOf(0), Pps(1), Slice(1, TRUE, FALSE, 6, 12),
               Aud, Pps(0), Slice(5, TRUE, TRUE, 0, 0)>>}
=============================================================================
