---------------------------- MODULE MCInterleave ----------------------------
(* Instances of Interleave for TLC: streams of MCScanIndex, demuxed.         *)
EXTENDS Interleave, MCScanIndex, SequencesExt

(***************************************************************************)
(* A combined stream: its access units, each a base part and a dependent   *)
(* part, after the dependent parts of units that were cut off.             *)
(***************************************************************************)
DependentSlice(anchor) == [type |-> 20, first |-> TRUE, anchor |-> anchor]

\* extra: "sei" (the view repeats the recovery point SEI), "slices" (two
\* slices), "cut" (the header of the first one cannot be read).
DependentPart(st, k, extra) ==
    LET slice == DependentSlice(IF extra = "cut" /\ k = 0 THEN -1 ELSE IF st.kind[k] = "p" THEN 0 ELSE 1)
    IN  (IF k \in st.sets THEN <<Subset(0), Pps(1)>> ELSE <<>>)
        \o (IF extra = "sei" /\ st.kind[k] = "rp" THEN <<Sei(TRUE)>> ELSE <<>>)
        \o <<slice>>
        \o (IF extra = "slices" THEN <<[slice EXCEPT !.first = FALSE]>> ELSE <<>>)

InView(nals, view, k) == [i \in DOMAIN nals |-> [in |-> view, access |-> k] @@ nals[i]]

\* The two files a stream of n units is demuxed into; orphans is a sequence of
\* dependent parts.
Demux(n, orphans, Base(_), Dep(_)) ==
    LET unit(k) == InView(Base(k), "base", k) \o InView(Dep(k), "dependent", k)
        lost(k) == InView(orphans[k], "dependent", k - Len(orphans) - 1)
        combined == FlattenSeq([k \in DOMAIN orphans |-> lost(k)])
                    \o FlattenSeq([i \in 1 .. n |-> unit(i - 1)])
        placed == [i \in DOMAIN combined |-> [at |-> i] @@ combined[i]]
    IN  [base |-> SelectSeq(placed, LAMBDA x : x.in = "base"),
         dep |-> SelectSeq(placed, LAMBDA x : x.in = "dependent")]

\* One or two units' orphans, the second with the sets a player would resend.
Orphans == {<<>>, <<<<DependentSlice(0)>>>>,
            <<<<DependentSlice(0)>>, <<Subset(0), Pps(1), DependentSlice(0)>>>>}

\* Orphans are told from the rest only ahead of an IDR that has an anchor, and
\* the sequence's last dependent part may be missing.
ShapedPairs ==
    UNION {{Demux(Length, orphans,
                    LAMBDA k : UnitOf([st EXCEPT !.tail = IF extra = "slices" THEN "slices" ELSE "none"], k),
                    LAMBDA k : IF k >= parts THEN <<>> ELSE DependentPart(st, k, extra)) :
             orphans \in IF st.kind[0] = "idr" /\ extra # "cut" THEN Orphans ELSE {<<>>},
             parts \in {Length - 1, Length}} :
           <<st, extra>> \in {s \in Shapes : s.tail = "dependent"} \X {"none", "sei", "slices", "cut"}}

OddUnits == {<<SubSeq(Field, 1, 3), SubSeq(Field, 4, 5), SubSeq(Field, 6, 6)>>,
             <<SubSeq(Colliding, 1, 3), SubSeq(Colliding, 4, 4), SubSeq(Colliding, 5, 5),
               SubSeq(Colliding, 6, 7), SubSeq(Colliding, 8, 8)>>,
             <<SubSeq(Resent, 1, 4), SubSeq(Resent, 5, 8), SubSeq(Resent, 9, 10),
               SubSeq(Resent, 11, 13)>>,
             <<<<SpsOf(0), Aud, Slice(1, TRUE, FALSE, 1, 2)>>>>}
    \cup {LET f == Spoilt(set)
          IN  <<SubSeq(f, 1, 4), SubSeq(f, 5, 6), SubSeq(f, 7, 7), SubSeq(f, 8, 9),
                SubSeq(f, 10, 10), SubSeq(f, 11, 11)>> : set \in SpoiltSets}

MCPairs ==
    ShapedPairs \cup {Demux(Len(units), <<>>, LAMBDA k : units[k + 1], LAMBDA k : <<DependentSlice(1)>>) :
                      units \in OddUnits}
=============================================================================
