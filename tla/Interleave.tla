---------------------------- MODULE Interleave -----------------------------
(***************************************************************************)
(* The two-file scan of src/mvcsource.c: build_interleaved walks a base    *)
(* view and a dependent view in two files as the combined stream they were *)
(* demuxed from.  collect_view_nals groups each file into access units;    *)
(* the units are paired by index, after those dependent units that lie     *)
(* ahead of the first base picture; the merged list of NALs (spans) is     *)
(* what the seek points and parameter sets refer to and the decoder is     *)
(* fed.                                                                    *)
(*                                                                         *)
(* ScanIndex's variables are used as they are, with the spans as the file: *)
(* a span is a NAL with its view and unit, the turn of the loop over "au"  *)
(* that puts it there (-1: ahead of the first).  au_start and in_vcl have  *)
(* no counterpart.  A type 20 NAL has anchor, what nal20_anchor_flag       *)
(* returns, and first, as slices have.  Two more fields are no part of the *)
(* NAL: at, its place in the combined stream the files were demuxed from,  *)
(* and access, its access unit there.                                      *)
(***************************************************************************)
EXTENDS ScanIndex

CONSTANT Pairs      \* base and dep, two files demuxed from one stream: PairsAssumption

VARIABLE pair

(* nal_is_pic_start                                                        *)
IsPicStart(nal, view) ==
    nal.type \in (IF view = "base" THEN {1, 5} ELSE {20}) /\ nal.first

IsViewVcl(nal, view) == nal.type \in (IF view = "base" THEN {1, 5} ELSE {20})

(***************************************************************************)
(* collect_view_nals: the access unit of each NAL.  A unit begins at the   *)
(* first NAL after a picture that does not continue it.                    *)
(***************************************************************************)
BeginsUnit(nals, view, i) ==
    /\ i > 1 /\ IsViewVcl(nals[i - 1], view)
    /\ ~IsViewVcl(nals[i], view) \/ IsPicStart(nals[i], view)

Au(nals, view) ==
    [i \in DOMAIN nals |-> Cardinality({j \in 1 .. i : BeginsUnit(nals, view, j)})]

(***************************************************************************)
(* dep_shift: dependent units ahead of the first base picture.  That is    *)
(* looked for only if the base starts at an IDR, whose dependent view is   *)
(* an anchor, and among the first nine units.                              *)
(***************************************************************************)
StartsAtIdr(b) ==
    LET starts == {i \in DOMAIN b : IsPicStart(b[i], "base")}
    IN  starts # {} /\ b[Min(starts)].type = 5

FirstSlices(d, au) ==
    {i \in DOMAIN d : /\ d[i].type = 20 /\ au[i] <= 8
                      /\ \A j \in 1 .. i - 1 : d[j].type = 20 => au[j] # au[i]}

NoShift(b, d, au) == 0          \* Mutation: units are paired as they come.

DepShift(b, d, au) ==
    LET told == {i \in FirstSlices(d, au) : d[i].anchor # 0}
    IN  IF StartsAtIdr(b) /\ told # {} /\ d[Min(told)].anchor = 1 THEN au[Min(told)] ELSE 0

(***************************************************************************)
(* The spans.  A turn meets the NALs of a base unit, then those of the     *)
(* dependent unit paired with it, of each file in its order, and n_au      *)
(* turns meet them all: so a NAL comes after the earlier ones of its file, *)
(* and those of the other file that are met in earlier turns or, for a     *)
(* dependent NAL, in the same.                                             *)
(***************************************************************************)
DepTurns(b, d) ==
    LET au == Au(d, "dependent")
        shift == DepShift(b, d, au)
    IN  [j \in DOMAIN d |-> IF au[j] < shift THEN -1 ELSE au[j] - shift]

SpanOf(nal, unit, view) ==
    [k \in DOMAIN nal \cup {"unit", "view"} |->
        IF k = "unit" THEN unit ELSE IF k = "view" THEN view ELSE nal[k]]

Spans(b, d, turn_b, turn_d) ==
    LET place_b(i) == i + Cardinality({j \in DOMAIN d : turn_d[j] < turn_b[i]})
        place_d(j) == j + Cardinality({i \in DOMAIN b : turn_b[i] <= turn_d[j]})
        Base(i) == SpanOf(b[i], turn_b[i], "base")
        Dependent(j) == SpanOf(d[j], turn_d[j], "dependent")
    IN  [p \in 1 .. Len(b) + Len(d) |->
            IF \E i \in DOMAIN b : place_b(i) = p THEN Base(CHOOSE i \in DOMAIN b : place_b(i) = p)
            ELSE Dependent(CHOOSE j \in DOMAIN d : place_d(j) = p)]

(***************************************************************************)
(* What a pair must be for its pictures to be told apart and paired: the   *)
(* files hold the NALs of one stream, in its order, which has access units *)
(* of a base part and a dependent part.  A part is what leads its slices,  *)
(* and these; a file lacks no unit in the middle.  At the head, up to eight*)
(* dependent parts may have lost their base parts if the first base picture*)
(* is an IDR: their slices are no anchors, that of the IDR is.             *)
(***************************************************************************)
InParts(nals, view) ==
    \A i \in 2 .. Len(nals) :
        LET last == nals[i - 1]
        IN  \/ /\ nals[i].access = last.access
               /\ IsViewVcl(last, view) => IsViewVcl(nals[i], view) /\ ~IsPicStart(nals[i], view)
            \/ /\ nals[i].access = last.access + 1
               /\ IsViewVcl(last, view) /\ (IsViewVcl(nals[i], view) => IsPicStart(nals[i], view))

OfOneStream(b, d) ==
    /\ {b[i].at : i \in DOMAIN b} \cup {d[j].at : j \in DOMAIN d} = 1 .. Len(b) + Len(d)
    /\ \A i, j \in DOMAIN b : i < j => b[i].at < b[j].at
    /\ \A i, j \in DOMAIN d : i < j => d[i].at < d[j].at
    /\ \A i \in DOMAIN b, j \in DOMAIN d :
           b[i].at # d[j].at /\ (b[i].at < d[j].at <=> b[i].access <= d[j].access)

\* A NAL has a place, an access unit, and what is read of its type: WellFormed.
HasFields(nal) ==
    /\ {"type", "at", "access"} \subseteq DOMAIN nal
    /\ nal.type \in ParamTypes => "id" \in DOMAIN nal
    /\ nal.type \in {7, 8} => "usable" \in DOMAIN nal
    /\ nal.type = 8 => "sps" \in DOMAIN nal
    /\ nal.type \in {1, 5} => "first" \in DOMAIN nal
    /\ IsFirstSlice(nal) => {"pps", "poc"} \subseteq DOMAIN nal

\* i is the IDR's first dependent slice, and what precedes it are orphans.
AnchorAt(d, i) ==
    /\ d[i].type = 20 /\ d[i].access = 0
    /\ d[i].anchor = 1 \/ (d[1].access = 0 /\ d[i].anchor # 0)
    /\ \A j \in 1 .. i - 1 : d[j].type = 20 =>
           /\ d[j].access < 0
           /\ (\A k \in 1 .. j - 1 : d[k].type = 20 => d[k].access # d[j].access) => d[j].anchor = 0

Demuxed(b, d) ==
    /\ WellFormed(b) /\ WellFormed(d) /\ b # <<>> /\ d # <<>>
    /\ \A nal \in Range(b) \cup Range(d) : HasFields(nal)
    /\ OfOneStream(b, d)
    /\ InParts(b, "base") /\ InParts(d, "dependent")
    /\ b[1].access = 0 /\ d[1].access \in -8 .. 0
    /\ IF StartsAtIdr(b) THEN \E i \in DOMAIN d : AnchorAt(d, i) ELSE d[1].access = 0

ASSUME PairsAssumption == \A p \in Pairs : Demuxed(p.base, p.dep)

-----------------------------------------------------------------------------
(* build_interleaved_pass: the scan folded into the merge.                 *)

vars2 == <<pair, vars>>
OnlyHere == UNCHANGED <<pair, au_start, in_vcl>>

InitPair ==
    /\ pair \in Pairs
    /\ \E turn_b \in {Au(pair.base, "base")}, turn_d \in {DepTurns(pair.base, pair.dep)} :
           file = Spans(pair.base, pair.dep, turn_b, turn_d)
    /\ pass = "poc"
    /\ pos = 1 /\ au_start = 1 /\ in_vcl = FALSE
    /\ frames = 0 /\ is_mvc = FALSE /\ seen = {} /\ recovery_seen = FALSE
    /\ cvs = [base |-> 0, first_sp |-> 0] /\ pb = EmptyList
    /\ parser = FreshParser
    /\ idx = EmptyList /\ ps = EmptyList
    /\ num_pics = 0

\* Mutation: a seek point names the slice, not its unit.
SliceItself == pos

(* au_start_si: the first span of the turn; a base NAL, if it has any.     *)
UnitStart == Min({p \in 1 .. pos : file[p].unit = Nal.unit})

\* Mutation: sets of the base view only.
PushBaseSet ==
    ps' \in IF Nal.type \in ParamTypes /\ Nal.view = "base"
            THEN PushOrDrop(ps, [nal |-> pos, type |-> Nal.type, id |-> Nal.id], PsCap, "ps")
            ELSE {ps}

PushSet ==
    ps' \in IF Nal.type \in ParamTypes
            THEN PushOrDrop(ps, [nal |-> pos, type |-> Nal.type, id |-> Nal.id], PsCap, "ps")
            ELSE {ps}

ScanBasePicture ==
    /\ Scanning /\ Nal.view = "base"
    /\ TakePicture(UnitStart) \/ TakeIdr(UnitStart) \/ TakeIdrOnly(UnitStart)
    /\ CountOn /\ OnlyHere

ScanBaseNal ==
    /\ Scanning /\ Nal.view = "base" /\ ~Counted
    /\ PushSet
    /\ is_mvc' = (is_mvc \/ Nal.type = 15)
    /\ seen' = seen \cup ({Nal.type} \cap {7, 8})
    /\ parser' = IF pass = "poc" /\ Nal.type \in {7, 8} THEN Learned(Nal) ELSE parser
    /\ recovery_seen' = (recovery_seen \/ (pass = "poc" /\ Nal.type = 6 /\ Nal.exact))
    /\ pos' = pos + 1 /\ OnlyHere
    /\ UNCHANGED <<file, pass, frames, cvs, pb, idx, num_pics>>

\* Mutation: a recovery point SEI of either view counts.
HearsDependentSei ==
    /\ Scanning /\ Nal.view = "dependent"
    /\ PushSet
    /\ is_mvc' = (is_mvc \/ Nal.type \in {15, 20})
    /\ recovery_seen' = (recovery_seen \/ (Nal.type = 6 /\ Nal.exact))
    /\ pos' = pos + 1 /\ OnlyHere
    /\ UNCHANGED <<file, pass, frames, seen, cvs, pb, parser, idx, num_pics>>

(* The sets of the dependent view are kept but never parsed: they do not   *)
(* open the gate, nor does a recovery point of that view count.            *)
ScanDependentNal ==
    /\ Scanning /\ Nal.view = "dependent"
    /\ PushSet
    /\ is_mvc' = (is_mvc \/ Nal.type \in {15, 20})
    /\ pos' = pos + 1 /\ OnlyHere
    /\ UNCHANGED <<file, pass, frames, seen, recovery_seen, cvs, pb, parser, idx, num_pics>>

(* collect_view_nals or the span list runs out of memory, or there is no   *)
(* base picture to count: no index, and mvc_open2 fails.                   *)
Unbuilt ==
    /\ pass \in {"poc", "idr"}
    /\ (pos = 1 /\ "view" \in Faults) \/ (AtEnd /\ frames = 0)
    /\ pass' = "failed"
    /\ UNCHANGED <<pair, file, locals, idx, ps, num_pics>>

Built == Finish /\ frames > 0 /\ UNCHANGED pair

(* build_interleaved: all of the first pass is dropped.                    *)
Rebuild == Fallback /\ UNCHANGED pair

OverPair == pass \in {"done", "failed"} /\ UNCHANGED vars2

NextPair ==
    \/ ScanBasePicture \/ ScanBaseNal \/ ScanDependentNal
    \/ Unbuilt \/ Built \/ Rebuild \/ OverPair

SpecPair == InitPair /\ [][NextPair]_vars2

-----------------------------------------------------------------------------
(* "The exact per-AU order a combined MVC elementary stream carries"       *)
(* (mvcsource.c:1187): NAL for NAL, the spans are the stream the two files *)
(* were demuxed from, so that each base picture is followed by its own     *)
(* dependent view, orphans at the head or not.                             *)
PairsTrue == Len(file) = Len(pair.base) + Len(pair.dep) /\ \A p \in DOMAIN file : file[p].at = p
=============================================================================
