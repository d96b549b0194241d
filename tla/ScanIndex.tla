----------------------------- MODULE ScanIndex -----------------------------
(***************************************************************************)
(* The stream scan of src/mvcsource.c: scan_index and scan_index_pass walk *)
(* the file NAL by NAL, count the base pictures and record the seek points *)
(* and the parameter sets, without decoding.  A first pass derives picture *)
(* order counts; when it meets what it cannot model, or runs out of        *)
(* memory, it is thrown away and a second pass records IDRs only.          *)
(*                                                                         *)
(* A file is a sequence of NALs, named by their positions.  A NAL is a     *)
(* record: type; for a parameter set, id (-1: unreadable), what it says,   *)
(* sps, and of an SPS or a PPS whether all of it can be used (usable: see  *)
(* Headers for which the parser refuses); for an SEI, exact (a recovery point with frame count 0); for *)
(* a base slice, first (first_mb_in_slice = 0) and, if so, the header      *)
(* fields of PocDerive.  Two more fields are no part of the header: poc,   *)
(* the picture order count the standard gives the picture, and mmco5, that *)
(* the picture resets the count; the scan reads neither.                   *)
(***************************************************************************)
EXTENDS PocDerive, FiniteSetsExt

CONSTANTS
    Files,      \* the streams that may be scanned
    Faults,     \* the allocations that may fail, a subset of FaultKinds
    IdxCap,     \* first capacity of the seek point list (256)
    PsCap,      \* of the parameter set list (16)
    PocCap      \* of the POC buffer (1024)

\* The lists that may not grow; "view": those of the two-file build.
FaultKinds == {"idx", "ps", "poc", "view"}

ASSUME CapsAssumption ==
    /\ IdxCap \in Nat \ {0} /\ PsCap \in Nat \ {0} /\ PocCap \in Nat \ {0}
    /\ Faults \subseteq FaultKinds

\* What is read of a NAL is what its type has: a set's id (of a PPS, its SPS's
\* too) and whether the parser takes it, whether a base slice is a picture's first, that one's PPS and count.
WellFormed(f) ==
    /\ f \in Seq(Range(f))
    /\ \A p \in DOMAIN f :
           /\ f[p].type \in {7, 8, 13, 15} => f[p].id \in -1..255
           /\ f[p].type \in {7, 8} => f[p].usable \in BOOLEAN
           /\ f[p].type = 8 => f[p].sps \in Nat
           /\ f[p].type \in {1, 5} => f[p].first \in BOOLEAN
           /\ f[p].type \in {1, 5} /\ f[p].first => f[p].pps \in Nat /\ f[p].poc \in Int

ASSUME FilesAssumption == \A f \in Files : WellFormed(f)

VARIABLES
    file,
    pass,            \* "poc", "idr" or "done"
    pos,             \* p: the NAL under the scan
    au_start,        \* start of the current access unit's leading NALs
    in_vcl,
    frames,
    is_mvc,
    seen,            \* the types among 7 and 8 that have appeared
    recovery_seen,
    cvs,             \* cvs_base and cvs_first_sp
    pb,              \* POCs of the current sequence, in decode order
    parser,          \* H264PocCtx: parameter sets and derivation state
    idx,             \* the seek points
    ps,              \* the parameter sets
    num_pics

locals == <<pos, au_start, in_vcl, frames, is_mvc, seen, recovery_seen, cvs, pb, parser>>
vars == <<file, pass, locals, idx, ps, num_pics>>

-----------------------------------------------------------------------------
(* Growing lists: v, and the capacity allocated *)

EmptyList == [v |-> <<>>, cap |-> 0]

\* realloc is called, and may fail, only when the list is full.
IsFull(list) == Len(list.v) = list.cap

Pushed(list, x, first_cap) ==
    [v |-> Append(list.v, x),
     cap |-> IF ~IsFull(list) THEN list.cap
             ELSE IF list.cap = 0 THEN first_cap ELSE 2 * list.cap]

\* Out of memory, idx_push and ps_push drop the element and go on.
PushOrDrop(list, x, first_cap, fault) ==
    {Pushed(list, x, first_cap)}
        \cup {l \in {list} : IsFull(list) /\ fault \in Faults}

-----------------------------------------------------------------------------
(* NALs *)

Nal == file[pos]
ParamTypes == {7, 8, 13, 15}
IsVcl(type) == type \in (1..5) \cup {19, 20}
IsFirstSlice(nal) == nal.type \in {1, 5} /\ nal.first

Scanning == pass \in {"poc", "idr"} /\ pos \in DOMAIN file

\* Mutation: slices are counted from the first on.
NoGate == TRUE

\* A base picture is counted once an SPS and a PPS have appeared.
GateOpen == seen = {7, 8}

Counted == IsFirstSlice(Nal) /\ GateOpen

\* A leading NAL after VCL NALs starts the next access unit.
LeadsAu ==
    /\ au_start' = IF in_vcl THEN pos ELSE au_start
    /\ in_vcl' = FALSE

\* Mutation: only a leading NAL starts an access unit.
FrozenAuStart == au_start

\* A picture that directly follows VCL NALs starts its access unit itself.
PictureAuStart == IF in_vcl THEN pos ELSE au_start

-----------------------------------------------------------------------------
(* The start of a pass *)

FreshParser == [sps |-> [id \in {} |-> 0], pps |-> [id \in {} |-> 0], ctx |-> h264_poc_reset]

FreshLocals ==
    /\ pos' = 1 /\ au_start' = 1 /\ in_vcl' = FALSE
    /\ frames' = 0 /\ is_mvc' = FALSE /\ seen' = {} /\ recovery_seen' = FALSE
    /\ cvs' = [base |-> 0, first_sp |-> 0] /\ pb' = EmptyList
    /\ parser' = FreshParser

Init ==
    /\ file \in Files
    /\ pass = "poc"
    /\ pos = 1 /\ au_start = 1 /\ in_vcl = FALSE
    /\ frames = 0 /\ is_mvc = FALSE /\ seen = {} /\ recovery_seen = FALSE
    /\ cvs = [base |-> 0, first_sp |-> 0] /\ pb = EmptyList
    /\ parser = FreshParser
    /\ idx = EmptyList /\ ps = EmptyList
    /\ num_pics = 0

-----------------------------------------------------------------------------
(* Leading NALs and the slices that start no picture *)

\* A set replaces an earlier one with its id.
With(sets, id, what) ==
    [i \in DOMAIN sets \cup {id} |-> IF i = id THEN what ELSE sets[i]]

\* Mutation: a set takes its place as soon as its id is read.
LearnedUnchecked(nal) ==
    CASE nal.type = 7 /\ nal.id # -1 -> [parser EXCEPT !.sps = With(@, nal.id, nal.sps)]
      [] nal.type = 8 /\ nal.id # -1 -> [parser EXCEPT !.pps = With(@, nal.id, nal.sps)]
      [] OTHER -> parser

\* h264_parse_sps and h264_parse_pps store nothing of a set they refuse.
Learned(nal) ==
    CASE nal.type = 7 /\ nal.id # -1 /\ nal.usable -> [parser EXCEPT !.sps = With(@, nal.id, nal.sps)]
      [] nal.type = 8 /\ nal.id # -1 /\ nal.usable -> [parser EXCEPT !.pps = With(@, nal.id, nal.sps)]
      [] OTHER -> parser

ScanParamSet ==
    /\ Scanning /\ Nal.type \in ParamTypes
    /\ LeadsAu
    /\ is_mvc' = (is_mvc \/ Nal.type = 15)
    /\ seen' = seen \cup ({Nal.type} \cap {7, 8})
    /\ ps' \in PushOrDrop(ps, [nal |-> pos, type |-> Nal.type, id |-> Nal.id], PsCap, "ps")
    /\ parser' = IF pass = "poc" THEN Learned(Nal) ELSE parser
    /\ pos' = pos + 1
    /\ UNCHANGED <<file, pass, frames, recovery_seen, cvs, pb, idx, num_pics>>

ScanOtherLeading ==
    /\ Scanning /\ ~IsVcl(Nal.type) /\ Nal.type \notin ParamTypes
    /\ LeadsAu
    /\ recovery_seen' = (recovery_seen \/ (pass = "poc" /\ Nal.type = 6 /\ Nal.exact))
    /\ pos' = pos + 1
    /\ UNCHANGED <<file, pass, frames, is_mvc, seen, cvs, pb, parser, idx, ps, num_pics>>

ScanSlice ==
    /\ Scanning /\ IsVcl(Nal.type) /\ ~Counted
    /\ in_vcl' = TRUE
    /\ is_mvc' = (is_mvc \/ Nal.type = 20)
    /\ pos' = pos + 1
    /\ UNCHANGED <<file, pass, au_start, frames, seen, recovery_seen, cvs, pb, parser,
                   idx, ps, num_pics>>

-----------------------------------------------------------------------------
(* flush_cvs: the POCs of a finished sequence become display indices *)

\* The guard against a reset of the count that the derivation did not see.
UniquePocs == IsInjective(pb.v)

RankOf(poc) == Cardinality({j \in DOMAIN pb.v : pb.v[j] < poc})

\* Mutation: the sequence's base is forgotten.
Unbased ==
    [idx EXCEPT !.v = [i \in DOMAIN @ |->
        IF i <= cvs.first_sp THEN @[i]
        ELSE [@[i] EXCEPT !.valid_from = RankOf(pb.v[idx.v[i].frame - cvs.base + 1])]]]

Ranked ==
    LET rank(sp) == RankOf(pb.v[sp.frame - cvs.base + 1])
        display(i) ==
            IF i <= cvs.first_sp THEN idx.v[i]
            ELSE [idx.v[i] EXCEPT !.valid_from = cvs.base + rank(idx.v[i])]
    IN  [idx EXCEPT !.v = [i \in DOMAIN @ |-> display(i)]]

\* flush_cvs on a buffer with nothing in it leaves the seek points alone.
flush_cvs == IF pb.v = <<>> THEN idx ELSE Ranked

-----------------------------------------------------------------------------
(* Base pictures *)

\* h264_parse_picture succeeds: the sets are known, no field coding.
Parsable(nal) ==
    /\ nal.plain
    /\ nal.pps \in DOMAIN parser.pps
    /\ parser.pps[nal.pps] \in DOMAIN parser.sps

Derived == DerivePoc(parser.ctx, parser.sps[parser.pps[Nal.pps]], Nal)

SeekPointAt(unit) == [nal |-> unit, frame |-> frames, valid_from |-> frames]

\* Mutation: any I picture will do.
AnyIntra == Nal.intra

IsRandomAccess == IsIdr(Nal) \/ (recovery_seen /\ Nal.intra)

\* A picture that continues the current sequence; unit is where its access
\* unit starts.
TakePicture(unit) ==
    /\ Scanning /\ pass = "poc" /\ Counted /\ ~IsIdr(Nal) /\ Parsable(Nal)
    /\ parser' = [parser EXCEPT !.ctx = Derived.ctx]
    /\ pb' = Pushed(pb, Derived.poc, PocCap)
    /\ idx' \in IF IsRandomAccess THEN PushOrDrop(idx, SeekPointAt(unit), IdxCap, "idx") ELSE {idx}
    /\ UNCHANGED cvs

\* An IDR ends the previous sequence and starts a new one; the derivation state
\* is reset after the IDR's own header has been parsed.
TakeIdr(unit) ==
    /\ Scanning /\ pass = "poc" /\ Counted /\ IsIdr(Nal) /\ Parsable(Nal) /\ UniquePocs
    /\ parser' = [parser EXCEPT !.ctx = h264_poc_reset]
    /\ pb' = Pushed([pb EXCEPT !.v = <<>>], Derived.poc, PocCap)
    /\ cvs' = [base |-> frames, first_sp |-> Len(idx.v)]
    /\ idx' \in PushOrDrop(flush_cvs, SeekPointAt(unit), IdxCap, "idx")

\* The second pass parses no headers and takes IDRs only.
TakeIdrOnly(unit) ==
    /\ Scanning /\ pass = "idr" /\ Counted
    /\ idx' \in IF IsIdr(Nal) THEN PushOrDrop(idx, SeekPointAt(unit), IdxCap, "idx") ELSE {idx}
    /\ UNCHANGED <<cvs, pb, parser>>

CountOn ==
    /\ frames' = frames + 1
    /\ recovery_seen' = FALSE
    /\ pos' = pos + 1
    /\ UNCHANGED <<file, pass, is_mvc, seen, ps, num_pics>>

CountPicture == au_start' = PictureAuStart /\ in_vcl' = TRUE /\ CountOn

ScanPicture == TakePicture(PictureAuStart) /\ CountPicture
ScanIdr == TakeIdr(PictureAuStart) /\ CountPicture
ScanPictureIdrOnly == TakeIdrOnly(PictureAuStart) /\ CountPicture

-----------------------------------------------------------------------------
(* The end of a pass, and the fallback *)

AtEnd == pos > Len(file)

\* The stream is outside the derivation's scope.
Defeated ==
    \/ Scanning /\ Counted /\ (~Parsable(Nal) \/ (IsIdr(Nal) /\ ~UniquePocs))
    \/ AtEnd /\ ~UniquePocs

\* An allocation of the first pass fails: the parser's state before the first
\* NAL, the POC buffer at a picture, the sorted copy at the end of a sequence.
Starved ==
    /\ "poc" \in Faults
    /\ \/ pos = 1
       \/ Scanning /\ Counted /\ (IsFull(pb) \/ (IsIdr(Nal) /\ pb.v # <<>>))
       \/ AtEnd /\ pb.v # <<>>

\* Mutation: the first pass's seek points stay.
KeptSeekPoints == idx

DroppedSeekPoints == [idx EXCEPT !.v = <<>>]

\* scan_index throws the first pass away whole; the lists keep their memory.
Fallback ==
    /\ pass = "poc"
    /\ Defeated \/ Starved
    /\ pass' = "idr"
    /\ FreshLocals
    /\ idx' = DroppedSeekPoints
    /\ ps' = [ps EXCEPT !.v = <<>>]
    /\ UNCHANGED <<file, num_pics>>

Finish ==
    /\ pass \in {"poc", "idr"} /\ AtEnd
    /\ pass = "poc" => UniquePocs
    /\ idx' = IF pass = "poc" THEN flush_cvs ELSE idx
    /\ num_pics' = frames
    /\ pass' = "done"
    /\ UNCHANGED <<file, locals, ps>>

\* scan_index has returned.
Over == pass = "done" /\ UNCHANGED vars

Next ==
    \/ ScanParamSet \/ ScanOtherLeading \/ ScanSlice
    \/ ScanPicture \/ ScanIdr \/ ScanPictureIdrOnly
    \/ Fallback \/ Finish \/ Over

Spec == Init /\ [][Next]_vars

-----------------------------------------------------------------------------
(* What a decoder makes of the file (external).  It keeps no SPS or PPS     *)
(* that cannot be used, drops a slice whose sets it has not seen (EBADMSG), *)
(* and puts the pictures of a sequence out in POC order, a new sequence     *)
(* starting at an IDR and at a picture that resets the count.               *)

SentBefore(type, id, p) ==
    {i \in 1..p - 1 : file[i].type = type /\ file[i].id = id}

\* Of those, with type 7 or 8: the sets a decoder keeps.
SetBefore(type, id, p) == {i \in SentBefore(type, id, p) : file[i].usable}

\* The set of a type and id in force at p.
ActiveAt(type, id, p) == Max(SetBefore(type, id, p))

CanDecode(p) ==
    /\ SetBefore(8, file[p].pps, p) # {}
    /\ SetBefore(7, file[ActiveAt(8, file[p].pps, p)].sps, p) # {}

Decoded == {p \in DOMAIN file : IsFirstSlice(file[p]) /\ CanDecode(p)}
Resets(p) == IsIdr(file[p]) \/ file[p].mmco5
Sequence(p) == Cardinality({q \in Decoded : q <= p /\ Resets(q)})
ShownBefore(q, p) ==
    \/ Sequence(q) < Sequence(p)
    \/ Sequence(q) = Sequence(p) /\ file[q].poc < file[p].poc

DecodeIndex(p) == Cardinality({q \in Decoded : q < p})
DisplayIndex(p) == Cardinality({q \in Decoded : ShownBefore(q, p)})

\* The leading NALs of the picture at p, and p itself.
AccessUnitOf(p) ==
    LET vcl == {q \in 1..p - 1 : IsVcl(file[q].type)}
    IN  (IF vcl = {} THEN 1 ELSE Max(vcl) + 1)..p

IsRecoveryPoint(p) ==
    /\ file[p].intra
    /\ \E q \in AccessUnitOf(p) : file[q].type = 6 /\ file[q].exact

-----------------------------------------------------------------------------
(* refeed_param_sets: what a new decoder is fed before a seek point *)

\* The sets before the seek point: the list is walked while they precede it.
Preceding(sp) == {i \in DOMAIN ps.v : \A j \in 1..i : ps.v[j].nal < sp.nal}

\* Mutation: the first set of a kind and id wins.
Earliest(i, sp) ==
    ~ \E j \in Preceding(sp) : j < i /\ ps.v[j].type = ps.v[i].type /\ ps.v[j].id = ps.v[i].id

\* No later set before the seek point has its kind and id.
Overrides(i, sp) ==
    ~ \E j \in Preceding(sp) : j > i /\ ps.v[j].type = ps.v[i].type /\ ps.v[j].id = ps.v[i].id

Refed(sp) == {i \in Preceding(sp) : ps.v[i].id = -1 \/ Overrides(i, sp)}

-----------------------------------------------------------------------------
(* Properties *)

Done == pass = "done"
SeekPoints == Range(idx.v)

\* Every variable keeps to its type; a seek point lies within the file and
\* within the pictures counted so far.
TypeOK ==
    /\ pass \in {"poc", "idr", "done"}
    /\ pos \in 1..Len(file) + 1
    /\ au_start \in 1..pos
    /\ {in_vcl, is_mvc, recovery_seen} \subseteq BOOLEAN
    /\ frames \in 0..pos - 1 /\ num_pics \in 0..Len(file)
    /\ seen \subseteq {7, 8}
    /\ cvs.base \in 0..frames /\ cvs.first_sp \in 0..Len(idx.v)
    /\ pass = "poc" => Len(pb.v) = frames - cvs.base
    /\ Len(pb.v) <= pb.cap /\ Len(idx.v) <= idx.cap /\ Len(ps.v) <= ps.cap
    /\ SeekPoints \subseteq [nal : 1..Len(file), frame : 0..frames - 1, valid_from : Nat]
    /\ Range(ps.v) \subseteq [nal : 1..Len(file), type : ParamTypes, id : -1..255]

\* "Blind output count == scan count" (mvcsource.c:761): the pictures counted
\* are those the decoder will put out, whichever pass counted them.
CountTrue == Done => num_pics = Cardinality(Decoded)

\* A seek point's frame counts the pictures decoded before it, its valid_from is
\* its own display index ("what a seek binary-searches on", mvcsource.c:44), and
\* it stands at a random-access point: "never wrong" (mvcsource.c:741).
SeekPointsTrue ==
    Done => \A sp \in SeekPoints : \E p \in Decoded :
        /\ sp.frame = DecodeIndex(p)
        /\ sp.valid_from = DisplayIndex(p)
        /\ IsIdr(file[p]) \/ IsRecoveryPoint(p)

\* A decode that starts at a seek point gets all of its access unit's leading
\* NALs and nothing of the unit before.
SeekAtBoundary ==
    Done => \A sp \in SeekPoints : \E p \in Decoded :
        sp.frame = DecodeIndex(p) /\ sp.nal = Min(AccessUnitOf(p))

\* The stream as the frame server will know it.
StreamFound ==
    LET picture(k) == CHOOSE p \in Decoded : DecodeIndex(p) = k
    IN  [disp |-> [k \in 0..num_pics - 1 |-> DisplayIndex(picture(k))],
         rap |-> {sp.frame : sp \in SeekPoints},
         mono |-> {}]

Served == INSTANCE StreamModel WITH NumPics <- num_pics

\* What the scan hands to the frame server is what that relies on: a cold decode
\* from any seek point yields every later display index.
HandsOverStream == Done => Served!Conforming(StreamFound)

\* "Feeding just the last of each leaves the decoder in the identical state"
\* (mvcsource.c:890): at every seek point, a new decoder is given the last set of
\* each type and id that a linear decode would have been fed there.
RefeedTrue ==
    Done /\ "ps" \notin Faults => \A sp \in SeekPoints :
        \A q \in 1..sp.nal - 1 : file[q].type \in ParamTypes =>
            ((\E i \in Refed(sp) : ps.v[i].nal = q) <=>
                file[q].id = -1 \/ q = Max(SentBefore(file[q].type, file[q].id, sp.nal)))
=============================================================================
