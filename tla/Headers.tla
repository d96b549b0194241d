------------------------------ MODULE Headers ------------------------------
(***************************************************************************)
(* The header parser of src/h264poc.h, with what src/mvcsource.c reads of a*)
(* NAL itself: the parameter sets, slice headers and recovery points that  *)
(* ScanIndex and Interleave take as given, here down to their bits.        *)
(*                                                                         *)
(* A NAL is a sequence of bytes.  It comes with its type, told, what its   *)
(* author put into it, and whole, that none of its bytes were lost; the    *)
(* parser sees its bytes and, from its caller, its type.                   *)
(***************************************************************************)
EXTENDS Integers, FiniteSetsExt, SequencesExt

CONSTANTS
    Streams,        \* the sequences of NALs that may be parsed
    Width,          \* bits of an unsigned int (32)
    Buf             \* bytes of each parser's buffer

ASSUME HeadersAssumption ==
    /\ Width \in Nat \ {0}
    /\ Buf \in [{"sps", "pps", "id", "picture", "sei"} -> Nat]

VARIABLES
    stream, pos,    \* the NALs, and the next of them
    ctx,            \* the H264PocCtx's parameter sets
    told            \* what was made of the last NAL

vars == <<stream, pos, ctx, told>>

-----------------------------------------------------------------------------
(* H264Bits: a reader knows its bytes, the bits it has read, whether it was*)
(* asked for more than there are, and got, by name, what it has read.      *)

\* f, with v for x.
With(f, x, v) == [y \in DOMAIN f \cup {x} |-> IF y = x THEN v ELSE f[y]]

h264_bits_init(d) == [d |-> d, pos |-> 0, err |-> FALSE, got |-> <<>>]

BitsLeft(r) == 8 * Len(r.d) - r.pos

\* The i-th bit ahead; zero past the end.
Ahead(r, i) ==
    LET at == r.pos + i
    IN  IF i >= BitsLeft(r) THEN 0 ELSE (r.d[at \div 8 + 1] \div 2 ^ (7 - (at % 8))) % 2

\* Mutation: what lies past the end reads as zeros, and that is all.
SkipSilently(r, n) == [r EXCEPT !.pos = @ + Min({n, BitsLeft(r)})]

Skip(r, n) ==
    [r EXCEPT !.pos = @ + Min({n, BitsLeft(r)}), !.err = @ \/ n > BitsLeft(r)]

Put(r, name, v) == [r EXCEPT !.got = With(@, name, v)]

\* The next n bits as a number.
Unsigned(r, n) ==
    LET v[k \in 0 .. n] == IF k = 0 THEN 0 ELSE (2 * v[k - 1] + Ahead(r, k - 1)) % 2 ^ Width
    IN  v[n]

h264_un(r, bits, name) ==
    LET n == IF bits > 0 THEN bits ELSE 0 IN Put(Skip(r, n), name, Unsigned(r, n))

\* A code word of Width zeros or more is corrupt, as is one that is cut off.
h264_ue(r, name) ==
    LET ones == {i \in 0 .. Width - 1 : Ahead(r, i) = 1}
        lz == Min(ones)
    IN  IF ones = {}
        THEN Put([Skip(r, Min({Width, BitsLeft(r)})) EXCEPT !.err = TRUE], name, 0)
        ELSE Put(Skip(r, 2 * lz + 1), name,
                 (2 ^ lz - 1 + Unsigned(Skip(r, lz + 1), lz)) % 2 ^ Width)

Signed(k) == IF k % 2 = 1 THEN (k + 1) \div 2 ELSE -(k \div 2)

h264_se(r, name) ==
    LET k == h264_ue(r, name) IN Put(k, name, Signed(k.got[name]))

\* The cast of an unsigned int to int.
AsInt(v) == IF v < 2 ^ (Width - 1) THEN v ELSE v - 2 ^ (Width - 1) - 2 ^ (Width - 1)

\* Syntax elements in a row; those no one asks for are "unused".
U(name, n) == [kind |-> "u", name |-> name, n |-> n]
UE(name) == [kind |-> "ue", name |-> name]
SE(name) == [kind |-> "se", name |-> name]

Element(r, e) ==
    CASE e.kind = "u" -> h264_un(r, e.n, e.name)
      [] e.kind = "ue" -> h264_ue(r, e.name)
      [] e.kind = "se" -> h264_se(r, e.name)

Elements(r, es) ==
    LET x[k \in 0 .. Len(es)] == IF k = 0 THEN r ELSE Element(x[k - 1], es[k])
    IN  x[Len(es)]

\* The payload without its emulation prevention, as far as the buffer goes.
h264_rbsp(nal, cap) ==
    LET step(x, b) ==
            IF Len(x.out) = cap THEN x
            ELSE IF x.zeros >= 2 /\ b = 3 THEN [x EXCEPT !.zeros = 0]
            ELSE [out |-> Append(x.out, b), zeros |-> IF b = 0 THEN x.zeros + 1 ELSE 0]
        x[k \in 0 .. Len(nal) - 1] ==
            IF k = 0 THEN [out |-> <<>>, zeros |-> 0] ELSE step(x[k - 1], nal[k + 1])
    IN  x[Len(nal) - 1].out

Payload(nal, buffer) == h264_bits_init(h264_rbsp(nal, Buf[buffer]))

-----------------------------------------------------------------------------
(* Parameter sets.  <<>> stands for a header that is refused.              *)

Refused == <<>>

NextScale(x) ==
    LET k == h264_se(x.r, "delta_scale")
        next == (x.last + k.got.delta_scale + 256) % 256
    IN  [last |-> IF next # 0 THEN next ELSE x.last, next |-> next, r |-> k]

\* Mutation: elements are read after the list has ended, too.
SkipWholeList(r, size) ==
    LET x[j \in 0 .. size] ==
            IF j = 0 THEN [last |-> 8, next |-> 8, r |-> r] ELSE NextScale(x[j - 1])
    IN  x[size].r

\* A list ends early at an element that makes the next scale zero.
h264_skip_scaling_list(r, size) ==
    LET step(x) == IF x.next = 0 THEN x ELSE NextScale(x)
        x[j \in 0 .. size] ==
            IF j = 0 THEN [last |-> 8, next |-> 8, r |-> r] ELSE step(x[j - 1])
    IN  x[size].r

HighProfiles == {100, 110, 122, 244, 44, 83, 86, 118, 128, 138, 139, 134, 135}

ColourPlane(r) ==
    IF r.got.chroma_format_idc = 3 THEN h264_un(r, 1, "separate_colour_plane") ELSE r

ScalingMatrix(r) ==
    LET lists == IF r.got.matrix = 0 THEN 0 ELSE IF r.got.chroma_format_idc # 3 THEN 8 ELSE 12
        skip(x, i) == IF x.got.list = 0 THEN x
                      ELSE h264_skip_scaling_list(x, IF i <= 6 THEN 16 ELSE 64)
        x[i \in 0 .. lists] == IF i = 0 THEN r ELSE skip(h264_un(x[i - 1], 1, "list"), i)
    IN  x[lists]

HighBlock(r) ==
    IF r.got.profile_idc \notin HighProfiles THEN r
    ELSE ScalingMatrix(Elements(ColourPlane(h264_ue(r, "chroma_format_idc")),
                                <<UE("unused"), UE("unused"), U("unused", 1), U("matrix", 1)>>))

\* The fields that depend on the type of the picture order count.
Offsets(r) ==
    LET cycle == IF AsInt(r.got.cycle) \in 1 .. 256 THEN AsInt(r.got.cycle) ELSE 0
        add(x) == Put(x, "offset_for_ref_frame", Append(x.got.offset_for_ref_frame, x.got.offset))
        x[i \in 0 .. cycle] == IF i = 0 THEN r ELSE add(h264_se(x[i - 1], "offset"))
    IN  x[cycle]

PocBlock(r) ==
    CASE r.got.poc_type = 0 -> h264_ue(r, "log2_max_poc_lsb_minus4")
      [] r.got.poc_type = 1 ->
            Offsets(Elements(r, <<U("delta_poc_always_zero", 1), SE("offset_for_non_ref_pic"), SE("unused"),
                                  UE("cycle")>>))
      [] OTHER -> r

\* What memset leaves of the fields that are not in an SPS.
Blank == [separate_colour_plane |-> 0, log2_max_poc_lsb_minus4 |-> 0, cycle |-> 0,
          delta_poc_always_zero |-> 0, offset_for_non_ref_pic |-> 0, offset_for_ref_frame |-> <<>>]

SpsFrom(r) ==
    LET g == r.got
        log2 == AsInt(g.log2_max_frame_num_minus4) + 4
        lsb == AsInt(g.log2_max_poc_lsb_minus4) + 4
    IN  IF r.err \/ g.id >= 32 \/ log2 > 16 \/ lsb > 16 \/ g.poc_type > 2 \/ AsInt(g.cycle) > 256
        THEN Refused
        ELSE [id |-> g.id, log2_max_frame_num |-> log2, poc_type |-> g.poc_type,
              log2_max_poc_lsb |-> IF g.poc_type = 0 THEN lsb ELSE 0,
              delta_poc_always_zero |-> g.delta_poc_always_zero,
              offset_for_non_ref_pic |-> g.offset_for_non_ref_pic,
              offset_for_ref_frame |-> g.offset_for_ref_frame,
              frame_mbs_only |-> g.frame_mbs_only, separate_colour_plane |-> g.separate_colour_plane]

SpsHead(r) == Elements([r EXCEPT !.got = Blank], <<U("profile_idc", 8), U("unused", 8), U("unused", 8), UE("id")>>)
SpsTypes(r) == Elements(r, <<UE("log2_max_frame_num_minus4"), UE("poc_type")>>)
SpsTail(r) == Elements(r, <<UE("unused"), U("unused", 1), UE("unused"), UE("unused"), U("frame_mbs_only", 1)>>)

\* The id and the fields the derivation needs, or Refused.
SpsIn(nal) == SpsFrom(SpsTail(PocBlock(SpsTypes(HighBlock(SpsHead(Payload(nal, "sps")))))))

PpsFrom(r) ==
    IF r.err \/ r.got.id >= 256 \/ r.got.sps_id >= 32 THEN Refused
    ELSE [id |-> r.got.id, sps_id |-> r.got.sps_id, bottom_field_poc_present |-> r.got.bottom]

PpsIn(nal) ==
    PpsFrom(Elements(Payload(nal, "pps"), <<UE("id"), UE("sps_id"), U("unused", 1), U("bottom", 1)>>))

\* -1 if it cannot be read.
h264_param_set_id(nal, type) ==
    LET x == Elements(Payload(nal, "id"), <<U("unused", IF type \in {7, 15} THEN 24 ELSE 0), UE("id")>>)
    IN  IF x.err \/ x.got.id > 255 THEN -1 ELSE x.got.id

-----------------------------------------------------------------------------
(* Slice headers and SEI.                                                  *)

NalType(nal) == nal[1] % 32

\* What stands between the sets' ids and the end of the fields.
PocElements(sps, pps, idr) ==
    <<U("frame_num", sps.log2_max_frame_num)>>
    \o (IF sps.frame_mbs_only = 0 THEN <<U("field", 1)>> ELSE <<>>)
    \o (IF idr THEN <<UE("unused")>> ELSE <<>>)
    \o (IF sps.poc_type = 0 THEN <<U("poc_lsb", sps.log2_max_poc_lsb)>>
        ELSE IF sps.poc_type = 2 \/ sps.delta_poc_always_zero = 1 THEN <<>>
        ELSE IF pps.bottom_field_poc_present = 1 THEN <<SE("delta_poc0"), SE("unused")>>
        ELSE <<SE("delta_poc0")>>)

PictureFrom(nal, r) ==
    IF r.err \/ r.got.field = 1 THEN Refused
    ELSE [idr |-> NalType(nal) = 5, ref |-> (nal[1] \div 32) % 4 # 0,
          intra |-> r.got.slice_type % 5 = 2, pps |-> r.got.pps, frame_num |-> r.got.frame_num,
          poc_lsb |-> r.got.poc_lsb, delta_poc0 |-> r.got.delta_poc0]

PictureAfter(c, nal, r) ==
    LET pps == c.pps[r.got.pps]
        sps == c.sps[pps.sps_id]
    IN  IF r.got.first_mb # 0 \/ r.err \/ r.got.pps \notin DOMAIN c.pps THEN Refused
        ELSE IF pps.sps_id \notin DOMAIN c.sps THEN Refused
        ELSE IF sps.separate_colour_plane = 1 THEN Refused
        ELSE PictureFrom(nal, Elements(r, PocElements(sps, pps, NalType(nal) = 5)))

\* The header h264_parse_picture derives the count from (PocDerive), or Refused.
PictureIn(c, nal) ==
    PictureAfter(c, nal, Elements([Payload(nal, "picture") EXCEPT !.got = [field |-> 0, poc_lsb |-> 0, delta_poc0 |-> 0]],
                               <<UE("first_mb"), UE("slice_type"), UE("pps")>>))

\* A number coded as bytes of 255 and a last one: its value and where it ends.
SeiNumber(d, i) ==
    LET last == {j \in i .. Len(d) : d[j] # 255}
    IN  IF last = {} THEN Refused
        ELSE [v |-> 255 * (Min(last) - i) + d[Min(last)], next |-> Min(last) + 1]

\* The first recovery point message decides.
h264_sei_is_recovery_point(nal) ==
    LET d == h264_rbsp(nal, Buf["sei"])
        found[i \in 1 .. Len(d) + 1] ==
            LET type == SeiNumber(d, i)
                size == SeiNumber(d, type.next)
                cnt == h264_ue(h264_bits_init(SubSeq(d, size.next, Len(d))), "cnt")
            IN  IF type = Refused THEN FALSE
                ELSE IF size = Refused THEN FALSE
                ELSE IF type.v = 6 THEN cnt.got.cnt = 0 /\ ~cnt.err
                ELSE size.next + size.v <= Len(d) /\ found[size.next + size.v]
    IN  found[1]

-----------------------------------------------------------------------------
(* What mvcsource.c reads of a slice.                                      *)

nal_is_pic_start(nal, type) ==
    \/ type \in {1, 5} /\ Len(nal) > 1 /\ nal[2] >= 128
    \/ type = 20 /\ Len(nal) > 4 /\ nal[5] >= 128

nal20_anchor_flag(nal) ==
    LET d == h264_rbsp(nal, 3)
    IN  IF Len(d) < 3 THEN -1 ELSE (d[3] \div 4) % 2

-----------------------------------------------------------------------------
(* A pass over the stream.                                                 *)

Init ==
    /\ stream \in Streams
    /\ pos = 1
    /\ ctx = [sps |-> <<>>, pps |-> <<>>]
    /\ told = Refused

Nal == stream[pos].bytes
Reading(types) == pos <= Len(stream) /\ stream[pos].type \in types /\ pos' = pos + 1 /\ UNCHANGED stream

\* A set that is refused leaves the one that had its id.
Learn(kind, type, set) ==
    /\ told' = [id |-> h264_param_set_id(Nal, type), set |-> set]
    /\ ctx' = IF set = Refused THEN ctx ELSE [ctx EXCEPT ![kind] = With(@, set.id, set)]

ReadSps == Reading({7}) /\ Learn("sps", 7, SpsIn(Nal))
ReadPps == Reading({8}) /\ Learn("pps", 8, PpsIn(Nal))

\* Mutation: a subset SPS is parsed as an SPS.
LearnSubset == Reading({13, 15}) /\ Learn("sps", stream[pos].type, SpsIn(Nal))

\* The sets that are fed to the decoder only.
ReadOtherSet == Reading({13, 15}) /\ Learn("sps", stream[pos].type, Refused)

ReadSei ==
    /\ Reading({6})
    /\ told' = [exact |-> h264_sei_is_recovery_point(Nal)]
    /\ UNCHANGED ctx

ReadPicture ==
    /\ Reading({1, 5})
    /\ told' = [first |-> nal_is_pic_start(Nal, NalType(Nal)), header |-> PictureIn(ctx, Nal)]
    /\ UNCHANGED ctx

ReadDependent ==
    /\ Reading({20})
    /\ told' = [first |-> nal_is_pic_start(Nal, 20), anchor |-> nal20_anchor_flag(Nal)]
    /\ UNCHANGED ctx

Over == pos > Len(stream) /\ UNCHANGED vars

Next == ReadSps \/ ReadPps \/ ReadOtherSet \/ ReadSei \/ ReadPicture \/ ReadDependent \/ Over

Spec == Init /\ [][Next]_vars

-----------------------------------------------------------------------------
(* Properties                                                              *)

\* What a field of told says of a header that cannot be read.
Nothing(f) == CASE f \in {"set", "header"} -> Refused
                [] f \in {"id", "anchor"} -> -1
                [] f \in {"first", "exact"} -> FALSE

Written == stream[pos - 1].told
Intact == \A i \in 1 .. pos - 1 : stream[i].whole

\* The parser reads what was written: sets and their ids, the fields of slice
\* headers, which slice starts a picture, anchors, recovery points.
ReadsBack == pos > 1 /\ Intact => told = Written

\* "A truncated/corrupt header degrades to a failed parse" (h264poc.h:46): once
\* bytes have been lost each header is read as it was written or not at all.
CutRefused ==
    pos > 1 /\ ~Intact =>
        \A f \in DOMAIN told : told[f] = Written[f] \/ told[f] = Nothing(f)

\* A slice finds the sets that are in force: each the last one of its type and
\* id that the parser can use, and none of the dependent view's (h264poc.h:148).
SetsInForce ==
    LET InForce(type, i) ==
            /\ stream[i].type = type /\ stream[i].told.set # Refused
            /\ \A j \in i + 1 .. pos - 1 :
                   stream[j].type = type /\ stream[j].told.set # Refused
                       => stream[j].told.id # stream[i].told.id
    IN  Intact =>
            /\ Range(ctx.sps) = {stream[i].told.set : i \in {j \in 1 .. pos - 1 : InForce(7, j)}}
            /\ Range(ctx.pps) = {stream[i].told.set : i \in {j \in 1 .. pos - 1 : InForce(8, j)}}
=============================================================================
