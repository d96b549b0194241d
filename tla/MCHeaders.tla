------------------------------ MODULE MCHeaders -----------------------------
(***************************************************************************)
(* Instances of Headers for TLC: headers written bit by bit as the syntax  *)
(* tables of H.264 have them (7.3.1, 7.3.2, 7.3.3), escaped, and cut.      *)
(***************************************************************************)
EXTENDS Headers

Bits(v, n) == [i \in 1 .. n |-> (v \div 2 ^ (n - i)) % 2]
Ue(v) == LET n == Max({k \in 0 .. Width - 1 : 2 ^ k <= v + 1}) IN Bits(0, n) \o Bits(v + 1, n + 1)
Se(v) == Ue(IF v > 0 THEN 2 * v - 1 ELSE -2 * v)
Ses(vs) == FlattenSeq([i \in DOMAIN vs |-> Se(vs[i])])

\* rbsp_trailing_bits, and the bytes.
Bytes(bits) ==
    LET b == bits \o <<1>> \o Bits(0, 7 - (Len(bits) % 8))
    IN  [i \in 1 .. Len(b) \div 8 |-> FoldLeft(LAMBDA v, x : 2 * v + x, 0, SubSeq(b, 8 * i - 7, 8 * i))]

Escaped(bytes) ==
    LET step(x, b) ==
            LET esc == x.zeros >= 2 /\ b <= 3
            IN  [out |-> x.out \o (IF esc THEN <<3>> ELSE <<>>) \o <<b>>,
                 zeros |-> IF b # 0 THEN 0 ELSE IF esc THEN 1 ELSE x.zeros + 1]
    IN  FoldLeft(step, [out |-> <<>>, zeros |-> 0], bytes).out

NalOf(type, ref, bytes, tells) ==
    [type |-> type, bytes |-> <<32 * ref + type>> \o Escaped(bytes), told |-> tells, whole |-> TRUE]

-----------------------------------------------------------------------------
(* Sequence parameter sets: "high" is the block of the high profiles.      *)

\* A scaling list as its deltas; nothing for one that is not sent.
Repeat(n, x) == [i \in 1 .. n |-> x]

Flat == <<8>> \o Repeat(15, 0)
Early == <<2, -10>>
Lists(present) == FlattenSeq([i \in DOMAIN present |->
    IF present[i] = <<>> THEN <<0>> ELSE <<1>> \o Ses(present[i])])

\* High, 4:2:0 and flat; with lists, one of them cut short; 4:4:4.
Highs == {[profile |-> 77, bits |-> <<>>, plane |-> 0],
          [profile |-> 100, bits |-> Ue(1) \o Ue(0) \o Ue(0) \o <<0, 0>>, plane |-> 0],
          [profile |-> 118, plane |-> 0,
           bits |-> Ue(1) \o Ue(2) \o Ue(0) \o <<0, 1>>
                    \o Lists(<<Flat, Early, <<>>, <<-8>>, <<>>, <<>>, Early, <<>>>>)],
          [profile |-> 244, plane |-> 0, bits |-> Ue(3) \o <<0>> \o Ue(0) \o Ue(0) \o <<0, 1>>
                                                  \o Lists(<<Early>> \o Repeat(10, <<>>) \o <<Early>>)],
          [profile |-> 244, plane |-> 1, bits |-> Ue(3) \o <<1>> \o Ue(0) \o Ue(0) \o <<0, 0>>]}

Poc(type, lsb, zero, nonref, cycle) ==
    [type |-> type, lsb |-> lsb, zero |-> zero, nonref |-> nonref, cycle |-> cycle]

\* The cycle's offsets are as wide as they come; type 3 does not exist.
Pocs == {Poc(0, 4, 0, 0, <<>>), Poc(0, 16, 0, 0, <<>>), Poc(0, 17, 0, 0, <<>>),
         Poc(1, 0, 0, -2, <<2, 4>>), Poc(1, 0, 1, 2 ^ (Width - 2), <<-(2 ^ (Width - 2))>>),
         Poc(2, 0, 0, 0, <<>>), Poc(3, 0, 0, 0, <<>>)}

PocBits(p) ==
    Ue(p.type) \o (CASE p.type = 0 -> Ue(p.lsb - 4)
                     [] p.type = 1 -> <<p.zero>> \o Se(p.nonref) \o Se(0) \o Ue(Len(p.cycle)) \o Ses(p.cycle)
                     [] OTHER -> <<>>)

SpsOf(type, id, high, log2, p, mbs) ==
    LET inScope == type = 7 /\ id < 32 /\ log2 <= 16 /\ p.type # 3 /\ p.lsb <= 16
        set == [id |-> id, log2_max_frame_num |-> log2, poc_type |-> p.type,
                log2_max_poc_lsb |-> p.lsb, delta_poc_always_zero |-> p.zero,
                offset_for_non_ref_pic |-> p.nonref, offset_for_ref_frame |-> p.cycle,
                frame_mbs_only |-> mbs, separate_colour_plane |-> high.plane]
    IN  NalOf(type, 3,
              Bytes(Bits(high.profile, 8) \o Bits(0, 8) \o Bits(40, 8) \o Ue(id) \o high.bits
                    \o Ue(log2 - 4) \o PocBits(p)
                    \o Ue(4) \o <<0>> \o Ue(119) \o Ue(67) \o <<mbs>> \o <<1, 0, 0>>),
              [id |-> IF id > 255 THEN -1 ELSE id, set |-> IF inScope THEN set ELSE Refused])

PpsOf(id, sps, bottom) ==
    NalOf(8, 3, Bytes(Ue(id) \o Ue(sps) \o <<1, bottom>> \o Ue(0) \o Ue(0)),
          [id |-> IF id > 255 THEN -1 ELSE id,
           set |-> IF id > 255 THEN Refused
                   ELSE [id |-> id, sps_id |-> sps, bottom_field_poc_present |-> bottom]])

-----------------------------------------------------------------------------
(* Slices and messages.                                                    *)

\* v: first_mb_in_slice, type, frame_num, field, lsb or delta.
SliceOf(sps, pps, idr, ref, v) ==
    LET s == sps.told.set
        p == pps.told.set
        plain == v.first = 0 /\ ~(s.frame_mbs_only = 0 /\ v.field = 1) /\ s.separate_colour_plane = 0
        delta == s.poc_type = 1 /\ s.delta_poc_always_zero = 0
    IN  NalOf(IF idr THEN 5 ELSE 1, ref,
              Bytes(Ue(v.first) \o Ue(v.type) \o Ue(p.id)
                    \o (IF s.separate_colour_plane = 1 THEN <<0, 0>> ELSE <<>>)
                    \o Bits(v.num, s.log2_max_frame_num)
                    \o (IF s.frame_mbs_only = 0 THEN <<v.field>> \o Repeat(v.field, 0) ELSE <<>>)
                    \o (IF idr THEN Ue(1) ELSE <<>>)
                    \o (IF s.poc_type = 0 THEN Bits(v.poc, s.log2_max_poc_lsb) ELSE <<>>)
                    \o (IF delta THEN Se(v.poc) \o (IF p.bottom_field_poc_present = 1 THEN Se(-1) ELSE <<>>)
                                 ELSE <<>>)
                    \o Repeat(9, 1)),
              [first |-> v.first = 0,
               header |-> IF ~plain THEN Refused
                          ELSE [idr |-> idr, ref |-> ref # 0, intra |-> v.type \in {2, 7}, pps |-> p.id,
                                frame_num |-> v.num, poc_lsb |-> IF s.poc_type = 0 THEN v.poc ELSE 0,
                                delta_poc0 |-> IF delta THEN v.poc ELSE 0]])

Fields(first, type, num, field, poc) ==
    [first |-> first, type |-> type, num |-> num, field |-> field, poc |-> poc]

Message(type, size, payload) ==
    Repeat(type \div 255, 255) \o <<type % 255>> \o Repeat(size \div 255, 255) \o <<size % 255>> \o payload

SeiOf(messages, exact) == NalOf(6, 0, FlattenSeq(messages) \o <<128>>, [exact |-> exact])

\* recovery_frame_cnt, exact_match_flag, broken_link_flag, changing_slice_group_idc
Recovery(cnt) == LET b == Bytes(Ue(cnt) \o <<1, 0, 0, 0>>) IN Message(6, Len(b), b)

Seis == {SeiOf(<<Recovery(0)>>, TRUE), SeiOf(<<Recovery(1)>>, FALSE),
         SeiOf(<<Message(1, 2, <<6, 1>>), Recovery(0)>>, TRUE),
         SeiOf(<<Message(261, 1, <<128>>), Recovery(0)>>, TRUE),
         SeiOf(<<Message(5, 4, <<0, 0, 0, 0>>), Recovery(0)>>, TRUE),
         SeiOf(<<Message(1, 3, <<6, 1, 196>>)>>, FALSE)}

\* nal_unit_header_mvc_extension and a slice of the dependent view.
Extensions == {NalOf(20, 2, Bytes(<<0, nonIdr>> \o Bits(priority, 6) \o Bits(view, 10) \o Bits(temporal, 3)
                                  \o <<anchor, 1, 1>> \o Ue(first) \o Ue(2) \o Ue(1)),
                     [first |-> first = 0, anchor |-> anchor]) :
                  nonIdr \in {0, 1}, priority \in {0, 63}, view \in {1, 4}, temporal \in {0, 2},
                  anchor \in {0, 1}, first \in {0, 3}}

-----------------------------------------------------------------------------
(* Streams.                                                                *)

Plain == CHOOSE h \in Highs : h.profile = 77
Base == SpsOf(7, 0, Plain, 4, Poc(0, 4, 0, 0, <<>>), 1)

\* Every parameter set that is worth writing, in scope or not.
Sets == {SpsOf(k[1], k[2], high, log2, poc, mbs) :
            k \in {<<7, 0>>, <<7, 31>>, <<15, 0>>}, high \in Highs, log2 \in {4, 16}, poc \in Pocs,
            mbs \in {0, 1}}
        \cup {SpsOf(7, id, Plain, log2, Poc(2, 0, 0, 0, <<>>), 1) : id \in {32, 256}, log2 \in {4, 17}}
        \cup {PpsOf(id, sps, bottom) : id \in {0, 255, 256}, sps \in {0, 31}, bottom \in {0, 1}}

\* The sets that slices are parsed with.
Used == {SpsOf(7, 0, Plain, log2, poc, mbs) : log2 \in {4, 16}, mbs \in {0, 1},
             poc \in {p \in Pocs : p.type # 3 /\ p.lsb <= 16}}
        \cup {SpsOf(7, 0, high, 4, Poc(2, 0, 0, 0, <<>>), 1) : high \in {h \in Highs : h.plane = 1}}

SlicesWith(sps, pps) ==
    {<<sps, pps, SliceOf(sps, pps, k[1], k[2], Fields(first, type, num, field, poc))>> :
        k \in {<<TRUE, 3>>, <<FALSE, 3>>, <<FALSE, 0>>}, first \in {0, 7}, type \in {5, 7},
        num \in {0, 2 ^ sps.told.set.log2_max_frame_num - 1},
        field \in 0 .. 1 - sps.told.set.frame_mbs_only, poc \in {0, 3}}

SliceStreams == UNION {SlicesWith(k[1], k[2]) : k \in Used \X {PpsOf(0, 0, 1), PpsOf(255, 0, 0)}}

\* After a usable set: every set, message and dependent slice, and every slice.
Whole == {<<Base, x>> : x \in Sets \cup Seis \cup Extensions} \cup SliceStreams

\* The last NAL, or the one before it, cut anywhere.
Cut(s, i) == {[s EXCEPT ![i] = [@ EXCEPT !.bytes = SubSeq(@, 1, n), !.whole = FALSE]] :
                  n \in 1 .. Len(s[i].bytes) - 1}

CutStreams ==
    UNION {Cut(<<Base, x>>, 2) : x \in Seis \cup Extensions
                                       \cup {SpsOf(7, 0, high, 4, poc, 1) : high \in Highs, poc \in Pocs}
                                       \cup {PpsOf(255, 31, 1)}}
    \cup UNION {Cut(<<sps, PpsOf(0, 0, 1),
                      SliceOf(sps, PpsOf(0, 0, 1), FALSE, 3, Fields(0, 7, 0, 0, 3))>>, i) :
                    sps \in Used, i \in {2, 3}}

MCStreams == Whole \cup CutStreams

MCBuf == [sps |-> 2048, pps |-> 256, id |-> 64, picture |-> 64, sei |-> 512]
=============================================================================
