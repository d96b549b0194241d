----------------------------- MODULE PocDerive -----------------------------
(***************************************************************************)
(* The picture order count of src/h264poc.h: what h264_parse_picture makes *)
(* of the fields of a picture's first slice header, and the state it hands *)
(* from one picture to the next.  Parsing the bits is left out; a header   *)
(* is the record of its fields.                                            *)
(*                                                                         *)
(* Operators only.  A parameter set holds the POC fields of an SPS:        *)
(*   poc_type, max_frame_num, max_poc_lsb, offset_for_non_ref_pic and      *)
(*   offset_for_ref_frame, a sequence.                                     *)
(* A picture: type (5: IDR), ref (nal_ref_idc # 0), intra, pps, frame_num, *)
(*   poc_lsb and delta_poc0 (0 when the SPS says it always is); plain: not *)
(*   a field picture, and its header can be read.                          *)
(***************************************************************************)
EXTENDS Integers, Sequences, Functions

IsIdr(pic) == pic.type = 5

\* The state carried across pictures (H264PocCtx), and its value after a reset.
h264_poc_reset ==
    [prev_poc_msb |-> 0, prev_poc_lsb |-> 0, prev_frame_num |-> 0, frame_num_offset |-> 0]

-----------------------------------------------------------------------------
(* pic_order_cnt_type 0: the low bits of the count are coded *)

\* The high part, from the distance to the previous reference picture's lsb.
PocMsb(lsb, prev_msb, prev_lsb, max) ==
    IF lsb < prev_lsb /\ prev_lsb - lsb >= max \div 2 THEN prev_msb + max
    ELSE IF lsb > prev_lsb /\ lsb - prev_lsb > max \div 2 THEN prev_msb - max
    ELSE prev_msb

PocType0(ctx, sps, pic) ==
    LET c == IF IsIdr(pic) THEN [ctx EXCEPT !.prev_poc_msb = 0, !.prev_poc_lsb = 0]
                        ELSE ctx
        msb == PocMsb(pic.poc_lsb, c.prev_poc_msb, c.prev_poc_lsb, sps.max_poc_lsb)
    IN  [poc |-> msb + pic.poc_lsb,
         ctx |-> IF pic.ref
                 THEN [c EXCEPT !.prev_poc_msb = msb, !.prev_poc_lsb = pic.poc_lsb]
                 ELSE c]

-----------------------------------------------------------------------------
(* pic_order_cnt_type 1 and 2: the count follows the frame number *)

FrameNumOffset(ctx, sps, pic) ==
    IF IsIdr(pic) THEN 0
    ELSE ctx.frame_num_offset
         + IF ctx.prev_frame_num > pic.frame_num THEN sps.max_frame_num ELSE 0

Numbered(ctx, sps, pic) ==
    [ctx EXCEPT !.frame_num_offset = FrameNumOffset(ctx, sps, pic),
                !.prev_frame_num = pic.frame_num]

\* Display order is decode order; a non-reference picture sits just before
\* its reference counterpart.
PocType2(ctx, sps, pic) ==
    [poc |-> 2 * (FrameNumOffset(ctx, sps, pic) + pic.frame_num)
             - (IF pic.ref THEN 0 ELSE 1),
     ctx |-> Numbered(ctx, sps, pic)]

\* The sum of the first n offsets of the cycle.
CycleSum(sps, n) == SumFunctionOnSet(sps.offset_for_ref_frame, 1..n)

PocType1(ctx, sps, pic) ==
    LET cycle == Len(sps.offset_for_ref_frame)
        num == IF cycle = 0 THEN 0 ELSE FrameNumOffset(ctx, sps, pic) + pic.frame_num
        abs_fn == IF ~pic.ref /\ num > 0 THEN num - 1 ELSE num
        expected == IF abs_fn = 0 THEN 0
                    ELSE ((abs_fn - 1) \div cycle) * CycleSum(sps, cycle)
                         + CycleSum(sps, ((abs_fn - 1) % cycle) + 1)
    IN  [poc |-> expected + pic.delta_poc0
                 + (IF pic.ref THEN 0 ELSE sps.offset_for_non_ref_pic),
         ctx |-> Numbered(ctx, sps, pic)]

-----------------------------------------------------------------------------
\* h264_parse_picture: the count of a picture under the SPS its PPS selects,
\* and the state for the next one.
DerivePoc(ctx, sps, pic) ==
    CASE sps.poc_type = 0 -> PocType0(ctx, sps, pic)
      [] sps.poc_type = 1 -> PocType1(ctx, sps, pic)
      [] sps.poc_type = 2 -> PocType2(ctx, sps, pic)
=============================================================================
