---------------------------- MODULE DecodeLoop -----------------------------
(***************************************************************************)
(* The edge264 caller loop of src/mvcsource.c: decode_next_output feeds    *)
(* NALs until a picture comes out.  A file is a sequence of NALs: the      *)
(* display index of the picture a NAL decodes to, or NoPicture for one     *)
(* that decodes to none (parameter sets, SEIs, units it skips).            *)
(*                                                                         *)
(* The decoder is external, modelled by what the loop takes it to do: it   *)
(* holds pictures until they are due in display order, then has them ready *)
(* for edge264_get_frame; when every slot holds a picture it refuses the   *)
(* next NAL (ENOBUFS) and, on a good stream, has one ready by then.        *)
(***************************************************************************)
EXTENDS Integers, Sequences, FiniteSetsExt

CONSTANTS
    Files,          \* the streams that may be decoded
    Slots,          \* pictures the decoder can hold
    StuckLimit,     \* refusals in a row before the loop gives up (64)
    Faults          \* what may go wrong, a subset of FaultKinds

(***************************************************************************)
(* "memory": a NAL fails (ENOMEM, EINVAL) and nothing is ready;            *)
(* "late":   a NAL fails after it has completed the picture before it;     *)
(* "stall":  the decoder refuses NALs and has no picture ready;            *)
(* "order":  a picture carries a DisplayPoc below its predecessor's.       *)
(***************************************************************************)
FaultKinds == {"memory", "late", "stall", "order"}

ASSUME LoopAssumption ==
    /\ Slots \in Nat \ {0} /\ StuckLimit \in Nat
    /\ Faults \subseteq FaultKinds

NoPicture == -1

\* A picture is coded once.
ASSUME FilesAssumption == \A f \in Files :
    /\ f \in Seq(Nat \cup {NoPicture}) /\ f # <<>>
    /\ \A i, j \in 1..Len(f) : f[i] = f[j] /\ f[i] # NoPicture => i = j

VARIABLES
    file,
    pc,         \* "idle", "called", "feeding" or "fed"
    feed,       \* s->nal, s->feed_si: the NAL to feed
    first,      \* the NAL this decoder was started at
    result,     \* r, what edge264_decode_NAL returned
    stuck,
    taken,      \* the NALs it decoded a picture from, in order
    held,       \* of these, the ones not due yet
    ready,      \* those due and not fetched
    owed,       \* pictures from first on that have not come out
    answer      \* what the last call returned

decoder == <<taken, held, ready>>
vars == <<file, pc, feed, first, result, stuck, decoder, owed, answer>>

PicturesOf(f, p) == {f[i] : i \in p..Len(f)} \ {NoPicture}
PicturesFrom(p) == PicturesOf(file, p)

Source == INSTANCE PictureSource WITH
    Runs <- UNION {{PicturesOf(f, p) : p \in 1..Len(f)} : f \in Files},
    busy <- pc # "idle"

Results == {"ok", "ENOBUFS", "ENOMEM"}
at_end == feed > Len(file)

-----------------------------------------------------------------------------
(* The decoder (external) *)

\* Pictures that may become ready, lowest first: none to come precedes them.
Release(pics, coming) ==
    {out \in SUBSET {x \in pics : \A y \in coming : x < y} :
        \A x \in out : \A y \in pics : y < x => y \in out}

MakeReady(out, pics) ==
    /\ held' = pics \ out
    /\ ready' = ready \cup out

Full == Cardinality(held) = Slots

\* While every slot is taken any NAL, the flush sentinel too, is refused.
Refuse ==
    /\ Full
    /\ \E out \in Release(held, PicturesFrom(feed)) :
         /\ out # {} \/ "stall" \in Faults
         /\ MakeReady(out, held)
    /\ result' = "ENOBUFS"
    /\ UNCHANGED taken

\* A NAL without a picture: decoded, unsupported (ENOTSUP) or bad (EBADMSG).
Skip ==
    /\ ~at_end /\ file[feed] = NoPicture /\ ~Full
    /\ \E out \in Release(held, PicturesFrom(feed)) : MakeReady(out, held)
    /\ result' = "ok"
    /\ UNCHANGED taken

Take ==
    /\ ~at_end /\ file[feed] # NoPicture /\ ~Full
    /\ LET pics == held \cup {file[feed]}
       IN  \E out \in Release(pics, PicturesFrom(feed + 1)) : MakeReady(out, pics)
    /\ taken' = Append(taken, feed)
    /\ result' = "ok"

\* ENOMEM or EINVAL: the NAL's picture is not produced.
Lose ==
    /\ ~at_end /\ file[feed] # NoPicture /\ ~Full
    /\ \E out \in Release(held, PicturesFrom(feed)) :
         /\ (IF out = {} THEN "memory" ELSE "late") \in Faults
         /\ MakeReady(out, held)
    /\ result' = "ENOMEM"
    /\ UNCHANGED taken

\* The flush sentinel: pictures still held come out, at least one of them.
Drain ==
    /\ at_end /\ ~Full
    /\ \E out \in Release(held, {}) :
         /\ held = {} \/ out # {}
         /\ MakeReady(out, held)
    /\ result' = "ok"
    /\ UNCHANGED taken

edge264_decode_NAL == Refuse \/ Skip \/ Take \/ Lose \/ Drain

-----------------------------------------------------------------------------
(* The loop *)

Start(p) ==
    /\ feed' = p /\ first' = p
    /\ taken' = <<>> /\ held' = {} /\ ready' = {}
    /\ owed' = PicturesFrom(p)
    /\ answer' = Source!None

Init ==
    /\ file \in Files
    /\ pc = "idle"
    /\ feed = 1 /\ first = 1
    /\ taken = <<>> /\ held = {} /\ ready = {}
    /\ owed = PicturesFrom(1)
    /\ answer = Source!None
    /\ result = "ok" /\ stuck = 0

\* seek_to: a new decoder, fed from a seek point on.
Seek ==
    /\ pc = "idle"
    /\ \E p \in 1..Len(file) : Start(p)
    /\ UNCHANGED <<file, pc, result, stuck>>

Call ==
    /\ pc = "idle"
    /\ pc' = "called"
    /\ answer' = Source!None
    /\ UNCHANGED <<file, feed, first, result, stuck, decoder, owed>>

\* edge264_get_frame, then check_display_order: the picture is gone either way.
Fetch ==
    /\ ready # {}
    /\ ready' = ready \ {Min(ready)}
    /\ owed' = owed \ {Min(ready)}
    /\ \/ answer' = Source!Picture(Min(ready))
       \/ "order" \in Faults /\ answer' = Source!Error
    /\ pc' = "idle"
    /\ UNCHANGED <<taken, held>>

FetchFirst ==
    /\ pc = "called"
    /\ Fetch
    /\ UNCHANGED <<file, feed, first, result, stuck>>

StartFeeding ==
    /\ pc = "called" /\ ready = {}
    /\ stuck' = 0
    /\ pc' = "feeding"
    /\ UNCHANGED <<file, feed, first, result, decoder, owed, answer>>

Feed ==
    /\ pc = "feeding"
    /\ edge264_decode_NAL
    /\ pc' = "fed"
    /\ UNCHANGED <<file, feed, first, stuck, owed, answer>>

\* Mutation: the feed moves on although the NAL was refused.
AlwaysPast == feed + 1

\* The feed moves past the NAL unless the decoder refused it or there is none.
PastFetched == IF result # "ENOBUFS" /\ ~at_end THEN feed + 1 ELSE feed

FetchFed ==
    /\ pc = "fed"
    /\ Fetch
    /\ feed' = PastFetched
    /\ UNCHANGED <<file, first, result, stuck>>

Nothing == pc = "fed" /\ ready = {}

\* Mutation: the count starts again with every refusal.
Recount == 1

Refusals == stuck + 1

Retry ==
    /\ Nothing /\ result = "ENOBUFS" /\ Refusals <= StuckLimit
    /\ stuck' = Refusals
    /\ pc' = "feeding"
    /\ UNCHANGED <<file, feed, first, result, decoder, owed, answer>>

Stalled ==
    /\ Nothing /\ result = "ENOBUFS" /\ Refusals > StuckLimit
    /\ stuck' = Refusals
    /\ answer' = Source!Error
    /\ pc' = "idle"
    /\ UNCHANGED <<file, feed, first, result, decoder, owed>>

\* Mutation: ENOMEM is skipped like ENOTSUP.
AllSkipped == FALSE

DataLoss == result = "ENOMEM"

Rejected ==
    /\ Nothing /\ DataLoss
    /\ stuck' = 0
    /\ answer' = Source!Error
    /\ pc' = "idle"
    /\ UNCHANGED <<file, feed, first, result, decoder, owed>>

Drained ==
    /\ Nothing /\ result # "ENOBUFS" /\ ~DataLoss /\ at_end
    /\ stuck' = 0
    /\ answer' = Source!EndOfStream
    /\ pc' = "idle"
    /\ UNCHANGED <<file, feed, first, result, decoder, owed>>

feed_advance ==
    /\ Nothing /\ result # "ENOBUFS" /\ ~DataLoss /\ ~at_end
    /\ stuck' = 0
    /\ feed' = feed + 1
    /\ pc' = "feeding"
    /\ UNCHANGED <<file, first, result, decoder, owed, answer>>

Loop ==
    \/ FetchFirst \/ StartFeeding \/ Feed \/ FetchFed
    \/ Retry \/ Stalled \/ Rejected \/ Drained \/ feed_advance

Next == Seek \/ Call \/ Loop

\* A call runs on its caller's thread, and edge264 returns from every call.
Spec == Init /\ [][Next]_vars /\ WF_vars(Loop)

-----------------------------------------------------------------------------
(* Properties *)

\* Every variable keeps to its type; what the decoder holds, what is ready and
\* what has come out do not overlap, and a call starts with nothing half done.
TypeOK ==
    /\ pc \in {"idle", "called", "feeding", "fed"}
    /\ first \in 1..Len(file) /\ feed \in first..Len(file) + 1
    /\ result \in Results
    /\ stuck \in 0..StuckLimit + 1
    /\ held \cap ready = {} /\ held \cup ready \subseteq owed
    /\ owed \subseteq PicturesFrom(first)
    /\ pc = "feeding" => ready = {}

\* "A NAL is passed over only when the decoder took it": the pictures decoded are
\* those of the NALs the feed has passed, each once, in order.  Swallowing one
\* "would drop a picture and shift every later display index" (mvcsource.c:757).
FedOnceInOrder ==
    LET passed == IF pc = "fed" /\ result = "ok" /\ ~at_end THEN feed ELSE feed - 1
    IN  /\ {taken[i] : i \in DOMAIN taken} = {n \in first..passed : file[n] # NoPicture}
        /\ \A i, j \in DOMAIN taken : i < j => taken[i] < taken[j]

\* decode_next_output keeps the promise of PictureSource: every call returns,
\* with the next picture in display order, an error, or the end once nothing is
\* left.
ImplementsPictureSource == Source!Spec
=============================================================================
