----------------------------- MODULE MvcSource -----------------------------
(***************************************************************************)
(* The frame server core of src/mvcsource.c: mvc_get_frame and everything  *)
(* it calls.  A request is answered from a ring of recently decoded        *)
(* pictures, or else by (re)starting the decoder at a seek point and       *)
(* decoding forward, counting outputs, until the wanted picture comes out. *)
(*                                                                         *)
(* Pictures are named by their display index, 0 .. NumPics-1.  A stream    *)
(* fixes the display index of every decode index, the seek points the scan *)
(* recorded and the pictures that lack a dependent view.  The picture      *)
(* content is abstracted to `the picture of the linear decode it equals',  *)
(* Corrupt when it equals none (a leading picture decoded cold).           *)
(***************************************************************************)
EXTENDS StreamModel, FiniteSetsExt

CONSTANTS
    Streams,    \* the streams that may be opened, see StreamModel
    Budget,     \* cache budget, in single-view pictures
    MaxSlots,   \* FRAME_CACHE_MAX_SLOTS
    Alt,        \* layout = MVC_ALT: two output frames per source picture
    Faults      \* what may go wrong, a subset of FaultKinds

(***************************************************************************)
(* "open":   mvc_open2 fails;  "alloc": edge264_alloc fails in a seek;     *)
(* "decode": decode_next_output returns -1 before a picture comes out;     *)
(* "order":  a picture carries a DisplayPoc forced backwards;               *)
(* "cache":  realloc fails in ring_store.                                  *)
(***************************************************************************)
FaultKinds == {"open", "alloc", "decode", "order", "cache"}

ASSUME ConstantsAssumption ==
    /\ NumPics \in Nat \ {0}
    /\ Budget \in Nat
    /\ MaxSlots \in Nat /\ MaxSlots >= 2
    /\ Alt \in BOOLEAN
    /\ Faults \subseteq FaultKinds

ASSUME StreamAssumption == \A st \in Streams : Conforming(st)

VARIABLES
    pc,          \* "closed", "idle", "called" (in mvc_get_frame), "decoding"
    stream,      \* the file that is open, or will be
    req,         \* output frame number asked for
    resp,        \* what the last call returned
    dec,         \* decoder handle: FALSE is NULL
    pend,        \* pictures the decoder has yet to put out
    origin,      \* decode index of the first picture this decoder was fed
    last_poc,
    next_out,
    valid_from,
    slots,       \* the ring: label, content and buffer size of each slot
    ring_head,
    ring_cap

decoder == <<dec, pend, origin, last_poc>>
counters == <<next_out, valid_from>>
ring == <<slots, ring_head, ring_cap>>
vars == <<pc, stream, req, resp, decoder, counters, ring>>

-----------------------------------------------------------------------------
(* Values *)

Corrupt == -1
Contents == Pics \cup {Corrupt}

NoPoc == -2                      \* INT64_MIN
BackwardPoc == -1                \* a DisplayPoc below that of every picture
Pocs == Pics \cup {BackwardPoc}

\* A picture carries its own DisplayPoc, or under "order" one forced backwards.
MayCarry(m, poc) == poc = m \/ (poc = BackwardPoc /\ "order" \in Faults)

NumFrames == IF Alt THEN 2 * NumPics ELSE NumPics

\* Requests include one frame number outside each end of the clip.
Requests == -1..NumFrames

SourceOf(n) == IF Alt THEN n \div 2 ELSE n
ViewOf(n) == IF ~Alt THEN "layout" ELSE IF n % 2 = 1 THEN "right" ELSE "base"
Views == {"layout", "base", "right"}

Failures == {"open", "range", "alloc", "decode", "order", "eos"}
None == [kind |-> "none", view |-> "layout", pic |-> Corrupt]
Failed(why) == [kind |-> why, view |-> "layout", pic |-> Corrupt]
Frame(view, pic) == [kind |-> "ok", view |-> view, pic |-> pic]
Responses == [kind : Failures \cup {"none", "ok"}, view : Views, pic : Contents]

EmptySlot == [index |-> -1, pic |-> Corrupt, bufcap |-> 0]
EmptyRing == [i \in {} |-> EmptySlot]
SlotType == [index : Pics \cup {-1}, pic : Contents, bufcap : 0..2]

-----------------------------------------------------------------------------
(* The decoder (external): it puts out the pictures decoded since its      *)
(* origin in display order.  Content is right from the origin's own        *)
(* display index on, and everywhere if the origin is the stream's start.   *)

DecodedFrom(k) == {stream.disp[j] : j \in k..NumPics - 1}

ContentOf(m) == IF origin = 0 \/ m >= stream.disp[origin] THEN m ELSE Corrupt

\* check_display_order: the tripwire on a DisplayPoc that decreases.
InOrder(poc) == last_poc = NoPoc \/ poc >= last_poc

\* edge264_get_frame hands out the next picture, under the given POC.
Emit(m, poc) ==
    /\ pend # {}
    /\ m = Min(pend)
    /\ pend' = pend \ {m}
    /\ MayCarry(m, poc)
    /\ UNCHANGED <<dec, origin>>

-----------------------------------------------------------------------------
(* The ring of decoded pictures. *)

slot_bytes(m) == IF m \in stream.mono THEN 1 ELSE 2

\* Mutation: the second view is not reckoned with.
OneViewCap(m) == IF Budget < 2 THEN 2 ELSE IF Budget > MaxSlots THEN MaxSlots ELSE Budget

RingInitCap(m) ==
    LET cap == Budget \div slot_bytes(m)
    IN  IF cap < 2 THEN 2 ELSE IF cap > MaxSlots THEN MaxSlots ELSE cap

Holding(index) == {i \in 0..ring_cap - 1 : slots[i].index = index}
ring_find(index) == Min(Holding(index))

\* Mutation: the head is not wrapped.
HeadRunsOff == ring_head + 1

NextHead == (ring_head + 1) % ring_cap

\* The slot under the head is overwritten; when its buffer is too small and
\* cannot grow, the slot is left empty.  The head moves on either way.
ring_store(index, m, oom) ==
    /\ oom => "cache" \in Faults /\ slots[ring_head].bufcap < slot_bytes(m)
    /\ slots' = [slots EXCEPT ![ring_head] =
         IF oom
         THEN [index |-> -1, pic |-> Corrupt, bufcap |-> @.bufcap]
         ELSE [index |-> index, pic |-> ContentOf(m),
               bufcap |-> IF @.bufcap < slot_bytes(m) THEN slot_bytes(m)
                                                      ELSE @.bufcap]]
    /\ ring_head' = NextHead
    /\ UNCHANGED ring_cap

-----------------------------------------------------------------------------
(* Opening and closing *)

Init ==
    /\ pc = "closed"
    /\ stream \in Streams
    /\ req = 0
    /\ resp = None
    /\ dec = FALSE /\ pend = {} /\ origin = 0 /\ last_poc = NoPoc
    /\ next_out = 0 /\ valid_from = 0
    /\ slots = EmptyRing /\ ring_head = 0 /\ ring_cap = 0

\* mvc_open2 decodes the first picture, sizes the ring from it, caches it.
Open ==
    /\ pc = "closed"
    /\ LET m == Min(Pics)
           cap == RingInitCap(m)
       IN  /\ pend' = Pics \ {m}
           /\ next_out' = 1
           /\ ring_cap' = cap
           /\ ring_head' = 1 % cap
           /\ \E oom \in {FALSE} \cup {"cache" \in Faults} :
                slots' = [i \in 0..cap - 1 |->
                    IF i = 0 /\ ~oom
                    THEN [index |-> 0, pic |-> m, bufcap |-> slot_bytes(m)]
                    ELSE EmptySlot]
           /\ \E poc \in Pocs : MayCarry(m, poc) /\ last_poc' = poc
    /\ dec' = TRUE
    /\ resp' = None
    /\ pc' = "idle"
    /\ UNCHANGED <<stream, req, origin, valid_from>>

\* Every failure path of mvc_open2 releases what it holds and returns NULL.
OpenFails ==
    /\ pc = "closed"
    /\ "open" \in Faults
    /\ resp' = Failed("open")
    /\ UNCHANGED <<pc, stream, req, decoder, counters, ring>>

Close ==
    /\ pc = "idle"
    /\ pc' = "closed"
    /\ req' = 0
    /\ resp' = None
    /\ dec' = FALSE /\ pend' = {} /\ origin' = 0 /\ last_poc' = NoPoc
    /\ next_out' = 0 /\ valid_from' = 0
    /\ slots' = EmptyRing /\ ring_head' = 0 /\ ring_cap' = 0
    /\ UNCHANGED stream

-----------------------------------------------------------------------------
(* mvc_get_frame: a call, then the lookup *)

Return(r) == pc' = "idle" /\ resp' = r

Request ==
    /\ pc = "idle"
    /\ req' \in Requests
    /\ resp' = None
    /\ pc' = "called"
    /\ UNCHANGED <<stream, decoder, counters, ring>>

OutOfRange ==
    /\ pc = "called"
    /\ req < 0 \/ req >= NumFrames
    /\ Return(Failed("range"))
    /\ UNCHANGED <<stream, req, decoder, counters, ring>>

InRange == req >= 0 /\ req < NumFrames
Target == SourceOf(req)

CacheHit ==
    /\ pc = "called" /\ InRange
    /\ Holding(Target) # {}
    /\ Return(Frame(ViewOf(req), slots[ring_find(Target)].pic))
    /\ UNCHANGED <<stream, req, decoder, counters, ring>>

CacheMiss == pc = "called" /\ InRange /\ Holding(Target) = {}

-----------------------------------------------------------------------------
(* seek_to *)

SpValid(k) == stream.disp[k]

\* Mutation: the search keys on the seek point's frame.
UsableByFrame(target) == {k \in stream.rap : k <= target}

\* The seek points that can serve the target; the binary search picks the last.
Usable(target) == {k \in stream.rap : SpValid(k) <= target}
Best(target) == Max(Usable(target))
SpFrame(target) == IF Usable(target) = {} THEN 0 ELSE Best(target)
SpValidFrom(target) == IF Usable(target) = {} THEN 0 ELSE SpValid(Best(target))

\* Mutation: the missing decoder is not noticed.
KeepNullDecoder(target) ==
    target < next_out \/ SpFrame(target) > next_out

\* Mutation: a closer seek point ahead is not taken.
IgnoreCloser(target) == ~dec \/ target < next_out

MustRestart(target) ==
    ~dec \/ target < next_out \/ SpFrame(target) > next_out

\* reset_decoder, and the feed moved to decode index k
reset_decoder(k) ==
    /\ dec' = TRUE
    /\ origin' = k
    /\ pend' = DecodedFrom(k)
    /\ last_poc' = NoPoc

SeekRestart ==
    /\ CacheMiss
    /\ MustRestart(Target)
    /\ reset_decoder(SpFrame(Target))
    /\ next_out' = SpFrame(Target)
    /\ valid_from' = SpValidFrom(Target)
    /\ pc' = "decoding"
    /\ UNCHANGED <<stream, req, resp, ring>>

\* reset_decoder freed the old decoder and could not allocate a new one.
SeekFails ==
    /\ CacheMiss
    /\ MustRestart(Target)
    /\ "alloc" \in Faults
    /\ dec' = FALSE /\ pend' = {} /\ origin' = 0 /\ last_poc' = NoPoc
    /\ Return(Failed("alloc"))
    /\ UNCHANGED <<stream, req, counters, ring>>

SeekContinue ==
    /\ CacheMiss
    /\ ~MustRestart(Target)
    /\ pc' = "decoding"
    /\ UNCHANGED <<stream, req, resp, decoder, counters, ring>>

-----------------------------------------------------------------------------
(* The decode loop of ensure_source_frame: one step per picture put out *)

\* Mutation: leading pictures are treated as any other.
NothingLeads == FALSE

IsLeading == next_out < valid_from

\* Mutation: the window starts one picture late.
LateWindow == next_out > Target - ring_cap + 1

\* The window of pictures worth keeping: the ring_cap last ones to the target.
InWindow == next_out > Target - ring_cap

\* Mutation: discarded pictures are not counted.
UncountedLeading(m, poc) ==
    /\ pc = "decoding"
    /\ Emit(m, poc)
    /\ InOrder(poc)
    /\ last_poc' = poc
    /\ next_out' = IF IsLeading THEN next_out ELSE next_out + 1
    /\ UNCHANGED <<stream, req, valid_from>>

NextPicture(m, poc) ==
    /\ pc = "decoding"
    /\ Emit(m, poc)
    /\ InOrder(poc)
    /\ last_poc' = poc
    /\ next_out' = next_out + 1
    /\ UNCHANGED <<stream, req, valid_from>>

DiscardLeading ==
    /\ \E m \in Pics, poc \in Pocs : NextPicture(m, poc)
    /\ IsLeading
    /\ UNCHANGED <<pc, resp, ring>>

SkipEarly ==
    /\ \E m \in Pics, poc \in Pocs : NextPicture(m, poc)
    /\ ~IsLeading /\ ~InWindow
    /\ UNCHANGED <<pc, resp, ring>>

CachePassing ==
    /\ \E m \in Pics, poc \in Pocs, oom \in BOOLEAN :
         NextPicture(m, poc) /\ ring_store(next_out, m, oom)
    /\ ~IsLeading /\ InWindow /\ next_out # Target
    /\ UNCHANGED <<pc, resp>>

\* The copy in the ring, or the borrowed frame when it could not be cached.
ServeTarget ==
    /\ ~IsLeading /\ InWindow /\ next_out = Target
    /\ \E m \in Pics, poc \in Pocs, oom \in BOOLEAN :
         /\ NextPicture(m, poc)
         /\ ring_store(next_out, m, oom)
         /\ Return(Frame(ViewOf(req), ContentOf(m)))

\* The tripwire fires: the picture is gone, but no counter has moved.
OrderDiverges ==
    /\ pc = "decoding"
    /\ \E m \in Pics, poc \in Pocs : Emit(m, poc) /\ ~InOrder(poc)
    /\ Return(Failed("order"))
    /\ UNCHANGED <<stream, req, last_poc, counters, ring>>

DecodeFails ==
    /\ pc = "decoding"
    /\ "decode" \in Faults
    /\ Return(Failed("decode"))
    /\ UNCHANGED <<stream, req, decoder, counters, ring>>

\* Mutation: the drained decoder is asked again.
SpinAtEnd == pc = "decoding" /\ pend = {} /\ UNCHANGED vars

EndOfStream ==
    /\ pc = "decoding"
    /\ pend = {}
    /\ Return(Failed("eos"))
    /\ UNCHANGED <<stream, req, decoder, counters, ring>>

-----------------------------------------------------------------------------
Lookup == OutOfRange \/ CacheHit \/ SeekRestart \/ SeekFails \/ SeekContinue
Advance == \/ DiscardLeading \/ SkipEarly \/ CachePassing \/ ServeTarget
           \/ OrderDiverges \/ EndOfStream
Decode == Advance \/ DecodeFails

Next == Open \/ OpenFails \/ Close \/ Request \/ Lookup \/ Decode

Spec == Init /\ [][Next]_vars

\* A call runs on its caller's thread until it returns; it may count on no
\* decode to fail.
FairSpec == Spec /\ WF_vars(Lookup) /\ WF_vars(Advance)

-----------------------------------------------------------------------------
(* Properties *)

\* Every variable keeps to its type; the ring exists while the source is open.
TypeOK ==
    /\ pc \in {"closed", "idle", "called", "decoding"}
    /\ stream \in Streams
    /\ req \in Requests
    /\ resp \in Responses
    /\ dec \in BOOLEAN
    /\ pend \subseteq Pics
    /\ origin \in Pics
    /\ last_poc \in Pocs \cup {NoPoc}
    /\ next_out \in 0..NumPics
    /\ valid_from \in Pics
    /\ ring_cap \in {0} \cup 2..MaxSlots
    /\ ring_cap = 0 <=> pc = "closed"
    /\ slots \in [0..ring_cap - 1 -> SlotType]
    /\ ring_head \in 0..MaxSlots - 1
    /\ ring_cap > 0 => ring_head < ring_cap

\* A slot holds the picture its label says, decoded as a linear decode would
\* have: leading pictures are "never cached or served" (README.md:67).
CacheCoherent ==
    \A i \in DOMAIN slots : slots[i].index # -1 => slots[i].pic = slots[i].index

\* A frame that is returned is the frame that was asked for, bit-exact.
ServedTrue ==
    resp.kind = "ok" => resp = Frame(ViewOf(req), SourceOf(req))

\* "The byte budget is a ceiling" (mvcsource.c:90): slots whose buffers are all
\* as large as the largest of them stay below it, but for the two slots there
\* always are.  Slots counted by a first picture that lacks its second view may
\* take it twice over, no more, once they have held pictures that have theirs.
CacheBounded ==
    LET ceiling == Max({Budget, 2 * slot_bytes(Min(Pics))})
    IN  \A i \in DOMAIN slots :
            ring_cap * slots[i].bufcap <= IF Min(Pics) \in stream.mono THEN 2 * ceiling ELSE ceiling

\* "Blind output count == scan count" (mvcsource.c:761): next_out counts what
\* the decoder still holds, and names its next picture once past valid_from.
LabelsTrue ==
    dec => /\ Cardinality(pend) = NumPics - next_out
           /\ \A x \in Pics : x >= valid_from => (x \in pend <=> x >= next_out)

\* A call only fails when something it called failed, or its frame number is
\* outside the clip: the tripwire of check_display_order stays quiet on a good
\* stream, and ensure_source_frame never decodes past its target to the end.
NoSpuriousError ==
    resp.kind \in Failures =>
        resp.kind \in IF req \in 0..NumFrames - 1 THEN Faults ELSE {"range", "open"}

\* "seek_to guarantees the target is at or after valid_from, so this never
\* skips the frame we want" (mvcsource.c:1541).
DiscardSparesTarget ==
    pc = "decoding" => valid_from <= Target /\ next_out <= Target

\* No usable seek point lies ahead of a decode run: it starts, or goes on,
\* from the nearest place that can serve the target (seek_to).
NearestSeekPoint ==
    pc = "decoding" => \A k \in Usable(Target) : k <= next_out

\* The reverse window (mvcsource.c:1514): between calls the ring holds the
\* last ring_cap pictures up to the decode position, leading ones excepted,
\* so that walking back over them is served from memory.
WindowCached ==
    pc = "idle" /\ dec =>
        \A x \in Pics : x >= valid_from /\ x >= next_out - ring_cap /\ x < next_out
            => Holding(x) # {}

\* The tripwire's purpose (mvcsource.c:761, tests/poctest.c:6): next_out and
\* the decoder never fall out of step in silence; the call that makes them do
\* so fails.
InStep == dec => Cardinality(pend) = NumPics - next_out
DriftIsLoud == [][InStep /\ ~InStep' => resp'.kind = "order"]_vars

\* Every call returns: ensure_source_frame's loop ends on every path.
RequestAnswered == pc \in {"called", "decoding"} ~> pc = "idle"

-----------------------------------------------------------------------------
(* The abstract specification this module implements *)

\* What can keep a call from its frame.  Running into the end of the stream is
\* no fault of its own: it follows a decode that stopped among leading pictures,
\* or a label that went wrong.
Excuses ==
    {Failed(f) : f \in Faults \cap {"alloc", "decode", "order"}}
    \cup {Failed("eos") : f \in Faults \cap {"decode", "order"}}

ServerView == INSTANCE FrameServer WITH
    Clip <- [n \in 0..NumFrames - 1 |-> Frame(ViewOf(n), SourceOf(n))],
    Requests <- Requests,
    OutOfClip <- Failed("range"),
    Excuses <- Excuses,
    Nothing <- None,
    phase <- IF pc \in {"called", "decoding"} THEN "busy" ELSE pc,
    asked <- req,
    answer <- IF pc = "closed" THEN None ELSE resp

\* mvc_get_frame keeps the promise of FrameServer: whatever the cache, the seek
\* points and the decoder's position, each call returns the frame it asked for.
ImplementsServer == ServerView!Spec

=============================================================================
