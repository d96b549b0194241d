--------------------------- MODULE PictureSource ---------------------------
(***************************************************************************)
(* What ensure_source_frame relies on in decode_next_output                *)
(* (src/mvcsource.c): each call returns the next picture in display order, *)
(* or fails aloud, or says that none is left, and says so only then.  A    *)
(* picture may be lost, but not in silence.                                *)
(***************************************************************************)
EXTENDS Integers, FiniteSetsExt

CONSTANT Runs       \* the sets of pictures that a restart may leave to put out

VARIABLES
    busy,           \* a call is in progress
    owed,           \* pictures yet to be put out
    answer          \* the last call's, None while there is none

vars == <<busy, owed, answer>>

NoPicture == -1

Answer(kind, pic) == [kind |-> kind, pic |-> pic]
None == Answer("none", NoPicture)
Picture(x) == Answer("picture", x)
Error == Answer("error", NoPicture)
EndOfStream == Answer("end", NoPicture)

Init == busy = FALSE /\ owed \in Runs /\ answer = None

Restart ==
    /\ ~busy
    /\ owed' \in Runs
    /\ answer' = None
    /\ UNCHANGED busy

Call ==
    /\ ~busy
    /\ busy' = TRUE
    /\ answer' = None
    /\ UNCHANGED owed

Deliver ==
    /\ owed # {}
    /\ answer' = Picture(Min(owed))
    /\ owed' = owed \ {Min(owed)}

Fail ==
    /\ answer' = Error
    /\ owed' \in {owed} \cup {owed \ {x} : x \in owed}

End == owed = {} /\ answer' = EndOfStream /\ UNCHANGED owed

Return == busy /\ busy' = FALSE /\ (Deliver \/ Fail \/ End)

Next == Restart \/ Call \/ Return

Returns == busy ~> ~busy

Spec == Init /\ [][Next]_vars /\ Returns
=============================================================================
