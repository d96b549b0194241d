---------------------------- MODULE FrameServer ----------------------------
(***************************************************************************)
(* What mvc_get_frame promises its caller (src/mvcsource.h): between open  *)
(* and close, every call returns; a frame number inside the clip yields    *)
(* that very frame or an excuse, one outside it an error.  With no excuse  *)
(* to give, the server returns the frame.                                  *)
(***************************************************************************)
CONSTANTS
    Clip,       \* the frames of the clip: a function on the frame numbers
    Requests,   \* frame numbers a caller may pass
    OutOfClip,  \* the error for a frame outside the clip
    Excuses,    \* the errors for a frame inside it
    Nothing     \* no answer yet

VARIABLES phase, asked, answer

vars == <<phase, asked, answer>>

Answers(n) ==
    IF n \in DOMAIN Clip THEN {Clip[n]} \cup Excuses ELSE {OutOfClip}

Init == phase = "closed" /\ asked = 0 /\ answer = Nothing

Open ==
    /\ phase = "closed"
    /\ phase' = "idle"
    /\ UNCHANGED <<asked, answer>>

Call ==
    /\ phase = "idle"
    /\ phase' = "busy"
    /\ asked' \in Requests
    /\ answer' = Nothing

Return ==
    /\ phase = "busy"
    /\ phase' = "idle"
    /\ answer' \in Answers(asked)
    /\ UNCHANGED asked

Close ==
    /\ phase = "idle"
    /\ phase' = "closed"
    /\ asked' = 0
    /\ answer' = Nothing

Next == Open \/ Call \/ Return \/ Close

Spec == Init /\ [][Next]_vars /\ WF_vars(Return)
=============================================================================
