---------------------------- MODULE MCDecodeLoop ----------------------------
(* The files of DecodeLoop's instance. *)
EXTENDS DecodeLoop, SequencesExt

CONSTANT Pictures   \* pictures in a file

\* The pictures of some of the first n that a decoder cannot put out yet: one
\* with a lower display index is still to come.
Undue(disp, n) ==
    {k \in 1..n : \E j \in n + 1..Pictures : disp[j] < disp[k]}

\* Display orders that Slots pictures of reordering suffice for, as H.264 requires
\* of a stream (max_dec_frame_buffering).
Orders ==
    {disp \in SetToAllKPermutations(0..Pictures - 1) :
        /\ Len(disp) = Pictures
        /\ \A n \in 1..Pictures : Cardinality(Undue(disp, n)) < Slots}

\* A NAL without a picture in any one place, or at both ends.
MCFiles ==
    {InsertAt(disp, i, NoPicture) : disp \in Orders, i \in 1..Pictures + 1}
    \cup {<<NoPicture>> \o disp \o <<NoPicture>> : disp \in Orders}

StreamFaults == {"memory", "stall", "order"}
LateFault == {"late"}
=============================================================================
