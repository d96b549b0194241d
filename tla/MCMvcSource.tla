---------------------------- MODULE MCMvcSource ----------------------------
(* Instances of MvcSource for TLC: the streams that may be opened. *)
EXTENDS MvcSource

Orders == {d \in [Pics -> Pics] : \A j, k \in Pics : d[j] = d[k] => j = k}

\* Every stream of NumPics pictures with every set of seek points its display
\* order allows (idx_push leaves any of them out when it cannot grow the list).
AllStreams ==
    {st \in [disp : Orders, rap : SUBSET Pics, mono : {{}}] : Conforming(st)}

\* Those with every seek point there can be.
FullyIndexed ==
    {st \in AllStreams : \A k \in Pics \ st.rap :
        ~ Conforming([st EXCEPT !.rap = @ \cup {k}])}

\* Of these, the streams that start with an IDR and have a seek point with
\* leading pictures; and one where a leading picture lacks its dependent view.
OpenGops ==
    {st \in FullyIndexed : st.disp[0] = 0 /\ \E k \in st.rap : st.disp[k] > k}
    \cup {[disp |-> [j \in 0..3 |-> <<0, 3, 1, 2>>[j + 1]], rap |-> {0, 1}, mono |-> {2}]}

\* And one where the first picture lacks it.
LoneBaseToo ==
    OpenGops \cup {[st EXCEPT !.mono = {0}] : st \in {x \in OpenGops : x.mono # {}}}

\* A stream of six pictures from its display order and seek points.
Stream6(d0, d1, d2, d3, d4, d5, rap, mono) ==
    [disp |-> [j \in 0..5 |-> <<d0, d1, d2, d3, d4, d5>>[j + 1]],
     rap |-> rap, mono |-> mono]

\* An IDR and a recovery point with two leading pictures; a recovery point with
\* a picture of the previous GOP displayed between its leading ones.
GopStreams ==
    {Stream6(0, 2, 1, 5, 3, 4, {0, 3}, {}),
     Stream6(0, 2, 4, 1, 3, 5, {0, 2}, {4})}
=============================================================================
