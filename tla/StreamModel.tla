---------------------------- MODULE StreamModel ----------------------------
(***************************************************************************)
(* A stream as src/mvcsource.c leaves the scan with it: the display index  *)
(* of every picture in decode order, the decode indices of the seek points *)
(* and the pictures that lack a dependent view.  ScanIndex hands it over,  *)
(* MvcSource serves frames from it.                                        *)
(***************************************************************************)
EXTENDS Integers

CONSTANT NumPics    \* pictures in the stream

Pics == 0..NumPics - 1

(***************************************************************************)
(* A stream the scan can count: disp is a permutation, and every picture   *)
(* decoded before a seek point is displayed before it (an IDR, or an exact *)
(* recovery point: a cold decode from it has every later display index).   *)
(***************************************************************************)
Conforming(st) ==
    /\ st.disp \in [Pics -> Pics]
    /\ \A j, k \in Pics : st.disp[j] = st.disp[k] => j = k
    /\ st.rap \subseteq Pics
    /\ \A k \in st.rap : \A j \in Pics : j < k => st.disp[j] < st.disp[k]
    /\ st.mono \subseteq Pics
=============================================================================
