--------------------------- MODULE MCFilterLife ----------------------------
(***************************************************************************)
(* Instances of FilterLife for TLC: a VapourSynth and an AviSynth process  *)
(* that open the same source, on its own or with its dependent view.       *)
(***************************************************************************)
EXTENDS FilterLife

CONSTANTS vs, avs

MCRate == <<24, 9>>

MCHost == (vs :> "vapoursynth") @@ (avs :> "avisynth")

Ask(dep, stack, num, den) ==
    [source |-> "base", dependent |-> dep, stack |-> stack, num |-> num, den |-> den,
     cachesize |-> 0, swaplr |-> FALSE]

(* Rates that double to the largest integer and past it, halves of one,    *)
(* and rates not in lowest terms.                                          *)
Rates == {<<<<>>, <<>>>>, <<<<31>>, <<1>>>>, <<<<32>>, <<1>>>>, <<<<10>>, <<4>>>>,
          <<<<25>>, <<>>>>, <<<<0>>, <<1>>>>}

AllRequests == {Ask(d, s, q[1], q[2]) : d \in {"", "dep"}, s \in {"left", "alt", "tabb"}, q \in Rates}
Alone == Ask("", "alt", <<>>, <<>>)
Assembled == {[Alone EXCEPT !.stack = s, !.swaplr = b] :
                  s \in {"base", "r", "topbottom", "lr", "alternating"}, b \in BOOLEAN}
Sized == {[Alone EXCEPT !.cachesize = mb] : mb \in {-1, 1, 40, 2047, 4095, 4096, 16385}}
Paired == Ask("dep", "left", <<>>, <<>>)

MCContents ==
    [base |-> [v \in 1 .. 4 |-> [size |-> 9, mtime |-> v, annexb |-> v # 4]],
     dep  |-> <<[size |-> 5, mtime |-> 1, annexb |-> TRUE]>>]

(* The versions differ in where things lie.  The second has no second view,*)
(* the third no pictures, the fourth is no stream at all.                  *)
MCScanOf(fmt, seen) ==
    LET v == seen[1]
    IN  IF fmt = "single"
        THEN [num_pics |-> IF v > 2 THEN 0 ELSE 3, is_mvc |-> IF v = 2 THEN 0 ELSE 1, spans |-> <<>>,
              idx |-> <<<<v, 0, 0>>, <<4 + v, 1, 2>>>>, ps |-> <<<<0, v, 7, 0>>>>]
        ELSE [num_pics |-> IF v > 2 THEN 0 ELSE 2, is_mvc |-> 1, spans |-> <<<<0, v, 5>>, <<1, 0, 3>>>>,
              idx |-> <<<<0, 0, v - 1>>>>, ps |-> <<<<7, 0, 1>>>>]

(* A sidecar of the first version, and ones spoiled in one cell or cut.    *)
Good == Saved("single", <<9, 1>>, MCScanOf("single", <<1>>))
Good2 == Saved("double", <<9, 1, 5, 1>>, MCScanOf("double", <<1, 1>>))
Spoiled(f) == {[f EXCEPT ![i] = n] : i \in DOMAIN f, n \in {0, 1, 2, 9, 16, -1}}
Leftovers == Spoiled(Good) \cup Spoiled(Good2) \cup {SubSeq(Good, 1, n) : n \in 1 .. Len(Good)}

Scene(faults, requests, opens, leftovers, first) ==
    [faults |-> faults, requests |-> requests, opens |-> opens, leftovers |-> leftovers, first |-> first,
     frames |-> {IntMax}, pictures |-> {{"base"}}, bytes |-> 6]

(* The host asks for frames past the clip's end, unless it is watched.     *)
Watched(scn) ==
    [scn EXCEPT !.frames = {0, 1, 2}, !.pictures = {{"base"}, {"base", "dependent"}}]

(* Pictures of half a MiB, of which more fit than there are slots, of 3    *)
(* MiB, and of 17, of which two do not fit the least budget.               *)
Cached == {[Scene({}, Sized, 1, {<<>>}, v)
               EXCEPT !.pictures = {{"base"}, {"base", "dependent"}}, !.bytes = n] :
                   v \in {1, 2}, n \in {1, 6, 34}}

(* Writers that die or fail; everything that fails; all arguments; every   *)
(* leftover; a source with nothing to show; frames of all layouts; caches  *)
(* of all sizes.                                                           *)
MCScenes == Cached \cup
    {Scene({"sidecar", "crash"}, {Alone}, 3, {<<>>}, 1),
     Scene(FaultKinds, {Alone, Paired}, 2, {<<>>}, 1),
     Scene({}, AllRequests, 1, {<<>>}, 1),
     Scene({}, {Alone, Paired}, 1, Leftovers, 1),
     Scene({}, {Alone, Paired}, 1, {<<>>}, 3),
     Watched(Scene({}, Assembled, 1, {<<>>}, 1))}
=============================================================================
