--------------------------- MODULE ViewAssembly ----------------------------
(***************************************************************************)
(* How a picture's samples get from the decoder through a slot of the ring *)
(* (ring_store) to the planes of a frame of the host (assemble_plane), byte*)
(* by byte.                                                                *)
(*                                                                         *)
(* Memory is a function from addresses to what was written there.  The     *)
(* sample of picture k at x, y of a view's plane is <<k, view, x, y>>; the *)
(* views a picture has are "base" and, most times, "dependent".            *)
(***************************************************************************)
EXTENDS Integers

CONSTANTS Width, Height     \* of a view, in luma samples

ASSUME ViewAssumption == Width \in Nat \ {0} /\ Height \in Nat \ {0}

Planes == {"Y", "U", "V"}
PlaneWidth(plane) == IF plane = "Y" THEN Width ELSE Width \div 2
PlaneHeight(plane) == IF plane = "Y" THEN Height ELSE Height \div 2
At2D(plane) == (0 .. PlaneWidth(plane) - 1) \X (0 .. PlaneHeight(plane) - 1)

\* Memory old after new is written into it.
Over(new, old) ==
    [a \in DOMAIN new \cup DOMAIN old |-> IF a \in DOMAIN new THEN new[a] ELSE old[a]]

\* The plane read, written row by row from address "to" on.
copy_plane(to, stride, plane, read) ==
    [a \in {to + at[2] * stride + at[1] : at \in At2D(plane)} |->
        read[<<(a - to) % stride, (a - to) \div stride>>]]

-----------------------------------------------------------------------------
(* The ring                                                                *)

Bytes(plane) == PlaneWidth(plane) * PlaneHeight(plane)

\* Where a plane of a view lies in a slot's buffer: packed, the base view first.
PlaceOf(view, plane) ==
    (IF view = "base" THEN 0 ELSE Bytes("Y") + 2 * Bytes("U"))
    + (IF plane = "Y" THEN 0 ELSE IF plane = "U" THEN Bytes("Y") ELSE Bytes("Y") + Bytes("U"))

NewSlot == [buf |-> <<>>, samples |-> <<>>]

Decoded(k, view, plane) == [at \in At2D(plane) |-> <<k, view, at[1], at[2]>>]

Copies(k, views) ==
    LET copy(v, plane) ==
            copy_plane(PlaceOf(v, plane), PlaneWidth(plane), plane, Decoded(k, v, plane))
        view(v) == Over(copy(v, "V"), Over(copy(v, "U"), copy(v, "Y")))
    IN  IF "dependent" \in views THEN Over(view("dependent"), view("base")) ELSE view("base")

\* Mutation: a slot's pointers to a second view outlive the picture they were of.
ring_store_keeping(slot, k, views) ==
    [buf |-> Over(Copies(k, views), slot.buf),
     samples |-> Over([at \in views \X Planes |-> PlaceOf(at[1], at[2])], slot.samples)]

\* What a slot holds once picture k is copied over what was in it: its bytes,
\* and the pointers to the planes there are.
ring_store(slot, k, views) ==
    [buf |-> Over(Copies(k, views), slot.buf),
     samples |-> [at \in views \X Planes |-> PlaceOf(at[1], at[2])]]

-----------------------------------------------------------------------------
(* The frame                                                               *)

\* A plane as it is read through its pointer; the base view's for one that has
\* none.
PlaneIn(slot, view, plane) ==
    LET v == IF <<view, plane>> \in DOMAIN slot.samples THEN view ELSE "base"
    IN  [at \in At2D(plane) |->
            slot.buf[slot.samples[<<v, plane>>] + at[2] * PlaneWidth(plane) + at[1]]]

assemble_plane(slot, plane, layout, swaplr, stride) ==
    LET base == PlaneIn(slot, "base", plane)
        dep == PlaneIn(slot, "dependent", plane)
        left == IF swaplr THEN dep ELSE base
        right == IF swaplr THEN base ELSE dep
        Fill(to, view) == copy_plane(to, stride, plane, view)
    IN  CASE layout = "right" -> Fill(0, right)
          [] layout = "tab" -> Over(Fill(PlaneHeight(plane) * stride, right), Fill(0, left))
          [] layout = "sbs" -> Over(Fill(PlaneWidth(plane), right), Fill(0, left))
          [] OTHER -> Fill(0, left)

\* The size mvc_open2 gives a layout's frames, in luma samples.
FrameWidth(layout) == IF layout = "sbs" THEN 2 * Width ELSE Width
FrameHeight(layout) == IF layout = "tab" THEN 2 * Height ELSE Height

\* Alternating frames take two of the clip for a picture.
SourceOf(layout, n) == IF layout = "alt" THEN n \div 2 ELSE n

Shown(layout, n) ==
    IF layout # "alt" THEN layout ELSE IF n % 2 = 1 THEN "right" ELSE "base"

\* The planes of frame n, taken from the slot its picture is put in.
mvc_get_frame(slot, n, views, layout, swaplr, strides) ==
    LET filled == ring_store(slot, SourceOf(layout, n), views)
    IN  [plane \in Planes |-> assemble_plane(filled, plane, Shown(layout, n), swaplr, strides[plane])]
=============================================================================
