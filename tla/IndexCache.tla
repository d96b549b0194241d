---------------------------- MODULE IndexCache -----------------------------
(***************************************************************************)
(* The sidecar file of src/mvcsource.c that keeps a scan's result beside   *)
(* the source: what is written and what is accepted back, in the single-   *)
(* file and the two-file format.                                           *)
(*                                                                         *)
(* An index is what a scan hands over: the picture count, whether there is *)
(* a second view, and three lists of rows,                                 *)
(*     spans   <<map, start, end>>           (two files only)              *)
(*     idx     <<offset, frame, valid_from>> or <<frame, valid_from, span>>*)
(*     ps      <<offset, length, type, id>>  or <<type, id, span>>.        *)
(* A file is a sequence of numbers, one for every field of the header and  *)
(* of every row; the lists are stored column by column.  Field widths are  *)
(* left out, and the single-file header has an empty span list here.       *)
(***************************************************************************)
EXTENDS Integers, SequencesExt

CONSTANT MaxPics        \* most pictures a sidecar may claim (1 << 28)

Formats == {"single", "double"}
Magic == [single |-> 1, double |-> 2]
PsWidth == [single |-> 4, double |-> 3]

(* Column of the frame in a seek point's row, and of its place in the      *)
(* file: valid_from comes right after frame.                               *)
FrameColumn == [single |-> 2, double |-> 1]
PlaceColumn == [single |-> 1, double |-> 3]

Columns(rows, width) ==
    [i \in 1 .. width * Len(rows) |-> rows[((i - 1) % Len(rows)) + 1][((i - 1) \div Len(rows)) + 1]]

(* save_index_cache(_2f): key is the size and modification time of each    *)
(* source file.                                                            *)
Saved(fmt, key, x) ==
    <<Magic[fmt]>> \o key
    \o <<x.num_pics, x.is_mvc, Len(x.spans), Len(x.idx), Len(x.ps)>>
    \o Columns(x.spans, 3) \o Columns(x.idx, 3) \o Columns(x.ps, PsWidth[fmt])

-----------------------------------------------------------------------------

(* The rows of a list of n that begins after cell "at" of file f.          *)
Rows(f, at, n, width) ==
    [i \in 1 .. n |-> [c \in 1 .. width |-> f[at + (c - 1) * n + i]]]

HeaderSize(key) == Len(key) + 6

(* A mutant: the modification times are not compared.                      *)
HeaderOfSize(f, fmt, key) ==
    LET h == Len(key) + 1
    IN  /\ Len(f) >= HeaderSize(key) /\ f[1] = Magic[fmt] /\ f[2] = key[1]
        /\ f[h + 1] \in 1 .. MaxPics /\ f[h + 4] >= 0 /\ f[h + 5] >= 0
        /\ Len(f) >= HeaderSize(key) + f[h + 3] * 3 + f[h + 4] * 3 + f[h + 5] * PsWidth[fmt]

HeaderFits(f, fmt, key) ==
    LET h == Len(key) + 1
        nspans == f[h + 3]
    IN  /\ Len(f) >= HeaderSize(key)
        /\ SubSeq(f, 1, h) = <<Magic[fmt]>> \o key
        /\ f[h + 1] \in 1 .. MaxPics
        /\ IF fmt = "double" THEN nspans > 0 ELSE nspans = 0
        /\ f[h + 4] >= 0 /\ f[h + 5] >= 0
        /\ Len(f) >= HeaderSize(key) + nspans * 3 + f[h + 4] * 3 + f[h + 5] * PsWidth[fmt]

IndexIn(f, fmt, key) ==
    LET h == Len(key) + 1
        n == HeaderSize(key)
    IN  [num_pics |-> f[h + 1],
         is_mvc   |-> f[h + 2],
         spans    |-> Rows(f, n, f[h + 3], 3),
         idx      |-> Rows(f, n + 3 * f[h + 3], f[h + 4], 3),
         ps       |-> Rows(f, n + 3 * (f[h + 3] + f[h + 4]), f[h + 5], PsWidth[fmt])]

(* A mutant: each seek point is checked on its own.                        *)
EachFits(x, fmt) ==
    \A i \in DOMAIN x.idx : LET F == FrameColumn[fmt]
                            IN  0 <= x.idx[i][F] /\ x.idx[i][F] <= x.idx[i][F + 1]
                                /\ x.idx[i][F + 1] < x.num_pics

(* Both display indices of a seek point grow from one to the next, and     *)
(* valid_from is not before frame.                                         *)
SeekPointsFit(x, fmt) ==
    LET F == FrameColumn[fmt]
    IN  \A i \in DOMAIN x.idx :
            /\ x.idx[i][F] > (IF i = 1 THEN -1 ELSE x.idx[i - 1][F])
            /\ x.idx[i][F + 1] > (IF i = 1 THEN -1 ELSE x.idx[i - 1][F + 1])
            /\ x.idx[i][F + 1] >= x.idx[i][F]
            /\ x.idx[i][F + 1] < x.num_pics

(* Every stored place lies within its mapping (single) or its span list.   *)
PlacesFit(x, fmt, key) ==
    LET SizeOf(map) == IF map = 1 THEN key[3] ELSE key[1]
    IN  /\ \A i \in DOMAIN x.spans :
               LET s == x.spans[i]
               IN  s[1] \in {0, 1} /\ 0 <= s[2] /\ s[2] <= s[3]
                   /\ s[2] < SizeOf(s[1]) /\ s[3] <= SizeOf(s[1])
        /\ LET limit == IF fmt = "single" THEN key[1] ELSE Len(x.spans)
           IN  \A i \in DOMAIN x.idx : x.idx[i][PlaceColumn[fmt]] \in 0 .. limit - 1
        /\ \A i \in DOMAIN x.ps :
               IF fmt = "single"
               THEN x.ps[i][1] >= 0 /\ x.ps[i][2] >= 0 /\ x.ps[i][1] + x.ps[i][2] <= key[1]
               ELSE x.ps[i][3] \in 0 .. Len(x.spans) - 1

(* load_index_cache(_2f): whether the cells read are taken for an index of *)
(* the source with this key.                                               *)
Accepts(f, fmt, key) ==
    /\ HeaderFits(f, fmt, key)
    /\ LET x == IndexIn(f, fmt, key)
       IN  SeekPointsFit(x, fmt) /\ PlacesFit(x, fmt, key)
=============================================================================
