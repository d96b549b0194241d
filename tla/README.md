# A specification of vapoursynth-mvc

vapoursynth-mvc is a video source filter for VapourSynth and AviSynth+. It maps
an H.264 / MVC elementary stream, indexes it without decoding, and serves any
frame of it at random by driving the edge264 decoder forward from a seek point.
The project's own claim is that a frame read after any sequence of requests is
bit-exact the frame a linear decode would have given. This directory states that
claim in TLA+, checks it with TLC on small streams and proves it with TLAPS for
streams of any length. Around it stand the parts the claim rests on: the scan and
the header parser below it, the merge of two files, the sidecar that replaces a
scan, the loop that drives the decoder, and the life of a filter instance in its
host.

## 1. Inventory

| component | code | state it keeps | operations |
|---|---|---|---|
| frame server core | `mvcsource.c` 1521-1579 | the picture being assembled | `mvc_get_frame`, `ensure_source_frame` |
| seek | 862-868, 931-965 | decoder handle, feed position, `next_out`, `valid_from`, `last_poc` | `seek_to`, `reset_decoder` |
| decoded-frame cache | 80-94, 975-1055 | the ring: `slots`, `ring_head`, `ring_cap` | `ring_init`, `ring_find`, `ring_store`, `ring_free` |
| decoder caller loop | 772-853 | feed position, `last_poc` | `decode_next_output`, `feed_peek`, `feed_advance`, `check_display_order` |
| open and close | 1381-1512, 1581-1591 | everything the source owns | `mvc_open2`, `mvc_close` |
| stream scan | 527-748 | seek points, parameter sets, picture count | `scan_index`, `scan_index_pass`, `flush_cvs`, `idx_push`, `ps_push` |
| POC derivation | `h264poc.h` | parameter sets, previous POC and frame_num | `h264_parse_sps/pps/picture`, `h264_sei_is_recovery_point` |
| parameter-set re-feed | 873-926 | none | `refeed_param_sets` |
| two-file interleaving | 1101-1375 | the span list | `collect_view_nals`, `build_interleaved_pass` |
| sidecar index | 205-523 | a file beside the source | `load_index_cache(_2f)`, `save_index_cache(_2f)` |
| plane assembly | 967-973, 1008-1093 | the bytes of a slot | `ring_store`, `assemble_plane`, `copy_plane` |
| file mapping | 149-203 | the mapped files, their size and time | `map_file_ro`, `unmap_file` |
| cache budget | `cache_budget.h` | none | `cache_budget_bytes` |
| host glue | `plugin.c`, `avisynth_plugin.c` | ownership of one source per filter instance | create, getFrame, free |
| edge264 | external | the decoded picture buffer | `edge264_alloc/free/decode_NAL/get_frame` |

How they interact: the glue owns a source and calls `mvc_get_frame`, one call at
a time (the host serialises it: `fmUnordered`, `MT_SERIALIZED`). The core looks
in the ring; on a miss it asks `seek_to` to position the decoder, then calls
`decode_next_output` until the wanted picture comes out, numbering pictures by
counting them. Everything rests on agreement between three parties that never
compare notes: the *scan*, which says how many pictures there are and where a
seek point's first picture and first *correct* picture lie in display order; the
*decoder*, which puts pictures out in display order; and the *counter*
`next_out`, which gives them their numbers.

What is hard in the core is not threads but history. A call's outcome depends on where
earlier calls left the decoder, on what they left in the ring, and on which of
them failed half way: an allocation between freeing the old decoder and having a
new one, a decode among a recovery point's leading pictures, a cache buffer that
cannot grow. The open-GOP recovery points make two display indices of every seek
point (what a cold decode there yields first, and what it first yields *right*),
and mixing them up shows only on cold seeks to few frames.

Around the core it is processes: each host, and each of several previews, opens the
same source and shares one sidecar file with no lock, writes it where another may
be reading, and may die or fail at any step; the source may be exchanged under
all of them. And it is the error paths of opening, with up to seven things to give
back, in the code of two hosts that disagree on who frees what.

The properties that make each component correct:

* core: a frame served is the frame asked for; a call returns; it fails only when
  something it called failed.
* seek: the run starts at the nearest seek point that can serve the target, never
  discards the target, and never runs on a missing decoder.
* cache: a slot's picture is the one its label says, leading pictures never get
  in, the window before the position stays in, the budget bounds the memory.
* caller loop: every picture is fed once, a stuck decoder ends the call, a
  decoder that diverges from the scan ends it too.
* scan, POC: pictures counted = pictures decoded; a seek point's `valid_from` is
  its display index; what cannot be modelled falls back to IDRs whole.
* re-feed: a new decoder is fed the last of each parameter set that a linear decode
  would have been fed.
* interleaving: a base picture gets its own dependent view.
* sidecar: what is loaded is what was saved for the same source, or nothing; and
  whatever is loaded points nowhere outside the source.
* glue: one owner of a source at a time, closed exactly once; one call at a time.
* planes: every byte of the host's frame is the sample of the picture, the view and
  the place it should be, whatever the slot held before.
* headers: a set or slice header is read as it was written, or refused.

The hazards behind these, each at its line, are in `PROJECT.json`.

## 2. Modules

| module | what it is |
|---|---|
| `FrameServer` | the promise of `mvcsource.h`: between open and close every call returns, with the very frame asked for or an excuse |
| `MvcSource` | the frame server core, seek, decoded-frame cache and the decoder as they see it; implements `FrameServer` |
| `MCMvcSource` | instances for TLC: the streams that may be opened |
| `MvcSourceProofs` | proofs about `MvcSource`: display orders and seek points; what holds under every fault; what is served, the reverse window, the refinement |
| `StreamModel` | what the scan hands to the frame server: `Conforming`, established by `ScanIndex`, assumed by `MvcSource` |
| `ScanIndex` | the stream scan: both passes, the seek points and parameter sets, the fallback, the re-feed before a seek |
| `PocDerive` | the picture order count derivation of `h264poc.h` |
| `ScanProofs` | proofs about `ScanIndex` and `PocDerive`: types, re-feed, count, boundaries, what the derivation recovers, seek points, what is handed over |
| `MCScanIndex` | instances for TLC: an encoder that writes legal streams NAL by NAL |
| `PictureSource` | what the core relies on in a call of the decoder loop: the next picture, an error, or the end |
| `DecodeLoop` | the loop itself, with the NAL feed and edge264's answers; implements `PictureSource` |
| `MCDecodeLoop` | instances for TLC: streams within a decoder's reordering depth |
| `LoopProofs` | proofs about `DecodeLoop`: types, every NAL fed once, the refinement |
| `Headers` | the bit reader and the parser of parameter sets, slice headers, SEI and dependent slices |
| `MCHeaders` | instances for TLC: a writer of headers, after the syntax tables of H.264 |
| `HeaderProofs` | proofs about `Headers`: what is read of a NAL that lost its end, the sets in force |
| `Interleave` | the two-file scan: access units, their pairing, the span list and the scan folded into it |
| `MCInterleave` | instances for TLC: combined streams, demuxed into two files |
| `InterleaveProofs` | proofs about `Interleave`: the spans are the stream the files were demuxed from, and the scan of them |
| `IndexCache` | what a sidecar consists of, and what is accepted back from one |
| `ViewAssembly` | a picture's bytes: into a slot of the ring, and out to the host's planes |
| `FilterLife` | instances in their processes: creation by either glue, `mvc_open2` with the sidecar, the host's calls, the end, crashes |
| `MCFilterLife` | instances for TLC: the scenes two processes live through |
| `SidecarProofs` | proofs about `FilterLife` and `IndexCache`: types, nothing leaks, what is loaded is safe |
| `LifeProofs` | proofs about `FilterLife`: what is loaded is what was saved, no partial sidecar, the clip and the ring; about `ViewAssembly`: what is read of a slot, what a frame shows |
| `Minima` | the least element of a set of naturals, for the proofs |

They form layers around narrow interfaces. `Headers` reads from bits the fields
that `ScanIndex` and `Interleave` take as given. `ScanIndex` establishes
`StreamModel!Conforming` for the stream it indexes, and `MvcSource` assumes it;
`Interleave` extends `ScanIndex` and does so for two files. `DecodeLoop` implements
`PictureSource`, and the actions of `MvcSource` that put a picture out take one of
its answers in a step. `MvcSource` implements `FrameServer`. `FilterLife` is the
frame around them: it extends `IndexCache` and `ViewAssembly`, takes the scan's
result as a constant (`ScanOf`), and sees of a call only that it begins and ends.

### How `MvcSource` corresponds to the code

A picture is named by its display index. A *stream* fixes, for every decode
index, the display index (`disp`), which decode indices the scan recorded as seek
points (`rap`) and which pictures lack a dependent view (`mono`). Of the seek
points `Conforming` says what a stream the scan can count looks like: every
picture decoded before a seek point is displayed before it. A seek point `k` then
has `frame = k` and `valid_from = disp[k]`, and nothing else is stored of it.

The decoder is the set `pend` of pictures it has yet to put out and the decode
index `origin` it was started from; it puts the least one out next. Its content
is right if the run started at the stream's start, or if it is displayed at or
after `origin`'s own picture; otherwise it is a leading picture decoded cold, and
the model calls it `Corrupt` whatever the bytes are.

`pc` follows one call: `called` from the entry of `mvc_get_frame` to the end of
the lookup and seek, `decoding` inside the loop of `ensure_source_frame`, `idle`
between calls. Each step of the loop is one picture put out, with everything the
code does to it (tripwire, count, discard, store, return) in the same step. The
open and close calls are one step each. A failed open leaves nothing behind.

What may fail is the constant `Faults`: `open` (any failure of `mvc_open2`),
`alloc` (`edge264_alloc` in a seek), `decode` (`decode_next_output` returns -1:
out of memory, rejected input, the stall guard), `order` (a picture carries a
`DisplayPoc` below its predecessor's, the divergence `tests/poctest.c` injects)
and `cache` (`realloc` in `ring_store`).

### How `ScanIndex` corresponds to the code

A file is a sequence of NALs, a pointer into the mapping is a position in it. One
action stands for one turn of the loop of `scan_index_pass`, chosen by the kind of
NAL: a parameter set, another leading NAL, a slice that starts no counted picture,
a counted picture. `pass` is the argument `use_poc`; `Fallback` is the `goto out`
of the first pass with what `scan_index` does next, and `Finish` the end of a
pass. An allocation is asked for only when a list is full, and may then fail
(`Faults`): `idx_push` and `ps_push` drop the element, the POC buffer and the
sorted copy end the pass. The capacities are constants so that a small stream
reaches them; the code's are 256, 16 and 1024.

The header fields that the derivation reads are those of `PocDerive`, in the order
and with the comparisons of `h264_parse_picture`. Two fields of a picture, `poc`
and `mmco5`, are what an encoder meant; only the properties read them. The
properties compare the scan's findings with what a decoder makes of the same file
(`Decoded`, `DisplayIndex`): it drops a slice whose sets it has not seen and puts a
sequence out in POC order. An SPS or a PPS may be one that neither the parser nor the
decoder takes (`usable`), though its id is read; which the parser refuses is a matter of
`Headers`, and the decoder is assumed to refuse the same.

`refeed_param_sets` reads only what the scan has stored, so it is an operator
(`Refed`) rather than an action: the sets fed for a seek point.

### How `DecodeLoop` corresponds to the code

`pc` is `called` before the first `edge264_get_frame`, `feeding` before
`edge264_decode_NAL` and `fed` after it; every turn of the loop is two steps. A file
is again a sequence of NALs, reduced to the picture each decodes to, or none, so
that the single-file walk and the span list are the same feed. edge264 is external:
it holds pictures until no lower one is to come, and may keep them longer; when
every slot is taken it refuses the next NAL, the flush sentinel too, as the comment
at 826-835 says; a NAL may fail. What can go wrong is again `Faults`, listed in the
module.

### How `Interleave` corresponds to the code

The two files are sequences of NALs. `Au` is `collect_view_nals`: the access unit
of each NAL, the number of units begun so far. `DepShift` is the search for the first
anchor, and `Spans` the order in which the loop over access units meets the NALs of
both views, each placed by the number of NALs met ahead of it. The loop itself is one
action a NAL, on the variables and with the helpers of `ScanIndex`, so that the
differences between the two scans are the ones in the code: where a seek point points,
what the dependent view's sets and SEI messages may do, that no base picture at all is
a failure. The merged list is computed in one step, which nothing can come between.
Each NAL carries the place and the access unit it had in the combined stream (`at`,
`access`), which only `PairsAssumption` and the properties read. What a NAL must have
of the fields the scan takes from it is `HasFields`.

### How `Headers` corresponds to the code

A NAL is its bytes. `Skip`, `Put` and the functions named after `h264_un`, `h264_ue`
and `h264_se` are the bit reader with its sticky error flag; the parsers are lists
of syntax elements applied to it, in the order of the code, with the casts to `int`
it makes (`AsInt`). Its loops (the emulation bytes, a run of elements, the messages of
an SEI) are recursive functions over the numbers of their turns. What a NAL tells
(`Told`) depends on the parameter sets parsed before it, its argument `ctx`. Each action is one NAL handed over by the scan. What its author
meant (`told`) travels with it for the properties.

### How `FilterLife`, `IndexCache` and `ViewAssembly` correspond to the code

A process has one instance at a time, a record of what it holds (`own`: the struct,
the mappings, the lists, the decoder, the ring, the path, the file, the glue's own
data), where in its life it is (`pc`) and the locals that survive a step. The steps
of `mvc_open2` are actions of their own, in its order, and each has its error exit;
reading and writing a sidecar takes a step for every `Block` numbers, because a
process may be overtaken, or die, between any two of them. `With` writes the fields
that change and keeps the rest.

A sidecar is an inode with a sequence of numbers, one for each field of the header
and each column entry of the lists. `fopen("wb")` empties the inode under whoever
has it open, `remove` takes the name away, a replaced source is another inode:
that much of POSIX is modelled (on Windows a sharing violation makes some of these
interleavings fail earlier, as the fault `sidecar` does). `stained` remembers, for
the properties only, that two processes had an inode open while one of them
emptied it, that its writer died, or that it lay there from the start.

`ViewAssembly` has memory as functions from addresses to samples. `ring_store`
lays the planes out in a slot that still has the bytes of any picture before,
and `assemble_plane` copies them into rows of the host's own length.

### Assumptions

* Two versions of a source differ in size or modification time (`KeysDiffer`), the
  requirement `map_file_ro` states; times have whole seconds, so a rewrite within
  one that keeps the size is outside of it. A source is replaced by another file, not
  rewritten in place under its mapping.
* `ScanOf` depends on the versions mapped, and there is one base file for a
  dependent one. `ScanAssumption`: what a scan finds lies inside the source and can
  be searched, which `scan` and `interleave` check. `ArgsAssumption`: the arguments are
  integers, a rate has at most one numerator and denominator, and the limits of the C
  types relate as in the code (twice an `int` fits an `int64_t`).
* The host runs one call at a time of an instance that declares the mode the glues
  declare; all pictures of a clip are of one size (the code refuses others).
* `Width` bits of an unsigned int are 30 for the code's 32, the most TLC's integers
  hold; `Mib` (2 for 2^20), `SizeMax`, `MaxPics` and the largest integers of
  `FilterLife` are scaled too. `MaxSlots` is the code's 4096.
* `FilesAssumption` of `DecodeLoop`: a file is not empty and no picture comes twice.
* `PairsAssumption` of `Interleave`: the two files were demuxed from one stream whose
  access units have a base part and a dependent part, each what leads its slices and
  these. A file lacks no unit in the middle. Ahead of the first base picture lie at most
  eight dependent units, and only if that picture is an IDR, whose dependent slice is
  an anchor and theirs are not. TLC evaluates it on every pair of `interleave`; what
  pairs outside of it come to is under "Pairing" in the known limits.

* A picture is one slice and one NAL to `DecodeLoop`; a second slice of a picture
  behaves as a NAL without one.
* A stream keeps to the reordering depth its decoder has (`Orders` in
  `MCDecodeLoop`), so that a full decoder has a picture to release. H.264 asks that
  of a stream; one that does not is the fault `stall`.

* `ConstantsAssumption`: at least one picture (the code refuses to open an empty
  stream), at least two slots allowed.
* `StreamAssumption`: the streams are `Conforming`. `HandsOverStream` shows that
  this is what the scan establishes.
* The streams of `scan` are legal: nothing is displayed across an IDR in either
  direction, and what precedes an exact recovery point is displayed before it.

## 3. Runs

| run | streams | faults | shows |
|---|---|---|---|
| `seeks` | all of 5 pictures, with every set of seek points | open, alloc | types; no unprovoked error; the target is never discarded; nearest seek point; the reverse window |
| `server` | open GOPs of 4, two frames per picture | alloc, decode, cache | implements `FrameServer`; ring and labels true; frames served true |
| `faults` | open GOPs of 4, one with a first picture of one view | open, alloc, decode, order | every call returns; drift is never silent; the cache keeps to its budget |
| `discard_after_error` | two open-GOP streams of 6 | decode | violation of `DiscardSparesTarget` |
| `labels_after_tripwire` | same | order | violation of `ServedTrue` |
| `scan` | legal streams of 4 pictures, two with what defeats the POC derivation, and three with sets that cannot be read, are sent again or cannot be used | idx, poc | the count, the seek points, their bytes and the re-fed sets are true; the frame server's assumption holds; every scan ends |
| `pps_gate` | one stream cut in mid-GOP | none | violation of `CountTrue` |
| `decode_loop` | streams of 4 pictures, 2 slots, NALs without a picture among them | memory, stall, order | each NAL fed once and in order; implements `PictureSource` |
| `late_enomem` | same, 3 pictures | late | violation of `FedOnceInOrder` |
| `interleave` | legal streams of 3 pictures, demuxed, with orphans, unreadable or repeated parts | view, idx, poc | the merge is the combined stream; count, seek points, re-fed sets and the frame server's assumption as for one file |
| `headers` | every set, slice, SEI and extension worth writing, whole and cut anywhere | none | read back as written; cut short, refused; the right sets in force |
| `sidecar` | two processes, a source of four versions, six scenes | by scene | nothing leaks; what is loaded is true and safe; clip, cache and frames as asked for |

Bounds. Requests are unlimited in number and order, one outside each end of the
clip included; every stream, of every display order in `seeks`, is explored to
the end. Four pictures are enough for an IDR, a recovery point with two leading
pictures and one picture after it; five give two recovery points, or a leading
picture on each side of a seek point that was left out. The ring has two or three
slots, so that it wraps within a run; `MaxSlots` bounds it in `seeks` and the
budget in the others.

`scan` takes all mixes of IDR, recovery point, I and P picture in all legal display
orders, with parameter sets at the start, repeated in the middle, or only from the
second picture on (a cut in mid-GOP), with and without access unit delimiters,
further slices and dependent views. Four pictures hold two sequences with a
recovery point and its leading picture in one of them. The POC cycle is 16, the
least H.264 allows, and cut streams start at 12, so that counts wrap in both
directions. POC types 1 and 2 are combined with the plainest wrapping only. The
capacities are 1, 2 and 2, so that every list grows, and may fail to, at least
once. Deadlock is checked: a scan that stopped short would be one.

`decode_loop` has four pictures and two slots, so that the decoder fills, refuses
and drains several times in a stream; the refusals allowed (`StuckLimit`) are 2
for the code's 64, since only their being bounded matters.

`interleave` keeps the shapes of `scan` with three pictures: enough for an IDR, a
recovery point and its leading picture. At the head there are none, one or two
units of orphans; a dependent unit may be missing at the end, repeat the recovery
point, have two slices, or begin with a slice whose header is cut. Deadlock is
checked. 346,223 states.

`headers` writes each syntax element at the ends of its range, every block that may
be present or absent with both, and cuts every header after each of its bytes. The
streams are of two or three NALs, since nothing but the sets in force outlives one.
13,444 states; deadlock is checked.

`sidecar` has one VapourSynth and one AviSynth process on the same source. Its
scenes split what may happen, so that each is explored to the end: writers that die
or fail, with three instances; everything that fails, with one- and two-file
requests; all arguments and cache sizes; every sidecar with one cell spoiled, or cut
short, in either format; a source with nothing to show; and frames of all layouts,
orders of the eyes and pictures with and without a second view, in slots used before.
A block is 8 numbers, so that a sidecar takes three or four; two processes are what
an overlap takes, and three instances let a third find what two have left. Integers
are scaled (`MaxPics` 15, `IntMax` 30, `Int64Max` 63). A size_t counts up to just below
4096 MiB. A view of a picture takes half a MiB, 3 or 17, and the first picture has one
view or two, whatever the index says of the source; with the cache sizes asked for
(-1, 1, 40, 2047, 4095, 4096, 16385) a ring has two slots, the code's most, 4096, or a
number in between, so that every edge is met. The number of opens is bounded and
instances may live on, so deadlock is not checked. 336,774 states.

Fairness. `FairSpec` is weakly fair to the steps of a call in progress (`Lookup`,
and `Advance`, which leaves out the failing decode: no call may count on a failure
to end it): a call runs on its caller's thread and nothing it waits for can be
withheld, apart from edge264 itself, assumed to return. Nothing is fair to the
host: requests may stop at any time. `DecodeLoop` is weakly fair to `Loop`, the
steps of a call, for the same reason. That a call of it returns is part of
`ImplementsPictureSource` and rests on the stuck counter.

### What the violations show

`discard_after_error`: open, seek to a frame behind a recovery point, let the
decode fail while leading pictures are coming out, and ask for a frame whose
display index is at or after the counter but below `valid_from`. `seek_to` sees a
live decoder at or before the target with no closer seek point, goes on with the
run, and `ensure_source_frame` discards the very frame as a leading picture, then
decodes the rest of the stream and reports its end. The comment at line 1540
excludes this; it holds only for runs `seek_to` itself has just started, which
`TargetAlwaysSpared` proves.

`labels_after_tripwire`: the tripwire fails the call in which a POC runs
backwards, but the picture has been taken and not counted. The next request in
range continues the run with every label one too low. `DriftIsLoud` is the weaker
property that does hold, and is proved: the step that loses the count is always
one that fails.

`pps_gate`: the scan's gate opens on any SPS and any PPS, the decoder's on the PPS
a slice names. A stream cut in mid-GOP, in which a PPS with another id comes
first, has slices in between that are counted and never decoded. The first pass
stops at them; the fallback counts them.

`late_enomem`: in `decode_next_output` the question whether a picture is ready
comes before the question whether the NAL failed. When both are so, the failure is
passed over.

### Known limits without a run

* Cache budget. `ring_init` divides the budget by the first picture's size. If that
  picture has no dependent view and later ones do, slots grow to twice the budget,
  which is documented as a ceiling (`mvcsource.c:90-91`, `cache_budget.h:16`).
  `CacheBounded` allows this and no more; `BudgetKept` counts in pictures like the first.
* Sets that are refused. The re-feed before a seek knows a set by its id, the parser and
  the decoder refuse some whose id they can read: an unusable set keeps the one in force
  before it from being fed (`mvcsource.c:915-927`), where a linear decode has it still.
  `RefeedTrue` says that the last set of an id is fed, usable or not.
* POC resets. `h264poc.h:24-28` says an MMCO5 shows as two equal counts. A reset
  whose pictures carry counts none before it had passes the guard, and a recovery
  point gets an index too high, where `mvcsource.c:742` says "never wrong".
* Pending recovery points. One before a picture the gate leaves out stays pending
  and marks the next counted I picture. `Carried` in `MCScanIndex` is such a stream;
  `SeekPointsTrue` fails on it, and `scan` leaves out streams cut there.
* Torn sidecars. A reader that has read a sidecar's header when another process
  empties the file and writes it for a newer version of the source accepts the header
  of one and the lists of the other; so may a reader after two writers that
  overlapped. "Accepted only if it matches this exact source" (`mvcsource.c:229-232`)
  does not hold then. `LoadedTrue` excuses an index read from such an inode
  (`torn`); `LoadedSafe` does not, and holds.
* Thin indexes. A scan that runs out of memory drops seek points, and the sidecar it
  saves keeps them dropped for every later open.
* Large Exp-Golomb values. From 2^31 on they turn negative in the casts to `int`, and
  `log2_max_frame_num`, `log2_max_poc_lsb` and the cycle length pass the upper bounds
  that are to refuse them (`h264poc.h:176-178`). `headers` has no such value, nor SEI
  messages of 255 bytes or more with a payload to match.
* Sets that are cut. A parameter set that has lost its end is refused, and the older set
  of its id stays in force: a slice after it is read by a stale set, and may tell something
  other than what it was written to. `CutHeadersRefused` excludes it (`Legible`).
* Pairing. A dependent unit missing in mid-stream shifts every later pair. Orphans
  that are anchors themselves, more than eight units of them, or a base view that
  starts at a recovery point are not told from the rest.
* A comment (`mvcsource.c:384`) gives the two-file header 48 bytes; its fields take 60.

## 4. Proofs

`MvcSourceProofs` opens with what `Conforming` alone implies. What follows first holds
under every fault. `CacheAlwaysBounded` compares what the slots may hold with what
`ring_init` counted them by (`CapWithin`). `TypeInv` is `TypeOK` with `NoOverrun`
(pictures still owed + pictures counted <= pictures in the stream), which is what
keeps `next_out` in range: the type of a counter is inductive only because of what
the decoder can still put out. A restart re-establishes it through
`DecodedFromCount`: a decoder started at decode index k owes NumPics - k pictures.
`DriftAlwaysLoud` and `NearestSeekPointTaken` use the same invariant.

What is served is proved assuming that no POC runs backwards (`NoBackwardPocs`; the
run `labels_after_tripwire` shows the assumption is needed). The invariant `Safe` adds:

* `LabelsTrue`: as many pictures are owed as are left to count, and past
  `valid_from` they are exactly those from `next_out` on. `PutOutAgrees` is the
  heart of it: while `next_out` is below `valid_from` the least picture owed is a
  leading one, because only NumPics - `valid_from` others exist and more are owed;
  from there on the least picture owed is `next_out`.
* `Sound`: the run's origin is displayed no later than `valid_from`, so whatever
  is not discarded is decoded right.
* `Ordered`: nothing owed is below the last POC, so the tripwire stays quiet.
* `Positioned`, while no decode fails: between calls the counter is past
  `valid_from`, and within one both are at or before the target.

From it follow `LabelsAlwaysTrue`, `RingAlwaysTrue`, `FramesServedTrue`,
`TargetAlwaysSpared`, `NoErrorUnprovoked` and `ImplementsServerSafely` (initial
states map to initial states, every step to a step of `FrameServer` or a stutter).
`SafeInit` and `SafeStep` are its two halves, one lemma per part of `Next`.
`Safe` is inductive only with the parts together: that `CacheCoherent` survives a
store needs the label to be true and the content right.

`WindowAlwaysCached`, while nothing fails (`Undisturbed`), rests on `Safe` and on where
each picture sits (`PlaceOf`): the one stored d steps ago is d slots behind the head. A
run to a distant target passes over pictures without storing them and breaks that
count, but only for those the target does not reach (`Recent`).

`ScanProofs`, for any file and any failing allocations unless said. One invariant
after the other, each used by the next:

* `TypeInv` and `PassType`: every place recorded lies in the part of the file passed.
  From it `ScanTypeCorrect`.
* `ListedInv`, `EndInv`: the list of sets is the sets of the file passed so far, in
  order, as long as it could grow. From it `RefeedCorrect`.
* `ParserInv`: what the parser has stored under an id is the last such set before the
  position that can be used; so what the derivation reads is what a decoder has active.
* `UnitInv`: the access unit of the coming picture begins at `PictureAuStart`.
* `CountInv`, `PointsInv`: `num_pics` is the number of pictures decoded before the
  position, and a seek point is one of them with the first byte of its access unit. From
  them `CountCorrect`, `BoundaryCorrect` and, with no hypothesis, `FirstPassCounts`:
  a first pass that is kept has counted rightly.
* `RecoveryInv`, `StartsInv`: a recovery point that is pending is the coming picture's
  own, so a seek point is where a decoder can start. With them `StreamHandedOver`, the
  assumption of `MvcSource`'s proofs.
* `FallbackInv`: a seek point of the second pass is an IDR. From it `FallbackNeverWrong`.
* `DeriveInv`: the derived count is the encoder's, less an origin that is zero once an
  IDR has come; what is buffered of a sequence agrees with it, and what has been flushed
  has its display index. From it `SeekPointsCorrect`.

Their hypotheses are about the stream, and TLC finds each true of every stream of
`scan` that is not built to break it: `SetsKnown` (a slice past the gate has its sets;
`pps_gate` is why), `RecoveriesPaired` (a recovery point SEI belongs to a picture that
is counted; `Carried` in `MCScanIndex` is why), `RecoveriesExact`, `CountsDiffer` and
`IdrsFirst` (what H.264 asks of an exact recovery point, of two pictures and of an IDR)
and `Coded`: counts of type 0 or 2, coded as H.264 asks, and no reset other than an IDR.

The steps of the two scans differ in where a seek point points and in which NALs are
heard. What they share is `ScanStep`, and what the scan must know of the NAL at hand for
it to be right is `Knows`; from `CountInv` on the invariants are shown to survive every
`ScanStep` under `Knows`, for `ScanIndex` and `Interleave` to instantiate.

Two lemmas on `PocDerive` are what `DeriveInv` rests on. `LsbRecovers`: for every
cycle length the derived count is the true one as long as a picture lies less than
half a cycle below, or at most half a cycle above, the previous reference picture,
which H.264 guarantees. The number of cycles between the two is first bounded to -1, 0
or 1, then each is a case. `FrameNumRecovers` is its like for type 2, where frame
numbers only grow: `FrameNumOffset` finds the full number, `PocType2` counts by it and
hands on the state that finds the next one. `CycleTold` is the arithmetic of it.

`InterleaveProofs`. Each file counts its access units for itself, so the first half is
about counting. The unit `Au` gives a NAL is its access unit in the combined stream less
that of the file's first NAL, since both grow at the same NALs (`AuIsAccess`); the shift
`DepShift` finds is the number of orphans; so a base NAL and a dependent one compare by
turn as they do by access unit, and the number of NALs met ahead of each is the number
of those before it in the stream (`Ranks`). That is `PairsAlwaysTrue`: NAL for NAL, the
spans are the stream again, for files of any length. The second half is the argument of
`ScanProofs` on the spans. `FileInv` has, besides, that the NALs of an access unit lie
together, base part first (`UnitsInOrder`), so that a seek point
names the first span of its picture's unit (`UnitFound`) and a pending SEI is in the
coming picture's own (`PairRecoveryInv`). `PairParserInv` is `ParserInv` for every SPS and
the PPSs that base pictures name: the parser is fed the base view alone, a decoder both
views, so another PPS may be known to one of them only. From them
follow `PairRefeedCorrect`, with no hypothesis, `PairCountCorrect`,
`PairBoundaryCorrect`, `PairStreamHandedOver` and `PairSeekPointsCorrect`.

Their hypotheses are those of `ScanProofs`, `BaseRecoveriesPaired` being
`RecoveriesPaired` of the base view, and `ViewsApart`: a file holds slices of its view
only, the dependent one no set that a base picture names and no NAL behind its last slice. TLC finds
each true of all pairs of `interleave`, but for the one with a reset, which `Coded`
leaves out as above.

`HeaderProofs`. What is left of a NAL that lost its end is read by the very operations
that read the whole. `Behind(r, s)`: the reader r has read what s has, though it may have
fewer bytes, or it has failed. Every operation keeps it, the loops among them by
induction over their turns (`Reached`); what must be shown for it is that the bytes
without emulation bytes begin alike (`RbspBegins`), and, for an SEI, that a recovery point
found in the part is found in the whole (`SeiCut`, by downward recursion over the
messages, `FoundSteps`). So a field is told as it is in the whole NAL, or not at all:
`CutTells`, for any bytes and any sets, with no hypothesis. `CutHeadersRefused` carries
it to whole streams (`CutInv`: the sets in force are among those of the stream's author).
Its hypothesis is `Legible`: the whole bytes tell what the author told, and no set is cut
that was to replace one of its id before a slice (see the known limits).
`SetsStayInForce` says that the last intact set of an id is the one in force; its
hypothesis, `SetsReadBack`, is what `ReadsBack` checks of a set. TLC finds both true of
all streams of `headers`.

`LoopProofs`. The invariant says where each picture of the file is: put out, held by
the decoder, ready, or still to come (`Coming`, which begins after the last NAL the
decoder took). That the four are disjoint and together the file is what makes "fed
once" inductive; `Exact` adds what the last answer of the decoder says of the NAL the
feed stands on, and that a loss is reported before anything else happens. From it
follow `LoopTypeCorrect` under every fault, and, without failures that come late
(`NoLateFailure`; `late_enomem` shows that it is needed), `EachNalFedOnce` and
`ImplementsPicturesSafely`.

`SidecarProofs`. `AcceptedIsSound` is about any sequence of numbers: the checks of
`load_index_cache` compare each seek point only with the one before, and each place
with one bound, and from that the whole list is sorted and everything is inside
(`GrowsThroughout` by the least counterexample). The invariant `TypeInv` says what a
process holds at each `pc`, that it owns a file exactly while an inode is open, and
that no call runs outside of a live instance; each action re-establishes it for the
process that moves (`OneMoves`). That a new sidecar always finds an inode is a matter
of counting (`FreeInode`). From it follow `FilterTypeCorrect`, with one call at a time,
and `NothingEverLeaks`. `DataInv` adds that the index in use is sound and that every
inode is numbers; `LoadedAlwaysSafe` follows, for any processes, leftovers, crashes
and overlaps. It rests on `ScanAssumption` for what is scanned rather than loaded.

`LifeProofs`. `ReadBack` is the law of the sidecar: what `IndexIn` makes of what `Saved`
wrote is the index saved, for either format, by the place of each field. `SavedAccepted`
and `Recognised` are its two halves: a complete file is accepted for its source, and for
no other. What is in the inodes is the invariant `InodesInv`:

* `OnePath`: an inode is reached by one path only, by name or through an open file.
  Without it a writer could spoil what another path's reader was promised.
* `Writer`: who writes an inode alone has put there just the beginning of what it is to
  write. `Reader`: what a process has read so far is the beginning of what is there.
  `Author`: what it writes is a scan of what it has mapped.
* `Content`: a clean inode holds the beginning of a complete sidecar. `Complete`: one
  that is settled, neither being written nor left by a dead writer, holds all of it.

`Content` is why a reader that meets half a file refuses it, `Complete` why one that
meets a settled file may take it. Both are lost as soon as two processes share an inode
while one empties it, which `stained` records and `LoadedTrue` excuses (see the torn
sidecars above). With `Found`, that a process keeps what it loaded, there follow
`LoadedAlwaysTrue` and `NeverPartial`.

`NumbersInv` says what each process's numbers are once they are computed: the ring's
capacity by `CapLaw` and the budget by `BudgetLaw`, the rate by `ReducedLaw`, in which the
greatest common divisor is characterised rather than computed. From it
`BudgetAlwaysKept` and `ClipAlwaysTrue`.

Their hypotheses: `OneBase` (a dependent file goes with one base file: the sidecar
beside it knows the base by size and time only) and `SourcesFit` (a source has no more
pictures than a sidecar may claim, and spans as `build_interleaved` makes them). TLC
finds both true of `sidecar`, and `InodesInv` and `NumbersInv` in all of its states,
before they were proved.

The second half of `LifeProofs` is about bytes, so about addresses: rows of one length never meet
(`InRows`, by quotient and remainder), the planes of a slot lie one behind the other
(`PlacesApart`), and each keeps what was copied into it (`CopiesHold`). From it
`LastPictureRead`: what is read of a slot is the picture stored last, whatever it held
before. For the two layouts that join the views, `Stacked` and `Beside` show that the
second does not spoil the first and that together they fill the frame; then
`FrameShown`, for every size of a view and every row length the host chooses that is no
shorter than a row. The size must be even (`EvenSize`), as H.264 has it with 4:2:0:
of an odd one the halved planes of two views would not fill the frame's halved plane.

`FrameAlwaysTrue` carries this to the frames of `FilterLife`. Its invariant, `Drawn`,
says that the frame a live instance handed over last was made by `mvc_get_frame` in
some slot, with the layout the instance shows and the order of the eyes it was created
with; the rows of the model's host are a byte longer than the frame's (`Stride`). Its
hypotheses are `SourcesFit` and `PicturesFit` (an even size, frames numbered from 0,
pictures with at least a base view); TLC finds them, and `Drawn`, true on `sidecar`.

Model-checked only:

* `SeekPointsTrue` for counts of type 1, whose derivation sums a cycle of offsets, a
  recursion; and for streams with an MMCO5, where it rests on the guard in `flush_cvs`.
* `ReadsBack` of `Headers`: that the parser undoes what a writer does. It takes a writer,
  which the code has none of; that of `MCHeaders` writes the values of the run only.
* Liveness: `RequestAnswered`, the fairness half of `ImplementsServer` and the
  returning of a call in `ImplementsPictureSource`. The prover has no ENABLED.

## 5. Plan

Done: the core with seek and cache, the scan with its POC derivation and re-feed, the
decoder loop, the header parser, the two-file merge, the sidecar, both glues, the
cache budget, plane assembly, and the proofs above. What is left, in this order:

1. `SeekPointsTrue` with resets, from what the guard in `flush_cvs` accepts.
2. Counts of type 1, with the sum over a cycle as a recursive function.
3. `ReadsBack` for every value, from a writer of single syntax elements: that a reader
   at the beginning of an element returns its value and stands behind it.

### Not modelled

The SDK headers of the hosts (`src/include`), which are declarations apart from
`vsh_reduceRational`; the build, packaging and test programs; the callbacks that
return a constant (parity, audio); the system calls behind a mapping; logging and the
wording of errors; field widths of the sidecar and the caps on the lengths of its
lists, which keep a product from overflowing.
