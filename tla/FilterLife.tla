---------------------------- MODULE FilterLife -----------------------------
(***************************************************************************)
(* The life of a filter instance in its host's process: creation by the    *)
(* glue (src/plugin.c, src/avisynth_plugin.c), mvc_open2 with its sidecar, *)
(* the calls of the host, and mvc_close.  Several processes open the same  *)
(* source and share its sidecar; each step of one may come between two of  *)
(* another, a process may die between any two, and the source may be       *)
(* replaced by another file of its name at any time.                       *)
(*                                                                         *)
(* A sidecar is read and written Block cells at a time, as stdio does.  A  *)
(* path names an inode or nothing; a file that was removed or replaced     *)
(* lives on for those that have it open.                                   *)
(***************************************************************************)
EXTENDS IndexCache, ViewAssembly, FiniteSetsExt

CONSTANTS
    Procs, Host,        \* processes, and the host each runs in
    Contents,           \* per source file, its versions in the order they come
    ScanOf(_, _),       \* the index a scan finds: format, versions mapped
    Block,              \* cells stdio reads or writes at once
    Int64Max, IntMax, DefaultRate,
    Mib, SizeMax,       \* bytes in a MiB, and the largest size_t
    MaxSlots,           \* FRAME_CACHE_MAX_SLOTS
    Scenes              \* what the instances live through, one per behaviour

(***************************************************************************)
(* A scene bounds a behaviour: the arguments instances are created with,   *)
(* how many are, what may go wrong, what may lie in a sidecar's place at   *)
(* the start, the first version of the source and the one to follow, the   *)
(* views its pictures may have and the bytes of a picture of one view.     *)
(***************************************************************************)
FaultKinds == {"memory", "map", "sidecar", "decode", "host", "crash"}

ASSUME LifeAssumption ==
    /\ Host \in [Procs -> {"vapoursynth", "avisynth"}]
    /\ IsFiniteSet(Procs) /\ IsFiniteSet(DOMAIN Contents)
    /\ Block \in Nat \ {0}
    /\ 2 * MaxPics <= IntMax
    /\ Mib \in Nat \ {0} /\ SizeMax \in Nat /\ MaxSlots \in Nat /\ MaxSlots >= 2
    /\ \A s \in Scenes : /\ s.opens \in Nat /\ s.faults \subseteq FaultKinds
                         /\ {s.first, s.bytes} \subseteq Nat \ {0}

(* Sources exist, and a sidecar is bytes.                                  *)
ASSUME FilesAssumption ==
    /\ \A f \in DOMAIN Contents :
           /\ Contents[f] \in Seq([size : Nat, mtime : Int, annexb : BOOLEAN])
           /\ Contents[f] # <<>>
    /\ \A s \in Scenes :
           /\ \A a \in s.requests : {a.source, a.dependent} \subseteq {""} \cup DOMAIN Contents
           /\ s.leftovers \subseteq Seq(Int)

(* An argument is given once or not at all; what comes from AviSynth, and  *)
(* the default, can be doubled in 64 bits.                                 *)
ASSUME ArgsAssumption ==
    /\ {MaxPics, IntMax, Int64Max} \subseteq Nat /\ 2 * IntMax <= Int64Max
    /\ DefaultRate \in Seq(Nat \ {0}) /\ Len(DefaultRate) = 2 /\ 2 * DefaultRate[1] <= Int64Max
    /\ \A s \in Scenes : \A a \in s.requests :
           a.cachesize \in Int /\ \A q \in {a.num, a.den} : q \in Seq(Int) /\ Len(q) <= 1

(* The one demand of map_file_ro on the modification time: it differs      *)
(* between two versions of a file that are equally long.                   *)
ASSUME KeysDiffer ==
    \A f \in DOMAIN Contents : \A v, w \in DOMAIN Contents[f] :
        v # w => <<Contents[f][v].size, Contents[f][v].mtime>>
                 # <<Contents[f][w].size, Contents[f][w].mtime>>

VARIABLES
    proc,       \* each process: where it is in its call and what it holds
    version,    \* the version of each source file now on disk
    entry,      \* the inode each sidecar path names, or NoFile
    disk,       \* the cells of each inode
    stained,    \* what happened to an inode since it was last emptied
    scene       \* the behaviour's scene

vars == <<proc, version, entry, disk, stained, scene>>

NoFile == 0
Inodes == 1 .. Cardinality(Procs) + Cardinality(DOMAIN Contents) + 1

(***************************************************************************)
(* own: what is allocated and must be given back; "source" is the struct,  *)
(* "node" the glue's own data.  seen: the versions mapped.  torn: the      *)
(* index was loaded from an inode two processes had open at once.  first:  *)
(* the views of the first picture decoded.                                 *)
(***************************************************************************)
Idle == [pc |-> "idle", own |-> {}, ino |-> NoFile, pos |-> 0, buf |-> <<>>,
         req |-> <<>>, seen |-> <<>>, index |-> <<>>, torn |-> FALSE,
         budget |-> 0, first |-> {}, ring |-> 0, info |-> <<>>, calls |-> 0, frame |-> <<>>, opens |-> 0]

At(p, pc) == proc[p].pc = pc
With(old, new) == [f \in DOMAIN Idle |-> IF f \in DOMAIN new THEN new[f] ELSE old[f]]
Step(p, new) == proc' = [proc EXCEPT ![p] = With(proc[p], new)]
Own(p, more) == proc[p].own \cup more
Less(p, given) == proc[p].own \ given
FilesKept == UNCHANGED <<version, entry, disk, stained>>

(* A mutant: the second mapping is forgotten.                              *)
PartsOfOneFile == {"source", "map", "index", "decoder", "ring"}

(* mvc_close gives back all that hangs on the source, whatever is there.   *)
SourceParts == {"source", "map", "map2", "index", "decoder", "ring"}

(* Back to idle, with what is still held.                                  *)
Leave(p, held) == Step(p, [Idle EXCEPT !.own = held, !.opens = proc[p].opens])
Close(p, besides) == Leave(p, Less(p, SourceParts \cup besides)) /\ FilesKept

-----------------------------------------------------------------------------
(* Arguments: vs_source_create, Create_MVCSource.                          *)

Spellings == [base  |-> {"unset", "base", "left", "l"},
              right |-> {"right", "r"},
              tab   |-> {"tab", "tb", "topbottom"},
              sbs   |-> {"sbs", "lr", "sidebyside"},
              alt   |-> {"alt", "alternate", "alternating"}]

TwoView == {"tab", "sbs", "alt"}
parse_layout(s) == {l \in DOMAIN Spellings : s \in Spellings[l]} \* empty: unknown

(* A rate is a numerator and a denominator, each a sequence that is empty  *)
(* if the argument is not given.                                           *)
ArgErrorUnbounded(a, host) ==     \* a mutant: no upper bound on the rate
    \/ a.source = "" \/ parse_layout(a.stack) = {}
    \/ Len(a.num) # Len(a.den) \/ \E n \in Range(a.num \o a.den) : n <= 0

ArgError(a, host) ==
    \/ a.source = ""
    \/ parse_layout(a.stack) = {}
    \/ Len(a.num) # Len(a.den)
    \/ \E n \in Range(a.num \o a.den) :
           n <= 0 \/ (host = "vapoursynth" /\ n > Int64Max \div 2)

\* A mutant: mb << 20 in a size_t.
BudgetWraps(mb) ==
    LET asked == IF mb > 0 THEN mb ELSE 512
    IN  (Min({Max({asked, 16}), 16384}) * Mib) % (SizeMax + 1)

(* The default is 512 MiB, the range 16 to 16384.                          *)
cache_budget_bytes(mb) ==
    LET asked == IF mb > 0 THEN mb ELSE 512
    IN  Min({Min({Max({asked, 16}), 16384}) * Mib, SizeMax})

(* A request with an error in its arguments is answered at once.  Numbers  *)
(* come from VapourSynth in 64 bits, from AviSynth in 32.                  *)
Create(p) == \E a \in scene.requests :
    /\ At(p, "idle") /\ MapThenSumSet(LAMBDA q : proc[q].opens, Procs) < scene.opens
    /\ Host[p] = "avisynth" => Range(a.num \o a.den) \subseteq 0 .. IntMax
    /\ ~ArgError(a, Host[p])
    /\ Step(p, [pc |-> "map", own |-> {"source"}, req |-> a,
                budget |-> cache_budget_bytes(a.cachesize), opens |-> proc[p].opens + 1])
    /\ FilesKept

-----------------------------------------------------------------------------
(* mvc_open2: the mappings.                                                *)

Fmt(p) == IF proc[p].req.dependent = "" THEN "single" ELSE "double"
Named(p) == IF Fmt(p) = "single" THEN <<proc[p].req.source>>
            ELSE <<proc[p].req.source, proc[p].req.dependent>>
Sidecar(p) == Last(Named(p))                \* "<path>.mvcidx"
Mapped(p, i) == Contents[Named(p)[i]][proc[p].seen[i]]
KeyOf(f) == <<f.size, f.mtime>>
Key(p) == IF Fmt(p) = "single" THEN KeyOf(Mapped(p, 1)) ELSE KeyOf(Mapped(p, 1)) \o KeyOf(Mapped(p, 2))

(* A base file without a start code is closed again; the struct is all     *)
(* there is to free when the base file cannot be mapped.                   *)
MapBase(p) ==
    LET v == version[proc[p].req.source]
    IN  /\ At(p, "map") /\ FilesKept
        /\ \/ "map" \in scene.faults /\ Leave(p, Less(p, {"source"}))
           \/ /\ ~Contents[proc[p].req.source][v].annexb
              /\ Leave(p, Own(p, {"map"}) \ SourceParts)
           \/ /\ Contents[proc[p].req.source][v].annexb
              /\ Step(p, [pc |-> IF Fmt(p) = "single" THEN "find" ELSE "map2",
                          own |-> Own(p, {"map"}), seen |-> <<v>>])

MapDependent(p) ==
    /\ At(p, "map2")
    /\ \/ "map" \in scene.faults /\ Close(p, {})
       \/ /\ Step(p, [pc |-> "find", own |-> Own(p, {"map2"}),
                      seen |-> <<proc[p].seen[1], version[proc[p].req.dependent]>>])
          /\ FilesKept

-----------------------------------------------------------------------------
(* load_index_cache(_2f)                                                   *)

FindSidecar(p) ==
    /\ At(p, "find") /\ FilesKept
    /\ \/ "memory" \in scene.faults /\ Step(p, [pc |-> "scan"])
       \/ /\ entry[Sidecar(p)] = NoFile \/ "sidecar" \in scene.faults
          /\ Step(p, [pc |-> "scan", own |-> Own(p, {"path"})])
       \/ /\ entry[Sidecar(p)] # NoFile
          /\ Step(p, [pc |-> "load", own |-> Own(p, {"path", "file"}), ino |-> entry[Sidecar(p)]])

AtEof(p) == Len(proc[p].buf) >= Len(disk[proc[p].ino])

Read(p) ==
    /\ At(p, "load") /\ ~AtEof(p)
    /\ LET f == disk[proc[p].ino]
           n == Len(proc[p].buf)
       IN  Step(p, [buf |-> proc[p].buf \o SubSeq(f, n + 1, Min({n + Block, Len(f)}))])
    /\ FilesKept

Judge(p) ==
    LET r == proc[p]
    IN  /\ At(p, "load") /\ AtEof(p) /\ FilesKept
        /\ \/ /\ Accepts(r.buf, Fmt(p), Key(p))
              /\ Step(p, [pc |-> "decode", index |-> IndexIn(r.buf, Fmt(p), Key(p)),
                          own |-> Less(p, {"file", "path"}) \cup {"index"},
                          torn |-> stained[r.ino] \cap {"shared", "left"} # {},
                          ino |-> NoFile, buf |-> <<>>])
           \/ /\ ~Accepts(r.buf, Fmt(p), Key(p)) \/ "memory" \in scene.faults
              /\ Step(p, [pc |-> "scan", own |-> Less(p, {"file"}), ino |-> NoFile, buf |-> <<>>])

-----------------------------------------------------------------------------
(* The scan, and save_index_cache(_2f)                                     *)

(* Out of memory a scan stops adding seek points; the two-file build fails *)
(* as a whole.                                                             *)
ScanResults(fmt, seen) ==
    LET x == ScanOf(fmt, seen)
    IN  IF "memory" \in scene.faults /\ fmt = "single"
        THEN {[x EXCEPT !.idx = SubSeq(x.idx, 1, n)] : n \in 0 .. Len(x.idx)} ELSE {x}

Scan(p) ==
    /\ At(p, "scan")
    /\ \/ "memory" \in scene.faults /\ Fmt(p) = "double" /\ Close(p, {"path"})
       \/ \E x \in ScanResults(Fmt(p), proc[p].seen) :
              \/ x.num_pics = 0 /\ Close(p, {"path"})
              \/ /\ x.num_pics > 0
                 /\ Step(p, [pc |-> IF "path" \in proc[p].own THEN "save" ELSE "decode",
                             own |-> Own(p, {"index"}), index |-> x])
                 /\ FilesKept

Holds(p, ino) == proc[p].ino = ino
Unused == {i \in Inodes : i \notin Range(entry) /\ \A p \in Procs : ~Holds(p, i)}

(* fopen "wb" empties the file of that name, or makes one.                 *)
StartSave(p) ==
    LET ino == IF entry[Sidecar(p)] # NoFile THEN entry[Sidecar(p)] ELSE Min(Unused)
    IN  /\ At(p, "save") /\ UNCHANGED version
        /\ \/ /\ "sidecar" \in scene.faults
              /\ Step(p, [pc |-> "decode", own |-> Less(p, {"path"})])
              /\ UNCHANGED <<entry, disk, stained>>
           \/ /\ Step(p, [pc |-> "write", own |-> Own(p, {"file"}), ino |-> ino, pos |-> 0])
              /\ entry' = [entry EXCEPT ![Sidecar(p)] = ino]
              /\ disk' = [disk EXCEPT ![ino] = <<>>]
              /\ stained' = [stained EXCEPT ![ino] =
                     IF \E q \in Procs \ {p} : Holds(q, ino) THEN {"shared"} ELSE {}]

(* A write past the end leaves zeros in between.                           *)
WriteAt(f, pos, cells) ==
    [i \in 1 .. Max({Len(f), pos + Len(cells)}) |->
        IF i - pos \in DOMAIN cells THEN cells[i - pos]
        ELSE IF i <= Len(f) THEN f[i] ELSE 0]

ToWrite(p) == Saved(Fmt(p), Key(p), proc[p].index)

Write(p) ==
    LET to == Min({proc[p].pos + Block, Len(ToWrite(p))})
    IN  /\ At(p, "write") /\ proc[p].pos < Len(ToWrite(p))
        /\ Step(p, [pos |-> to])
        /\ disk' = [disk EXCEPT ![proc[p].ino] =
                        WriteAt(@, proc[p].pos, SubSeq(ToWrite(p), proc[p].pos + 1, to))]
        /\ UNCHANGED <<version, entry, stained>>

SavingUnclosed(p) ==              \* a mutant: no fclose
    Step(p, [pc |-> "decode", own |-> Less(p, {"path"}), ino |-> NoFile, pos |-> 0])

Saving(p) == Step(p, [pc |-> "decode", own |-> Less(p, {"file", "path"}), ino |-> NoFile, pos |-> 0])

EndSave(p) ==
    /\ At(p, "write") /\ proc[p].pos = Len(ToWrite(p))
    /\ Saving(p) /\ FilesKept

SpoilKeeps(p) ==                  \* a mutant: the partial file stays
    /\ "sidecar" \in scene.faults /\ At(p, "write")
    /\ Saving(p) /\ FilesKept

(* A write or the fclose fails: the name is removed, whatever it is of now.*)
SpoilSave(p) ==
    /\ "sidecar" \in scene.faults /\ At(p, "write")
    /\ Saving(p)
    /\ entry' = [entry EXCEPT ![Sidecar(p)] = NoFile]
    /\ UNCHANGED <<version, disk, stained>>

-----------------------------------------------------------------------------
(* The rest of mvc_open2, and the host's node.                             *)

(* What a picture of the source may show; any may lack its second view.    *)
PicturesOf(p) ==
    {views \in scene.pictures :
        "dependent" \in views => ScanOf(Fmt(p), proc[p].seen).is_mvc # 0}

slot_bytes(views) == IF "dependent" \in views THEN 2 * scene.bytes ELSE scene.bytes

(* ring_init: the slots of this size that fit the budget, at least 2.      *)
RingCap(budget, bytes) == Min({Max({budget \div bytes, 2}), MaxSlots})

(* The ring is sized from the first picture, whatever the others are.      *)
FirstFrame(p) ==
    /\ At(p, "decode")
    /\ \/ "decode" \in scene.faults /\ Close(p, {})
       \/ \E views \in PicturesOf(p) :
             /\ Step(p, [pc |-> "node", own |-> Own(p, {"decoder", "ring"}), first |-> views,
                         ring |-> RingCap(proc[p].budget, slot_bytes(views))])
             /\ FilesKept

Reduced(q) ==
    LET g == Max({d \in 1 .. q[2] : q[1] % d = 0 /\ q[2] % d = 0})
    IN  <<q[1] \div g, q[2] \div g>>

(* The layouts of two views fall back to one where there is no second.     *)
VideoInfo(p) ==
    LET r == proc[p].req
        layout == CHOOSE l \in parse_layout(r.stack) : TRUE
        shown == IF layout \in TwoView /\ proc[p].index.is_mvc = 0 THEN "base" ELSE layout
        rate == IF r.num = <<>> THEN DefaultRate ELSE r.num \o r.den
        times == IF shown = "alt" THEN 2 ELSE 1
        timed == <<times * rate[1], rate[2]>>
    IN  [layout |-> shown, width |-> FrameWidth(shown), height |-> FrameHeight(shown),
         frames |-> times * proc[p].index.num_pics,
         rate |-> IF Host[p] = "vapoursynth" THEN Reduced(timed) ELSE timed]

(* vs_source_create ends: the host may refuse the node, and then never     *)
(* calls the free function.                                                *)
NewFilter(p) ==
    /\ At(p, "node") /\ Host[p] = "vapoursynth"
    /\ \/ "host" \in scene.faults /\ Close(p, {"node"})
       \/ Step(p, [pc |-> "live", info |-> VideoInfo(p), own |-> Own(p, {"node"})]) /\ FilesKept

(* Create_MVCSource ends: the host makes the node itself.                  *)
NewClip(p) ==
    /\ At(p, "node") /\ Host[p] = "avisynth"
    /\ \/ "host" \in scene.faults /\ Close(p, {})
       \/ Step(p, [pc |-> "live", info |-> VideoInfo(p)]) /\ FilesKept

-----------------------------------------------------------------------------
(* The host's calls, and the end.                                          *)

mvc_cb_set_cache_hints(hint) == IF hint = "GET_MTMODE" THEN "MT_SERIALIZED" ELSE "0"

(* How a filter tells its host what calls it can take at once.             *)
FilterMode(host) ==
    IF host = "vapoursynth" THEN "fmUnordered" ELSE mvc_cb_set_cache_hints("GET_MTMODE")

(* The hosts run one call at a time of a node that declares itself so.     *)
BeginCall(p) ==
    /\ At(p, "live") /\ proc[p].calls < 2
    /\ FilterMode(Host[p]) \in {"fmUnordered", "MT_SERIALIZED"} => proc[p].calls = 0
    /\ Step(p, [calls |-> proc[p].calls + 1, frame |-> <<>>]) /\ FilesKept

(* A host's frame has rows of its own length.                              *)
Stride(info) == [plane \in Planes |-> (IF plane = "Y" THEN info.width ELSE info.width \div 2) + 1]

(* What a slot may hold before a picture is put into it: nothing, or what  *)
(* is left of any other picture.                                           *)
Slots == {NewSlot} \cup {ring_store(NewSlot, -1, views) : views \in scene.pictures}

(* A call ends with a frame handed to the host or, after an error, given   *)
(* back.                                                                   *)
EndCall(p) == \E n \in scene.frames :
    LET i == proc[p].info
    IN  /\ proc[p].calls > 0 /\ FilesKept
        /\ \/ /\ n >= i.frames \/ "decode" \in scene.faults
              /\ Step(p, [calls |-> proc[p].calls - 1])
           \/ /\ n < i.frames
              /\ \E views \in PicturesOf(p), slot \in Slots :
                     /\ SourceOf(i.layout, n) = 0 => views = proc[p].first
                     /\ Step(p, [calls |-> proc[p].calls - 1,
                                 frame |-> [n |-> n, views |-> views, planes |->
                                     mvc_get_frame(slot, n, views, i.layout, proc[p].req.swaplr, Stride(i))]])

FreeNode(p) ==
    /\ At(p, "live") /\ proc[p].calls = 0
    /\ Close(p, {"node"})

(* The system takes back all a dead process held but what it wrote.        *)
Crash(p) ==
    /\ "crash" \in scene.faults /\ proc[p].pc \notin {"idle", "live"}
    /\ Leave(p, {})
    /\ stained' = [stained EXCEPT ![proc[p].ino] = IF At(p, "write") THEN @ \cup {"died"} ELSE @]
    /\ UNCHANGED <<version, entry, disk>>

Replace(f) ==
    /\ version[f] < Min({scene.first + 1, Len(Contents[f])})
    /\ version' = [version EXCEPT ![f] = @ + 1]
    /\ UNCHANGED <<proc, entry, disk, stained>>

-----------------------------------------------------------------------------
(* At the start a sidecar may be missing, or be anything at all.           *)
Init ==
    /\ proc = [p \in Procs |-> Idle]
    /\ scene \in Scenes
    /\ version = [f \in DOMAIN Contents |-> Min({scene.first, Len(Contents[f])})]
    /\ \E f \in DOMAIN Contents, left \in scene.leftovers :
          /\ entry = [g \in DOMAIN Contents |-> IF g = f /\ left # <<>> THEN 1 ELSE NoFile]
          /\ disk = [i \in Inodes |-> IF i = 1 THEN left ELSE <<>>]
    /\ stained = [i \in Inodes \cup {NoFile} |-> IF i = 1 THEN {"left"} ELSE {}]

Opening(p) ==
    \/ MapBase(p) \/ MapDependent(p) \/ FindSidecar(p) \/ Read(p) \/ Judge(p)
    \/ Scan(p) \/ StartSave(p) \/ Write(p) \/ EndSave(p) \/ SpoilSave(p)
    \/ FirstFrame(p) \/ NewFilter(p) \/ NewClip(p)

Serving(p) == Create(p) \/ BeginCall(p) \/ EndCall(p) \/ FreeNode(p)

Next ==
    /\ UNCHANGED scene
    /\ \/ \E p \in Procs : Opening(p) \/ Serving(p) \/ Crash(p)
       \/ \E f \in DOMAIN Contents : Replace(f)

Spec == Init /\ [][Next]_vars

-----------------------------------------------------------------------------
(* Types.  The source keeps its state without a lock: no two calls are in  *)
(* it at once.                                                             *)
TypeOK ==
    /\ \A p \in Procs :
          /\ proc[p].calls \in {0, 1}
          /\ DOMAIN proc[p] = DOMAIN Idle
          /\ proc[p].own \subseteq SourceParts \cup {"path", "file", "node"}
          /\ proc[p].ino \in Inodes \cup {NoFile}
          /\ ("file" \in proc[p].own) <=> (proc[p].ino # NoFile)
    /\ \A f \in DOMAIN Contents : version[f] \in DOMAIN Contents[f]
    /\ entry \in [DOMAIN Contents -> Inodes \cup {NoFile}]
    /\ \A i \in Inodes : stained[i] \subseteq {"shared", "died", "left"}

(* Every way out of a filter instance, the error paths of the glue and of  *)
(* mvc_open2 included, gives back what had been acquired up to there; a    *)
(* live instance holds no file and no path any more.                       *)
NothingLeaks == \A p \in Procs :
    /\ At(p, "idle") => proc[p].own = {}
    /\ At(p, "live") => proc[p].own \cap {"path", "file"} = {}

(* load_index_cache: a sidecar is accepted only if it matches this exact   *)
(* source.  What was loaded is what a scan of the versions mapped gives,   *)
(* though writers die, fail or are still at work and the source changes,   *)
(* unless two processes had the file open at once or it came from outside. *)
LoadedTrue == \A p \in Procs :
    proc[p].index # <<>> => proc[p].torn \/ proc[p].index \in ScanResults(Fmt(p), proc[p].seen)

(* A seek point can be found by bisection, on either of its indices.       *)
Searchable(x, fmt) ==
    LET F == FrameColumn[fmt]
    IN  /\ \A i, j \in DOMAIN x.idx :
               i < j => x.idx[i][F] < x.idx[j][F] /\ x.idx[i][F + 1] < x.idx[j][F + 1]
        /\ \A i \in DOMAIN x.idx : 0 <= x.idx[i][F] /\ x.idx[i][F] <= x.idx[i][F + 1]
                                   /\ x.idx[i][F + 1] < x.num_pics

(* Nothing in it points outside of files of these sizes, or their spans.   *)
Inside(x, fmt, sizes) ==
    /\ fmt = "single" =>
           /\ \A i \in DOMAIN x.idx : x.idx[i][1] \in 0 .. sizes[1] - 1
           /\ \A i \in DOMAIN x.ps :
                  LET end == x.ps[i][1] + x.ps[i][2]
                  IN  x.ps[i][1] \in 0 .. end /\ end <= sizes[1]
    /\ fmt = "double" =>
           /\ \A i \in DOMAIN x.idx : x.idx[i][3] + 1 \in DOMAIN x.spans
           /\ \A i \in DOMAIN x.ps : x.ps[i][3] + 1 \in DOMAIN x.spans
           /\ \A i \in DOMAIN x.spans :
                  /\ x.spans[i][2] \in 0 .. x.spans[i][3]
                  /\ x.spans[i][3] <= sizes[x.spans[i][1] + 1]

IndexType(fmt) ==
    [num_pics : Int, is_mvc : Int, spans : Seq([1 .. 3 -> Int]),
     idx : Seq([1 .. 3 -> Int]), ps : Seq([1 .. PsWidth[fmt] -> Int])]

Sound(x, fmt, sizes) ==
    x \in IndexType(fmt) /\ (x.num_pics > 0 => Searchable(x, fmt) /\ Inside(x, fmt, sizes))

(* What a scan itself finds is sound (ScanIndex, Interleave).              *)
ASSUME ScanAssumption ==
    \A s \in Scenes : \A a \in s.requests : a.source # "" =>
        \A v \in DOMAIN Contents[a.source] :
            LET n == Contents[a.source][v].size
            IN  IF a.dependent = "" THEN Sound(ScanOf("single", <<v>>), "single", <<n>>)
                ELSE \A w \in DOMAIN Contents[a.dependent] :
                        Sound(ScanOf("double", <<v, w>>), "double", <<n, Contents[a.dependent][w].size>>)

(* Whatever lies in a sidecar's place, what is taken from it points        *)
(* nowhere outside its source, and its seek points can be searched.        *)
LoadedSafe == \A p \in Procs :
    proc[p].index # <<>> =>
        /\ Searchable(proc[p].index, Fmt(p))
        /\ Inside(proc[p].index, Fmt(p), [i \in DOMAIN proc[p].seen |-> Mapped(p, i).size])

(* save_index_cache: a failed write leaves no partial file.  A sidecar     *)
(* nobody is writing is whole, unless a writer died or two wrote at once.  *)
NoPartialLeft == \A f \in DOMAIN Contents :
    LET i == entry[f]
    IN  (i # NoFile /\ stained[i] = {} /\ \A p \in Procs : At(p, "write") => ~Holds(p, i)) =>
            \E fmt \in Formats, n \in {3, 5} :
                n <= Len(disk[i]) /\ Accepts(disk[i], fmt, SubSeq(disk[i], 2, n))

(* The clip a host is shown has the frames of the source, twice for alt,   *)
(* at the rate asked for, twice for alt, and no integer on the way there   *)
(* overflows; VapourSynth is given the rate in lowest terms.               *)
ClipTrue == \A p \in Procs : At(p, "live") =>
    LET i == proc[p].info
        r == proc[p].req
        times == IF i.layout = "alt" THEN 2 ELSE 1
        asked == IF r.num = <<>> THEN DefaultRate ELSE r.num \o r.den
    IN  /\ i.frames = times * proc[p].index.num_pics /\ i.frames \in 1 .. IntMax
        /\ i.layout \in TwoView => proc[p].index.is_mvc # 0
        /\ i.rate[1] * asked[2] = times * asked[1] * i.rate[2]
        /\ times * asked[1] <= Int64Max
        /\ Host[p] = "vapoursynth" =>
               \A d \in 2 .. i.rate[2] : i.rate[1] % d # 0 \/ i.rate[2] % d # 0

(* The cache is as large as was asked for, within its range, in pictures   *)
(* like the first, and not one of them smaller, unless the address space   *)
(* or MaxSlots is: a size beyond what size_t counts must not shrink it     *)
(* (cache_budget.h:22-25).                                                 *)
BudgetKept == \A p \in Procs : At(p, "live") =>
    LET n == proc[p].ring
        bytes == slot_bytes(proc[p].first)
        mb == proc[p].req.cachesize
        asked == Mib * (IF mb <= 0 THEN 512 ELSE IF mb > 16384 THEN 16384 ELSE mb)
    IN  /\ n > 2 => n * bytes <= Max({asked, 16 * Mib})
        /\ n < MaxSlots => (n + 1) * bytes > Min({asked, SizeMax})

(* In every frame handed over each sample of the host's planes, and no byte*)
(* between their rows, was written, with the sample mvcsource.h promises   *)
(* there: base over dependent, base left of dependent, base and dependent  *)
(* in turn, the other way round with swaplr, and the base view in place of *)
(* one that a picture lacks; whatever the picture's slot held before.      *)
FrameTrue == \A p \in Procs : proc[p].frame # <<>> =>
    LET i == proc[p].info
        f == proc[p].frame
        eyes == IF proc[p].req.swaplr THEN <<"dependent", "base">> ELSE <<"base", "dependent">>
        View(eye) == IF eyes[eye] \in f.views THEN eyes[eye] ELSE "base"
        Promised(w, h, x, y) ==
            LET eye == CASE i.layout = "base" -> 1
                         [] i.layout = "right" -> 2
                         [] i.layout = "tab" -> 1 + y \div h
                         [] i.layout = "sbs" -> 1 + x \div w
                         [] i.layout = "alt" -> 1 + (f.n % 2)
            IN  <<IF i.layout = "alt" THEN f.n \div 2 ELSE f.n, View(eye), x % w, y % h>>
    IN  \A plane \in Planes :
            LET w == IF plane = "Y" THEN i.width ELSE i.width \div 2
                h == IF plane = "Y" THEN i.height ELSE i.height \div 2
                places == (0 .. w - 1) \X (0 .. h - 1)
                Address(at) == at[2] * Stride(i)[plane] + at[1]
            IN  /\ DOMAIN f.planes[plane] = {Address(at) : at \in places}
                /\ \A at \in places : f.planes[plane][Address(at)] =
                       Promised(PlaneWidth(plane), PlaneHeight(plane), at[1], at[2])
=============================================================================
