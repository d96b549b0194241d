----------------------------- MODULE LoopProofs -----------------------------
(***************************************************************************)
(* Theorems about DecodeLoop, for streams of any length and display order, *)
(* decoders of any size and any number of refusals.                        *)
(*                                                                         *)
(* The inductive invariant says where a picture can be: it is fetched, or  *)
(* the decoder holds it, or it is ready, or its NAL is still to come.      *)
(***************************************************************************)
EXTENDS DecodeLoop, Minima

\* The last NAL the decoder has taken, and the pictures after it.
Passed == IF pc = "fed" /\ result = "ok" /\ ~at_end THEN feed ELSE feed - 1
Coming == PicturesFrom(Passed + 1)

TypeInv ==
    /\ TypeOK
    /\ file \in Files
    /\ Coming \subseteq owed
    /\ Coming \cap (held \cup ready) = {}
    /\ pc \in {"feeding", "fed"} => stuck <= StuckLimit

-----------------------------------------------------------------------------
(* Files *)

LEMMA FileType ==
  ASSUME NEW f \in Files
  PROVE  /\ Len(f) \in Nat /\ Len(f) >= 1
         /\ \A i \in 1..Len(f) : f[i] \in Nat \cup {NoPicture}
         /\ \A i, j \in 1..Len(f) : f[i] = f[j] /\ f[i] # NoPicture => i = j
<1>1. f \in Seq(Nat \cup {NoPicture}) /\ f # <<>>
  BY FilesAssumption
<1>2. Len(f) \in Nat /\ \A i \in 1..Len(f) : f[i] \in Nat \cup {NoPicture}
  BY <1>1
<1>3. Len(f) # 0
  BY <1>1
<1> QED BY <1>2, <1>3, FilesAssumption

\* Pictures are naturals, and those of a NAL come no later in the file.
LEMMA PicturesType ==
  ASSUME file \in Files, NEW p \in Int, p >= 1
  PROVE  /\ PicturesFrom(p) \subseteq Nat
         /\ p > Len(file) => PicturesFrom(p) = {}
<1>1. \A x \in PicturesFrom(p) : \E i \in 1..Len(file) : i >= p /\ x = file[i] /\ x # NoPicture
  BY FileType DEF PicturesFrom, PicturesOf
<1>2. PicturesFrom(p) \subseteq Nat
  BY <1>1, FileType
<1>3. p > Len(file) => PicturesFrom(p) = {}
  BY <1>1, FileType
<1> QED BY <1>2, <1>3

\* Passing a NAL takes its picture, if it has one, off what is to come.
LEMMA PassNal ==
  ASSUME file \in Files, NEW p \in 1..Len(file)
  PROVE  /\ file[p] = NoPicture => PicturesFrom(p) = PicturesFrom(p + 1)
         /\ file[p] # NoPicture => /\ PicturesFrom(p) = PicturesFrom(p + 1) \cup {file[p]}
                                   /\ file[p] \notin PicturesFrom(p + 1)
<1>1. /\ Len(file) \in Nat
      /\ \A i, j \in 1..Len(file) : file[i] = file[j] /\ file[i] # NoPicture => i = j
  BY FileType
<1>2. p..Len(file) = (p + 1..Len(file)) \cup {p}
  BY <1>1
<1>3. PicturesFrom(p) = PicturesFrom(p + 1) \cup ({file[p]} \ {NoPicture})
  BY <1>2 DEF PicturesFrom, PicturesOf
<1>4. file[p] # NoPicture => file[p] \notin PicturesFrom(p + 1)
  BY <1>1 DEF PicturesFrom, PicturesOf
<1> QED BY <1>3, <1>4

-----------------------------------------------------------------------------
(* Types *)

LEMMA TypeInit == Init => TypeInv
<1> SUFFICES ASSUME Init PROVE TypeInv
  OBVIOUS
<1>1. file \in Files /\ Len(file) \in Nat /\ Len(file) >= 1
  BY FileType DEF Init
<1>2. Passed = 0 /\ Coming = owed
  BY <1>1 DEF Init, Passed, Coming
<1>3. TypeOK
  BY <1>1, LoopAssumption DEF Init, TypeOK, Results
<1> QED BY <1>1, <1>2, <1>3 DEF TypeInv, Init

\* What the decoder makes of a NAL: it takes the NAL or it does not, and moves
\* pictures from those it holds to those that are ready.
LEMMA FeedMoves ==
  ASSUME TypeInv, Feed
  PROVE  /\ ready = {} /\ ready' \cap held' = {}
         /\ UNCHANGED <<file, feed, first, stuck, owed, answer>> /\ pc' = "fed"
         /\ result' \in Results
         /\ \/ /\ result' = "ok" /\ ~at_end /\ file[feed] # NoPicture
               /\ held' \cup ready' = held \cup {file[feed]}
               /\ taken' = Append(taken, feed)
            \/ /\ result' = "ok" => at_end \/ file[feed] = NoPicture
               /\ held' \cup ready' = held
               /\ taken' = taken
<1>1. ready = {}
  BY DEF TypeInv, TypeOK, Feed
<1>2. /\ UNCHANGED <<file, feed, first, stuck, owed, answer>> /\ pc' = "fed"
      /\ edge264_decode_NAL
  BY DEF Feed
<1>3. ASSUME NEW pics, NEW coming, NEW out \in Release(pics, coming), MakeReady(out, pics)
      PROVE  ready' \cap held' = {} /\ held' \cup ready' = pics
  BY <1>1, <1>3 DEF Release, MakeReady
<1>4. CASE Refuse
  BY <1>1, <1>2, <1>3, <1>4 DEF Refuse, Results
<1>5. CASE Skip
  BY <1>1, <1>2, <1>3, <1>5 DEF Skip, Results
<1>6. CASE Take
  BY <1>1, <1>2, <1>3, <1>6 DEF Take, Results
<1>7. CASE Lose
  BY <1>1, <1>2, <1>3, <1>7 DEF Lose, Results
<1>8. CASE Drain
  BY <1>1, <1>2, <1>3, <1>8 DEF Drain, Results
<1> QED BY <1>2, <1>4, <1>5, <1>6, <1>7, <1>8 DEF edge264_decode_NAL

\* A picture is fetched once: it is no longer owed, and was not still to come.
LEMMA FetchType ==
  ASSUME TypeInv, Fetch, file' = file, first' = first
  PROVE  /\ ready # {} /\ Min(ready) \in ready
         /\ held' = held /\ ready' = ready \ {Min(ready)} /\ owed' = owed \ {Min(ready)}
         /\ held' \cap ready' = {} /\ held' \cup ready' \subseteq owed'
         /\ owed' \subseteq PicturesFrom(first)'
         /\ Coming \subseteq owed' /\ Coming \cap (held' \cup ready') = {}
         /\ pc' = "idle"
<1>1. owed \subseteq Nat
  <2>1. file \in Files /\ first \in Int /\ first >= 1 /\ owed \subseteq PicturesFrom(first)
    BY DEF TypeInv, TypeOK
  <2> QED BY <2>1, PicturesType
<1>2. ready \subseteq owed /\ ready # {}
  BY DEF TypeInv, TypeOK, Fetch
<1>3. Min(ready) \in ready
  BY <1>1, <1>2, MinExists
<1>4. PicturesFrom(first)' = PicturesFrom(first)
  BY DEF PicturesFrom
<1> QED BY <1>2, <1>3, <1>4 DEF TypeInv, TypeOK, Fetch

\* Every step keeps every variable within its type and every picture in one
\* place.
LEMMA TypeStep == TypeInv /\ [Next]_vars => TypeInv'
<1> SUFFICES ASSUME TypeInv, [Next]_vars PROVE TypeInv'
  OBVIOUS
<1>0. /\ file \in Files /\ Len(file) \in Nat /\ Len(file) >= 1
      /\ feed \in Int /\ first \in Int /\ feed >= 1 /\ feed >= first /\ feed <= Len(file) + 1
      /\ StuckLimit \in Nat /\ stuck \in 0..StuckLimit + 1
  BY FileType, LoopAssumption DEF TypeInv, TypeOK
<1>1. ASSUME file' = file, first' = first, owed' = owed, decoder' = decoder,
             feed' \in first..Len(file) + 1, Passed' = Passed,
             result' = result, stuck' \in 0..StuckLimit + 1,
             pc' \in {"idle", "called", "feeding", "fed"}, pc' = "feeding" => ready = {},
             pc' \in {"feeding", "fed"} => stuck' <= StuckLimit
      PROVE  TypeInv'
  <2>1. TypeOK'
    BY <1>1 DEF TypeInv, TypeOK, decoder, PicturesFrom
  <2>2. Coming' = Coming
    BY <1>1 DEF Coming, PicturesFrom
  <2> QED BY <1>1, <2>1, <2>2 DEF TypeInv, decoder
<1>2. CASE Seek
  <2>1. PICK p \in 1..Len(file) : Start(p)
    BY <1>2 DEF Seek
  <2>2. file' = file /\ pc' = "idle" /\ pc = "idle" /\ result' = result /\ stuck' = stuck
    BY <1>2 DEF Seek
  <2>3. /\ feed' = p /\ first' = p /\ held' = {} /\ ready' = {}
        /\ owed' = PicturesFrom(p) /\ PicturesFrom(first)' = PicturesFrom(p)
    BY <2>1, <2>2 DEF Start, PicturesFrom
  <2>4. Passed' + 1 = p
    BY <2>2, <2>3 DEF Passed
  <2>5. Coming' = PicturesFrom(p)
    BY <2>2, <2>4 DEF Coming, PicturesFrom
  <2>6. TypeOK'
    BY <1>0, <2>2, <2>3 DEF TypeInv, TypeOK
  <2> QED BY <1>0, <2>2, <2>3, <2>5, <2>6 DEF TypeInv
<1>3. CASE Call
  <2>1. pc = "idle" /\ pc' = "called"
    BY <1>3 DEF Call
  <2>2. Passed' = Passed
    BY <1>3, <2>1 DEF Call, Passed
  <2> QED BY <1>0, <1>1, <1>3, <2>1, <2>2 DEF Call, TypeInv, TypeOK
<1>4. CASE FetchFirst
  <2>1. pc = "called" /\ UNCHANGED <<file, feed, first, result, stuck>> /\ Fetch
    BY <1>4 DEF FetchFirst
  <2>2. Passed' = Passed /\ Coming' = Coming
    BY <2>1 DEF Fetch, Passed, Coming, PicturesFrom
  <2>3. TypeOK'
    BY <1>0, <2>1, FetchType DEF TypeInv, TypeOK
  <2> QED BY <1>0, <2>1, <2>2, <2>3, FetchType DEF TypeInv
<1>5. CASE StartFeeding
  <2>1. pc = "called" /\ pc' = "feeding" /\ ready = {} /\ stuck' = 0
    BY <1>5 DEF StartFeeding
  <2>2. Passed' = Passed
    BY <1>5, <2>1 DEF StartFeeding, Passed
  <2> QED BY <1>0, <1>1, <1>5, <2>1, <2>2 DEF StartFeeding, TypeInv, TypeOK
<1>6. CASE Feed
  <2>1. pc = "feeding" /\ Passed + 1 = feed
    BY <1>0, <1>6 DEF Feed, Passed
  <2>2. /\ UNCHANGED <<file, feed, first, stuck, owed>> /\ pc' = "fed"
        /\ ready = {} /\ ready' \cap held' = {} /\ result' \in Results
        /\ PicturesFrom(first)' = PicturesFrom(first)
    BY <1>6, FeedMoves DEF PicturesFrom
  <2>3. Coming = PicturesFrom(feed)
    BY <2>1 DEF Coming
  <2>4. ASSUME result' = "ok", ~at_end, file[feed] # NoPicture,
               held' \cup ready' = held \cup {file[feed]}
        PROVE  Coming' \cup {file[feed]} = Coming /\ file[feed] \notin Coming'
    <3>1. Passed' = feed
      BY <2>2, <2>4 DEF Passed, at_end
    <3>2. Coming' = PicturesFrom(feed + 1)
      BY <2>2, <3>1 DEF Coming, PicturesFrom
    <3>3. feed \in 1..Len(file)
      BY <1>0, <2>4 DEF at_end
    <3> QED BY <1>0, <2>3, <2>4, <3>2, <3>3, PassNal
  <2>5. ASSUME result' = "ok" => at_end \/ file[feed] = NoPicture
        PROVE  Coming' = Coming
    <3>1. CASE result' = "ok" /\ ~at_end
      <4>1. Passed' = feed
        BY <2>2, <3>1 DEF Passed, at_end
      <4>2. Coming' = PicturesFrom(feed + 1)
        BY <2>2, <4>1 DEF Coming, PicturesFrom
      <4>3. feed \in 1..Len(file) /\ file[feed] = NoPicture
        BY <1>0, <2>5, <3>1 DEF at_end
      <4> QED BY <1>0, <2>3, <4>2, <4>3, PassNal
    <3>2. CASE ~(result' = "ok" /\ ~at_end)
      <4>1. Passed' = feed - 1
        BY <2>2, <3>2 DEF Passed, at_end
      <4>2. Coming' = PicturesFrom(feed - 1 + 1)
        BY <2>2, <4>1 DEF Coming, PicturesFrom
      <4> QED BY <1>0, <2>3, <4>2
    <3> QED BY <3>1, <3>2
  <2>6. /\ held' \cup ready' \subseteq owed /\ Coming' \subseteq owed
        /\ Coming' \cap (held' \cup ready') = {}
    BY <1>6, <2>2, <2>4, <2>5, FeedMoves DEF TypeInv, TypeOK
  <2>7. TypeOK'
    BY <2>2, <2>6 DEF TypeInv, TypeOK
  <2> QED BY <2>1, <2>2, <2>6, <2>7 DEF TypeInv
<1>7. CASE FetchFed
  <2>1. pc = "fed" /\ feed' = PastFetched /\ UNCHANGED <<file, first, result, stuck>> /\ Fetch
    BY <1>7 DEF FetchFed
  <2>2. Passed' = feed' - 1 /\ Coming' = PicturesFrom(feed' - 1 + 1)
    BY <2>1, FetchType DEF Passed, Coming, PicturesFrom
  <2>3. Coming' \subseteq Coming /\ feed' \in first..Len(file) + 1
    <3>1. CASE result = "ok" /\ ~at_end
      <4>1. feed' = feed + 1 /\ feed <= Len(file) /\ Passed = feed
        BY <1>0, <2>1, <3>1 DEF PastFetched, Passed, at_end
      <4>2. Coming' = Coming
        BY <1>0, <2>2, <4>1 DEF Coming
      <4> QED BY <1>0, <4>1, <4>2
    <3>2. CASE result # "ok" /\ feed' = feed + 1
      <4>1. feed \in 1..Len(file)
        BY <1>0, <2>1, <3>2 DEF PastFetched, at_end
      <4>2. PicturesFrom(feed + 1) \subseteq PicturesFrom(feed)
        BY <1>0, <4>1, PassNal
      <4>3. Coming = PicturesFrom(feed - 1 + 1)
        BY <3>2 DEF Passed, Coming
      <4>4. feed - 1 + 1 = feed /\ feed' - 1 + 1 = feed + 1
        BY <1>0, <3>2
      <4>5. Coming' \subseteq Coming
        BY <2>2, <4>2, <4>3, <4>4
      <4> QED BY <1>0, <3>2, <4>1, <4>5
    <3>3. CASE feed' = feed /\ (result # "ok" \/ at_end)
      BY <1>0, <2>2, <3>3 DEF Passed, Coming
    <3> QED BY <2>1, <3>1, <3>2, <3>3 DEF PastFetched, at_end
  <2>4. TypeOK'
    BY <1>0, <2>1, <2>3, FetchType DEF TypeInv, TypeOK
  <2> QED BY <1>0, <2>1, <2>3, <2>4, FetchType DEF TypeInv
<1>8. CASE Retry
  <2>1. /\ pc' = "feeding" /\ ready = {} /\ result = "ENOBUFS"
        /\ stuck' \in 0..StuckLimit + 1 /\ stuck' <= StuckLimit
    BY <1>0, <1>8 DEF Retry, Nothing, Refusals
  <2>2. Passed' = Passed
    BY <1>8, <2>1 DEF Retry, Passed
  <2> QED BY <1>0, <1>1, <1>8, <2>1, <2>2 DEF Retry, TypeInv, TypeOK
<1>9. CASE Stalled
  <2>1. /\ pc = "fed" /\ pc' = "idle" /\ stuck' = stuck + 1 /\ result = "ENOBUFS"
        /\ stuck <= StuckLimit
    BY <1>9 DEF Stalled, Nothing, Refusals, TypeInv
  <2>2. stuck' \in 0..StuckLimit + 1
    BY <1>0, <2>1
  <2>3. Passed' = Passed
    BY <1>9, <2>1 DEF Stalled, Passed
  <2> QED BY <1>0, <1>1, <1>9, <2>1, <2>2, <2>3 DEF Stalled, TypeInv, TypeOK
<1>10. CASE Rejected \/ Drained
  <2>1. pc' = "idle" /\ stuck' = 0 /\ (result # "ok" \/ at_end)
        /\ UNCHANGED <<file, feed, first, result, decoder, owed>>
    BY <1>10 DEF Rejected, Drained, DataLoss
  <2>2. Passed' = Passed
    BY <2>1 DEF Passed
  <2> QED BY <1>0, <1>1, <2>1, <2>2 DEF TypeInv, TypeOK
<1>11. CASE feed_advance
  <2>1. /\ pc = "fed" /\ ready = {} /\ pc' = "feeding" /\ feed' = feed + 1 /\ stuck' = 0
        /\ result = "ok" /\ ~at_end
    BY <1>11 DEF feed_advance, Nothing, DataLoss, TypeInv, TypeOK, Results
  <2>2. Passed = feed /\ Passed' = feed' - 1 /\ feed <= Len(file)
    BY <1>0, <2>1 DEF Passed, at_end
  <2>3. Passed' = Passed /\ feed' \in first..Len(file) + 1
    BY <1>0, <2>1, <2>2
  <2> QED BY <1>0, <1>1, <1>11, <2>1, <2>3 DEF feed_advance, TypeInv, TypeOK
<1>12. CASE UNCHANGED vars
  BY <1>12 DEF vars, decoder, TypeInv, TypeOK, Passed, Coming, PicturesFrom, at_end
<1> QED BY <1>2, <1>3, <1>4, <1>5, <1>6, <1>7, <1>8, <1>9, <1>10, <1>11, <1>12 DEF Next, Loop

\* The variables of the caller loop keep to their types under every fault, and
\* no picture is in two places at once.
THEOREM LoopTypeCorrect == Spec => []TypeOK
<1>1. TypeInv => TypeOK
  BY DEF TypeInv
<1> QED BY <1>1, TypeInit, TypeStep, PTL DEF Spec

-----------------------------------------------------------------------------
(* What comes out *)

\* No NAL fails in a call that completes an earlier picture: the failure that
\* would be passed over.
NoLateFailure == "late" \notin Faults

(***************************************************************************)
(* Every picture owed is held, ready or to come; what is ready precedes    *)
(* the rest; a NAL that failed left nothing ready, and a drain that makes  *)
(* nothing ready leaves nothing held.                                      *)
(***************************************************************************)
Accounted == owed \subseteq held \cup ready \cup Coming
Due == \A x \in ready : \A y \in held \cup Coming : x < y
LossAlone == pc = "fed" /\ result = "ENOMEM" => ready = {}
DrainMoves == pc = "fed" /\ result = "ok" /\ at_end /\ ready = {} => held = {}

Exact ==
    /\ TypeInv
    /\ Accounted /\ Due /\ LossAlone /\ DrainMoves
    /\ taken \in Seq(Nat) /\ FedOnceInOrder

\* What is ready after a NAL precedes what is held and what is to come.
LEMMA FeedDue ==
  ASSUME NoLateFailure, Exact, Feed
  PROVE  Due' /\ LossAlone' /\ DrainMoves'
<1>0. /\ ready = {} /\ UNCHANGED <<file, feed, first>> /\ pc' = "fed" /\ edge264_decode_NAL
      /\ file \in Files /\ Len(file) \in Nat /\ feed \in Int /\ feed >= 1
  BY FileType DEF Exact, TypeInv, TypeOK, Feed
<1>1. /\ result' = "ok" /\ ~at_end => Coming' = PicturesFrom(feed + 1)
      /\ result' # "ok" \/ at_end => Coming' = PicturesFrom(feed)
  <2>1. /\ result' = "ok" /\ ~at_end => Passed' = feed
        /\ result' # "ok" \/ at_end => Passed' = feed - 1
    BY <1>0 DEF Passed, at_end
  <2>2. Coming' = PicturesFrom(Passed' + 1)
    BY <1>0 DEF Coming, PicturesFrom
  <2>3. feed - 1 + 1 = feed
    BY <1>0
  <2> QED BY <2>1, <2>2, <2>3
<1>2. held \subseteq Nat /\ \A p \in Int : p >= 1 => PicturesFrom(p) \subseteq Nat
  <2>1. \A p \in Int : p >= 1 => PicturesFrom(p) \subseteq Nat
    BY <1>0, PicturesType
  <2> QED BY <2>1 DEF Exact, TypeInv, TypeOK
<1>3. ASSUME NEW pics \in SUBSET Nat, NEW out \in Release(pics, Coming'), MakeReady(out, pics)
      PROVE  Due' /\ ready' = out /\ held' = pics \ out
  <2>1. ready' = out /\ held' = pics \ out /\ out \subseteq pics
    BY <1>0, <1>3 DEF MakeReady, Release
  <2>2. \A x \in out : \A y \in Coming' : x < y
    BY <1>3 DEF Release
  <2>3. \A x \in out : \A y \in pics \ out : x < y
    <3> SUFFICES ASSUME NEW x \in out, NEW y \in pics \ out PROVE x < y
      OBVIOUS
    <3>1. ~(y < x) /\ x # y
      BY <1>3 DEF Release
    <3> QED BY <2>1, <3>1
  <2> QED BY <2>1, <2>2, <2>3 DEF Due
<1>4. CASE Refuse
  <2>1. Coming' = PicturesFrom(feed) /\ result' = "ENOBUFS"
    BY <1>1, <1>4 DEF Refuse
  <2>2. PICK out \in Release(held, Coming') : MakeReady(out, held)
    BY <1>4, <2>1 DEF Refuse
  <2> QED BY <1>2, <1>3, <2>1, <2>2 DEF LossAlone, DrainMoves
<1>5. CASE Skip
  <2>1. file[feed] = NoPicture /\ feed \in 1..Len(file) /\ result' = "ok" /\ ~at_end
    BY <1>0, <1>5 DEF Skip, at_end
  <2>2. Coming' = PicturesFrom(feed)
    BY <1>0, <1>1, <2>1, PassNal
  <2>3. PICK out \in Release(held, Coming') : MakeReady(out, held)
    BY <1>5, <2>2 DEF Skip
  <2>4. ~at_end'
    BY <1>0, <2>1 DEF at_end
  <2> QED BY <1>2, <1>3, <2>1, <2>3, <2>4 DEF LossAlone, DrainMoves
<1>6. CASE Take
  <2>1. file[feed] # NoPicture /\ feed \in 1..Len(file) /\ result' = "ok" /\ ~at_end
    BY <1>0, <1>6 DEF Take, at_end
  <2>2. Coming' = PicturesFrom(feed + 1) /\ file[feed] \in Nat
    BY <1>0, <1>1, <2>1, FileType
  <2>3. PICK out \in Release(held \cup {file[feed]}, Coming') : MakeReady(out, held \cup {file[feed]})
    BY <1>6, <2>2 DEF Take
  <2>4. ~at_end'
    BY <1>0, <2>1 DEF at_end
  <2>5. held \cup {file[feed]} \in SUBSET Nat
    BY <1>2, <2>2
  <2> QED BY <1>3, <2>1, <2>3, <2>4, <2>5 DEF LossAlone, DrainMoves
<1>7. CASE Lose
  <2>1. Coming' = PicturesFrom(feed) /\ result' = "ENOMEM"
    BY <1>1, <1>7 DEF Lose
  <2>2. PICK out \in Release(held, Coming') : out = {} /\ MakeReady(out, held)
    BY <1>7, <2>1 DEF Lose, NoLateFailure
  <2> QED BY <1>2, <1>3, <2>1, <2>2 DEF LossAlone, DrainMoves
<1>8. CASE Drain
  <2>1. feed > Len(file) /\ at_end /\ result' = "ok"
    BY <1>8 DEF Drain, at_end
  <2>2. Coming' = {}
    BY <1>0, <1>1, <2>1, PicturesType
  <2>3. PICK out \in Release(held, Coming') : (held = {} \/ out # {}) /\ MakeReady(out, held)
    BY <1>8, <2>2 DEF Drain
  <2> QED BY <1>2, <1>3, <2>1, <2>3 DEF LossAlone, DrainMoves, Release
<1> QED BY <1>0, <1>4, <1>5, <1>6, <1>7, <1>8 DEF edge264_decode_NAL

\* The NALs fed, once the decoder has taken one more or passed one by.
LEMMA FedOneMore ==
  ASSUME Exact, Feed
  PROVE  taken' \in Seq(Nat) /\ FedOnceInOrder'
<1>0. /\ pc = "feeding" /\ pc' = "fed" /\ UNCHANGED <<file, feed, first>>
      /\ file \in Files /\ Len(file) \in Nat /\ feed \in Nat /\ first \in Nat /\ feed >= first
      /\ taken \in Seq(Nat)
  BY FileType DEF Exact, TypeInv, TypeOK, Feed
<1>1. /\ {taken[i] : i \in DOMAIN taken} = {n \in first..feed - 1 : file[n] # NoPicture}
      /\ \A i, j \in DOMAIN taken : i < j => taken[i] < taken[j]
  BY <1>0 DEF Exact, FedOnceInOrder
<1>2. CASE result' = "ok" /\ ~at_end /\ file[feed] # NoPicture /\ taken' = Append(taken, feed)
  <2>1. /\ DOMAIN taken = 1..Len(taken) /\ Len(taken) \in Nat
        /\ DOMAIN taken' = 1..Len(taken) + 1
        /\ \A i \in DOMAIN taken : taken'[i] = taken[i] /\ taken[i] < feed
        /\ taken'[Len(taken) + 1] = feed
    <3>1. \A i \in DOMAIN taken : taken[i] \in first..feed - 1
      BY <1>1
    <3> QED BY <1>0, <1>2, <3>1
  <2>2. {taken'[i] : i \in DOMAIN taken'} = {taken[i] : i \in DOMAIN taken} \cup {feed}
    BY <2>1
  <2>3. \A i, j \in DOMAIN taken' : i < j => taken'[i] < taken'[j]
    BY <1>1, <2>1
  <2>4. {n \in first..feed : file[n] # NoPicture}
          = {n \in first..feed - 1 : file[n] # NoPicture} \cup {feed}
    BY <1>0, <1>2
  <2>5. ~at_end' /\ taken' \in Seq(Nat)
    BY <1>0, <1>2 DEF at_end
  <2> QED BY <1>0, <1>1, <1>2, <2>2, <2>3, <2>4, <2>5 DEF FedOnceInOrder
<1>3. CASE (result' = "ok" => at_end \/ file[feed] = NoPicture) /\ taken' = taken
  <2>1. CASE result' = "ok" /\ ~at_end
    <3>1. {n \in first..feed : file[n] # NoPicture} = {n \in first..feed - 1 : file[n] # NoPicture}
      BY <1>0, <1>3, <2>1
    <3>2. ~at_end'
      BY <1>0, <2>1 DEF at_end
    <3> QED BY <1>0, <1>1, <1>3, <2>1, <3>1, <3>2 DEF FedOnceInOrder
  <2>2. CASE ~(result' = "ok" /\ ~at_end)
    <3>1. ~(result' = "ok" /\ ~at_end')
      BY <1>0, <2>2 DEF at_end
    <3> QED BY <1>0, <1>1, <1>3, <3>1 DEF FedOnceInOrder
  <2> QED BY <2>1, <2>2
<1> QED BY <1>2, <1>3, FeedMoves DEF Exact

LEMMA ExactInit == Init => Exact
<1> SUFFICES ASSUME Init PROVE Exact
  OBVIOUS
<1>1. TypeInv /\ file \in Files
  BY TypeInit DEF TypeInv
<1>2. Passed = 0 /\ Coming = owed
  BY DEF Init, Passed, Coming
<1>3. FedOnceInOrder /\ taken \in Seq(Nat)
  <2>1. {taken[i] : i \in DOMAIN taken} = {} /\ DOMAIN taken = {} /\ taken \in Seq(Nat)
    BY DEF Init
  <2>2. first = 1 /\ feed = 1 /\ pc = "idle"
    BY DEF Init
  <2> QED BY <2>1, <2>2 DEF FedOnceInOrder
<1> QED BY <1>1, <1>2, <1>3 DEF Exact, Init, Accounted, Due, LossAlone, DrainMoves

LEMMA ExactStep ==
  ASSUME NoLateFailure
  PROVE  Exact /\ [Next]_vars => Exact'
<1> SUFFICES ASSUME Exact, [Next]_vars PROVE Exact'
  OBVIOUS
<1>0. /\ TypeInv /\ TypeInv'
      /\ file \in Files /\ Len(file) \in Nat /\ Len(file) >= 1
      /\ feed \in Int /\ first \in Int /\ feed >= 1
  BY TypeStep, FileType DEF Exact, TypeInv, TypeOK
<1>1. ASSUME file' = file, first' = first, Passed' = Passed, taken' = taken,
             owed' = owed, held' = held, ready' = ready,
             pc' = "fed" => pc = "fed" /\ result' = result /\ feed' = feed
      PROVE  Exact'
  <2>1. Coming' = Coming
    BY <1>1 DEF Coming, PicturesFrom
  <2>2. FedOnceInOrder'
    BY <1>1 DEF Exact, FedOnceInOrder, Passed
  <2> QED BY <1>0, <1>1, <2>1, <2>2
          DEF Exact, Accounted, Due, LossAlone, DrainMoves, at_end
<1>2. CASE Seek
  <2>1. PICK p \in 1..Len(file) : Start(p)
    BY <1>2 DEF Seek
  <2>2. /\ file' = file /\ pc' = "idle" /\ feed' = p /\ first' = p
        /\ taken' = <<>> /\ held' = {} /\ ready' = {} /\ owed' = PicturesFrom(p)
    BY <1>2, <2>1 DEF Seek, Start
  <2>3. Passed' + 1 = p
    BY <2>2 DEF Passed
  <2>4. Coming' = PicturesFrom(p)
    BY <2>2, <2>3 DEF Coming, PicturesFrom
  <2>5. FedOnceInOrder' /\ taken' \in Seq(Nat)
    <3>1. DOMAIN taken' = {} /\ p..p - 1 = {}
      BY <2>2
    <3> QED BY <2>2, <3>1 DEF FedOnceInOrder
  <2> QED BY <1>0, <2>2, <2>4, <2>5 DEF Exact, Accounted, Due, LossAlone, DrainMoves
<1>3. CASE Call \/ StartFeeding \/ Retry \/ Stalled \/ Rejected \/ Drained
  <2>1. /\ UNCHANGED <<file, feed, first, result, decoder, owed>> /\ pc' # "fed"
        /\ pc = "fed" => result # "ok" \/ at_end
    BY <1>3 DEF Call, StartFeeding, Retry, Stalled, Rejected, Drained, DataLoss
  <2>2. Passed' = Passed
    BY <2>1 DEF Passed
  <2> QED BY <1>1, <2>1, <2>2 DEF decoder
<1>4. CASE FetchFirst \/ FetchFed
  <2>1. /\ Fetch /\ file' = file /\ first' = first /\ taken' = taken
        /\ pc' = "idle" /\ pc # "idle"
    BY <1>4 DEF FetchFirst, FetchFed, Fetch
  <2>2. Passed' = Passed
    <3>1. CASE FetchFirst
      BY <3>1 DEF FetchFirst, Fetch, Passed
    <3>2. CASE FetchFed
      <4>1. result \in {"ok", "ENOBUFS"} /\ pc = "fed"
        BY <1>0, <2>1, <3>2 DEF FetchFed, Fetch, Exact, LossAlone, TypeInv, TypeOK, Results
      <4>2. pc' = "idle" /\ feed' = PastFetched
        BY <2>1, <3>2 DEF FetchFed
      <4> QED BY <1>0, <4>1, <4>2 DEF Passed, PastFetched
    <3> QED BY <1>4, <3>1, <3>2
  <2>3. Coming' = Coming
    BY <2>1, <2>2 DEF Coming, PicturesFrom
  <2>4. FedOnceInOrder'
    BY <2>1, <2>2 DEF Exact, FedOnceInOrder, Passed
  <2> QED BY <1>0, <2>1, <2>3, <2>4, FetchType
          DEF Exact, Accounted, Due, LossAlone, DrainMoves
<1>5. CASE Feed
  <2>1. Accounted'
    <3>1. /\ pc = "feeding" /\ pc' = "fed" /\ ready = {}
          /\ UNCHANGED <<file, feed, first, owed>>
      BY <1>0, <1>5, FeedMoves DEF Feed
    <3>2. Coming = PicturesFrom(feed)
      <4>1. Passed + 1 = feed
        BY <1>0, <3>1 DEF Passed
      <4> QED BY <4>1 DEF Coming
    <3>3. CASE result' = "ok" /\ ~at_end
      <4>1. Passed' = feed /\ feed \in 1..Len(file)
        BY <1>0, <3>1, <3>3 DEF Passed, at_end
      <4>2. Coming' = PicturesFrom(feed + 1)
        BY <3>1, <4>1 DEF Coming, PicturesFrom
      <4>3. Coming \subseteq Coming' \cup ({file[feed]} \ {NoPicture})
        BY <1>0, <3>2, <4>1, <4>2, PassNal
      <4>4. file[feed] # NoPicture => held' \cup ready' = held \cup {file[feed]}
        BY <1>0, <1>5, <3>3, FeedMoves
      <4>5. held \subseteq held' \cup ready'
        BY <1>0, <1>5, FeedMoves
      <4> QED BY <3>1, <4>3, <4>4, <4>5 DEF Exact, Accounted
    <3>4. CASE ~(result' = "ok" /\ ~at_end)
      <4>1. Passed' + 1 = feed
        BY <1>0, <3>1, <3>4 DEF Passed, at_end
      <4>2. Coming' = Coming
        BY <3>1, <3>2, <4>1 DEF Coming, PicturesFrom
      <4>3. held \subseteq held' \cup ready'
        BY <1>0, <1>5, FeedMoves
      <4> QED BY <3>1, <4>2, <4>3 DEF Exact, Accounted
    <3> QED BY <3>3, <3>4
  <2> QED BY <1>0, <1>5, <2>1, FeedDue, FedOneMore DEF Exact
<1>6. CASE feed_advance
  <2>1. /\ pc = "fed" /\ result = "ok" /\ ~at_end /\ pc' = "feeding" /\ feed' = feed + 1
        /\ UNCHANGED <<file, first, result, decoder, owed>>
    BY <1>0, <1>6 DEF feed_advance, Nothing, DataLoss, TypeInv, TypeOK, Results
  <2>2. Passed' = Passed
    BY <1>0, <2>1 DEF Passed
  <2> QED BY <1>1, <2>1, <2>2 DEF decoder
<1>7. CASE UNCHANGED vars
  <2>1. Passed' = Passed
    BY <1>7 DEF vars, Passed, at_end
  <2> QED BY <1>1, <1>7, <2>1 DEF vars, decoder
<1> QED BY <1>2, <1>3, <1>4, <1>5, <1>6, <1>7 DEF Next, Loop

LEMMA ExactAlways ==
  ASSUME NoLateFailure
  PROVE  Spec => []Exact
  BY ExactInit, ExactStep, PTL DEF Spec

-----------------------------------------------------------------------------
(* Theorems *)

\* While no failure comes with a finished picture, the decoder has had each
\* NAL that carries a picture once and in order, whatever it refused.
THEOREM EachNalFedOnce ==
  ASSUME NoLateFailure
  PROVE  Spec => []FedOnceInOrder
<1>1. Exact => FedOnceInOrder
  BY DEF Exact
<1> QED BY <1>1, ExactAlways, PTL

\* The first picture that is ready is the least of those owed; when nothing is
\* ready after a drain, none is.
LEMMA NextInOrder ==
  ASSUME Exact
  PROVE  /\ ready # {} => Min(ready) = Min(owed) /\ Min(ready) \in owed
         /\ pc = "fed" /\ ready = {} /\ result = "ok" /\ at_end => owed = {}
<1>0. /\ file \in Files /\ Len(file) \in Nat /\ feed \in Int /\ first \in Int
      /\ feed >= 1 /\ first >= 1
      /\ ready \subseteq owed /\ owed \subseteq PicturesFrom(first)
  BY FileType DEF Exact, TypeInv, TypeOK
<1>1. owed \subseteq Nat
  BY <1>0, PicturesType
<1>2. ASSUME ready # {} PROVE Min(ready) = Min(owed) /\ Min(ready) \in owed
  <2>1. Min(ready) \in ready /\ \A y \in ready : Min(ready) <= y
    BY <1>0, <1>1, <1>2, MinExists
  <2>2. Min(owed) \in owed /\ \A y \in owed : Min(owed) <= y
    BY <1>0, <1>1, <1>2, MinExists
  <2>3. \A y \in owed : Min(ready) <= y
    <3> SUFFICES ASSUME NEW y \in owed PROVE Min(ready) <= y
      OBVIOUS
    <3>1. y \in ready \/ Min(ready) < y
      BY <2>1 DEF Exact, Accounted, Due
    <3>2. Min(ready) \in Nat /\ y \in Nat
      BY <1>0, <1>1, <2>1
    <3> QED BY <2>1, <3>1, <3>2
  <2>4. Min(ready) \in Nat /\ Min(owed) \in Nat
    BY <1>0, <1>1, <2>1, <2>2
  <2>5. Min(ready) <= Min(owed) /\ Min(owed) <= Min(ready)
    BY <1>0, <2>1, <2>2, <2>3
  <2> QED BY <1>0, <2>1, <2>4, <2>5
<1>3. ASSUME pc = "fed", ready = {}, result = "ok", at_end PROVE owed = {}
  <2>1. Passed + 1 = feed /\ feed > Len(file)
    BY <1>0, <1>3 DEF Passed, at_end
  <2>2. Coming = {}
    BY <1>0, <2>1, PicturesType DEF Coming
  <2> QED BY <1>3, <2>2 DEF Exact, Accounted, DrainMoves
<1> QED BY <1>2, <1>3

\* decode_next_output implements PictureSource step by step: each call returns
\* the next picture in display order, an error, or the end once none is left.
THEOREM ImplementsPicturesSafely ==
  ASSUME NoLateFailure
  PROVE  Spec => Source!Init /\ [][Source!Next]_Source!vars
<1>1. Init => Source!Init
  <2> SUFFICES ASSUME Init PROVE Source!Init
    OBVIOUS
  <2>1. 1 \in 1..Len(file) /\ file \in Files
    BY FileType DEF Init
  <2> QED BY <2>1 DEF Init, Source!Init, PicturesFrom
<1>2. Exact /\ [Next]_vars => [Source!Next]_Source!vars
  <2> SUFFICES ASSUME Exact, [Next]_vars PROVE [Source!Next]_Source!vars
    OBVIOUS
  <2>1. CASE Seek
    <3>1. PICK p \in 1..Len(file) : owed' = PicturesOf(file, p)
      BY <2>1 DEF Seek, Start, PicturesFrom
    <3>2. pc = "idle" /\ pc' = "idle" /\ answer' = Source!None /\ file \in Files
      BY <2>1 DEF Seek, Start, Exact, TypeInv
    <3> QED BY <3>1, <3>2 DEF Source!Next, Source!Restart
  <2>2. CASE Call
    BY <2>2 DEF Call, Source!Next, Source!Call
  <2>3. CASE FetchFirst \/ FetchFed
    <3>1. Fetch /\ pc # "idle" /\ pc' = "idle" /\ ready # {}
      BY <2>3 DEF FetchFirst, FetchFed, Fetch
    <3>2. Min(ready) = Min(owed) /\ Min(ready) \in owed /\ owed' = owed \ {Min(ready)}
      BY <3>1, NextInOrder DEF Fetch
    <3>3. CASE answer' = Source!Picture(Min(ready))
      <4>1. Source!Min(owed) = Min(owed)
        BY DEF Source!Min, Min
      <4> QED BY <3>1, <3>2, <3>3, <4>1 DEF Source!Next, Source!Return, Source!Deliver
    <3>4. CASE answer' = Source!Error
      BY <3>1, <3>2, <3>4 DEF Source!Next, Source!Return, Source!Fail
    <3> QED BY <3>1, <3>3, <3>4 DEF Fetch
  <2>4. CASE StartFeeding \/ Feed \/ Retry \/ feed_advance
    BY <2>4 DEF StartFeeding, Feed, Retry, feed_advance, Nothing, Source!vars
  <2>5. CASE Stalled \/ Rejected
    <3>1. pc # "idle" /\ pc' = "idle" /\ answer' = Source!Error /\ owed' = owed
      BY <2>5 DEF Stalled, Rejected, Nothing
    <3> QED BY <3>1 DEF Source!Next, Source!Return, Source!Fail
  <2>6. CASE Drained
    <3>1. /\ pc = "fed" /\ ready = {} /\ result = "ok" /\ at_end /\ pc' = "idle"
          /\ answer' = Source!EndOfStream /\ owed' = owed
      BY <2>6 DEF Drained, Nothing, DataLoss, Exact, TypeInv, TypeOK, Results
    <3> QED BY <3>1, NextInOrder DEF Source!Next, Source!Return, Source!End
  <2>7. CASE UNCHANGED vars
    BY <2>7 DEF vars, Source!vars
  <2> QED BY <2>1, <2>2, <2>3, <2>4, <2>5, <2>6, <2>7 DEF Next, Loop
<1> QED BY <1>1, <1>2, ExactAlways, PTL DEF Spec

=============================================================================
