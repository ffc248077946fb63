------------------------------ MODULE VideoProofs ------------------------------
(***************************************************************************)
(* Proofs about YouTubeVideos for every number of videos, fields, requests *)
(* in progress and faults.                                                 *)
(***************************************************************************)
EXTENDS YouTubeVideos, FiniteSetTheorems, SequenceTheorems, TLAPS

(* What is known of each request besides its lists.                        *)
Parts == DOMAIN Idle

Writing(w)   == call[w].pc = "write"
Pending(w)   == call[w].op = "update" /\ call[w].pc \in {"fetch", "store", "again"}
Inserting(w) == call[w].pc = "insert"

TablesOK ==
    /\ Existing \subseteq Video
    /\ \A v \in Existing : videos[v] \in Copy
    /\ clock \in Nat
    /\ born \in Nat
    /\ \A v \in Existing : v <= born
    /\ acked \in [Video -> Copy]
    /\ \A v \in Video, f \in Field : acked[v][f] <= clock

(* The fields of a call that decide what it changes fit its step.          *)
CallOK(w) ==
    /\ DOMAIN call[w] = Parts
    /\ call[w].pc # "idle" => call[w].video \in Video /\ call[w].field \in Field
    /\ call[w].pc = "lookup" => call[w].op # "update"
    /\ Inserting(w) => call[w].op = "upload"
    /\ Writing(w) => call[w].copy \in Copy /\ call[w].video <= born
    /\ Pending(w) => call[w].total \in Nat /\ call[w].total <= clock

(* There is a number left for every video that is being inserted.          *)
RoomOK ==
    LET inserting == {w \in Worker : Inserting(w)}
    IN  inserting # {} => born + Cardinality(inserting) <= Cardinality(Video)

(* What a request is about to write back contains every update that was    *)
(* acknowledged.                                                           *)
WriterKnows(w) ==
    LET v == call[w].video
    IN  Writing(w) /\ v \in Existing \ raced =>
            \A f \in Field : call[w].copy[f] >= acked[v][f]

(* An update on its way to being acknowledged is still there,              *)
PendingStays(w) ==
    LET v == call[w].video
    IN  Pending(w) /\ v \in Existing \ raced => videos[v][call[w].field] >= call[w].total

(* and whoever is about to write the video back has read it.               *)
WriterFollows(w, x) ==
    LET v == call[w].video
    IN  Writing(w) /\ Pending(x) /\ call[x].video = v /\ v \in Existing \ raced =>
            call[w].copy[call[x].field] >= call[x].total

VideosInv ==
    /\ DOMAIN call = Worker
    /\ TablesOK
    /\ \A w \in Worker : CallOK(w)
    /\ RoomOK
    /\ UpdatesStay
    /\ \A w \in Worker : WriterKnows(w) /\ PendingStays(w)
    /\ \A w, x \in Worker : WriterFollows(w, x)

-------------------------------------------------------------------------------
(* At first there are no requests, and nothing was acknowledged.           *)
LEMMA InitHolds == Init => VideosInv
  <1> SUFFICES ASSUME Init PROVE VideosInv
    OBVIOUS
  <1>1. \A w \in Worker : call[w] = Idle /\ call[w].pc = "idle" /\ call[w].op = "none"
    BY DEF Init, Idle
  <1>2. \A w \in Worker : ~Writing(w) /\ ~Pending(w) /\ ~Inserting(w)
    BY <1>1 DEF Writing, Pending, Inserting
  <1>3. DOMAIN call = Worker /\ \A w \in Worker : CallOK(w)
    <2>1. DOMAIN call = Worker
      BY DEF Init
    <2>2. \A w \in Worker : DOMAIN call[w] = Parts
      BY <1>1 DEF Parts
    <2> QED
      BY <1>1, <1>2, <2>1, <2>2 DEF CallOK
  <1>4. TablesOK
    <2>1. [f \in Field |-> 0] \in Copy
      BY DEF Copy
    <2>2. Video \subseteq Nat
      BY VideosAssumption, FS_CardinalityType
    <2>3. /\ Uploaded \in Nat /\ clock = 0 /\ born = Uploaded
          /\ acked = [v \in Video |-> [f \in Field |-> 0]]
          /\ videos = [v \in {u \in Video : u <= Uploaded} |-> [f \in Field |-> 0]]
      BY <2>2, VideosAssumption, FS_CardinalityType DEF Init
    <2>4. /\ Existing \subseteq Video
          /\ \A v \in Existing : videos[v] \in Copy /\ v <= born
      BY <2>1, <2>3 DEF Existing
    <2>5. /\ acked \in [Video -> Copy]
          /\ \A v \in Video, f \in Field : acked[v][f] <= clock
      BY <2>1, <2>3
    <2> QED
      BY <2>3, <2>4, <2>5 DEF TablesOK
  <1>5. RoomOK
    BY <1>2 DEF RoomOK
  <1>6. UpdatesStay
    BY VideosAssumption DEF Init, UpdatesStay, Existing
  <1>7. \A w \in Worker : WriterKnows(w) /\ PendingStays(w)
    BY <1>2 DEF WriterKnows, PendingStays
  <1>8. \A w, x \in Worker : WriterFollows(w, x)
    BY <1>2 DEF WriterFollows
  <1> QED
    BY <1>3, <1>4, <1>5, <1>6, <1>7, <1>8 DEF VideosInv

(* No more requests insert than before: there is still room.               *)
LEMMA RoomStays ==
  ASSUME TablesOK, RoomOK, UNCHANGED born,
         \A w \in Worker : Inserting(w)' => Inserting(w)
  PROVE  RoomOK'
  <1> DEFINE I == {w \in Worker : Inserting(w)}
             J == {w \in Worker : Inserting(w)'}
  <1>1. J \subseteq I /\ IsFiniteSet(I)
    BY VideosAssumption, FS_Subset
  <1>2. /\ Cardinality(J) <= Cardinality(I)
        /\ Cardinality(I) \in Nat /\ Cardinality(J) \in Nat
        /\ Cardinality(Video) \in Nat /\ born \in Nat
    BY <1>1, VideosAssumption, FS_Subset, FS_CardinalityType DEF TablesOK
  <1>3. /\ (J # {} => born' + Cardinality(J) <= Cardinality(Video)) => RoomOK'
        /\ I # {} => born + Cardinality(I) <= Cardinality(Video)
    BY DEF RoomOK
  <1>4. ASSUME J # {} PROVE born' + Cardinality(J) <= Cardinality(Video)
    <2>1. born + Cardinality(I) <= Cardinality(Video)
      BY <1>1, <1>3, <1>4
    <2> QED
      BY <1>2, <2>1
  <1> QED
    BY <1>3, <1>4

(* What w is doing about a video it was already doing before.              *)
NothingNew(w) ==
    /\ Writing(w)' => /\ Writing(w)
                      /\ call'[w].video = call[w].video
                      /\ call'[w].copy = call[w].copy
    /\ Pending(w)' => /\ Pending(w)
                      /\ call'[w].video = call[w].video
                      /\ call'[w].field = call[w].field
                      /\ call'[w].total = call[w].total

OthersWait(w) ==
    /\ DOMAIN call' = Worker
    /\ \A x \in Worker \ {w} : call'[x] = call[x]

(* A step of w that neither changes a video nor takes one up.              *)
Quiet(w) ==
    /\ UNCHANGED <<videos, born, clock, acked, raced>>
    /\ OthersWait(w)
    /\ CallOK(w)'
    /\ NothingNew(w)

(* A request whose record stays the same does nothing new.                 *)
LEMMA SameCall ==
  ASSUME NEW w, call'[w] = call[w]
  PROVE  /\ Writing(w)' <=> Writing(w)
         /\ Pending(w)' <=> Pending(w)
         /\ Inserting(w)' <=> Inserting(w)
         /\ NothingNew(w)
  BY DEF NothingNew, Writing, Pending, Inserting

(* ... and is as well typed as it was, as the clocks only advance.         *)
LEMMA SameCallOK ==
  ASSUME NEW w, call'[w] = call[w], CallOK(w),
         born \in Nat, born' \in Nat, born' >= born,
         clock \in Nat, clock' \in Nat, clock' >= clock,
         Video \subseteq Nat
  PROVE  CallOK(w)'
  <1>1. Writing(w) => call[w].video \in Nat
    BY DEF CallOK, Writing
  <1> QED
    BY <1>1, SameCall DEF CallOK

(* Videos are numbers.                                                     *)
LEMMA VideosAreNumbers == Video \subseteq Nat /\ Cardinality(Video) \in Nat
  BY VideosAssumption, FS_CardinalityType

(* A quiet step that leaves room changes nothing the invariant speaks of.  *)
LEMMA QuietKeeps ==
  ASSUME VideosInv, NEW w \in Worker, Quiet(w), Inserting(w)' => Inserting(w) \/ RoomOK'
  PROVE  VideosInv'
  <1>1. \A x \in Worker : NothingNew(x)
    BY SameCall DEF Quiet, OthersWait
  <1>2. DOMAIN call' = Worker /\ TablesOK'
    BY DEF Quiet, OthersWait, VideosInv, TablesOK, Existing
  <1>3. \A x \in Worker : CallOK(x)'
    <2> SUFFICES ASSUME NEW x \in Worker PROVE CallOK(x)'
      OBVIOUS
    <2>1. CASE x = w
      BY <2>1 DEF Quiet
    <2>2. CASE x # w
      <3>1. call'[x] = call[x] /\ CallOK(x)
        BY <2>2 DEF Quiet, OthersWait, VideosInv
      <3> QED
        BY <3>1, SameCallOK, VideosAreNumbers DEF Quiet, VideosInv, TablesOK
    <2> QED
      BY <2>1, <2>2
  <1>4. RoomOK'
    <2>1. CASE Inserting(w)' => Inserting(w)
      <3>1. \A x \in Worker : Inserting(x)' => Inserting(x)
        BY <2>1, SameCall DEF Quiet, OthersWait
      <3> QED
        BY <3>1, RoomStays DEF Quiet, VideosInv
    <2> QED
      BY <2>1
  <1>5. UpdatesStay'
    BY DEF Quiet, VideosInv, UpdatesStay, Existing
  <1>6. \A x \in Worker : WriterKnows(x)' /\ PendingStays(x)'
    BY <1>1 DEF Quiet, VideosInv, WriterKnows, PendingStays, NothingNew, Existing
  <1>7. \A x, y \in Worker : WriterFollows(x, y)'
    BY <1>1 DEF Quiet, VideosInv, WriterFollows, NothingNew, Existing
  <1> QED
    BY <1>2, <1>3, <1>4, <1>5, <1>6, <1>7 DEF VideosInv

-------------------------------------------------------------------------------
(* Steps that leave the videos alone.                                      *)

(* The record of a request with new values in some of its parts.           *)
LEMMA NewCall ==
  ASSUME VideosInv, NEW w \in Worker, NEW c, call' = [call EXCEPT ![w] = c]
  PROVE  OthersWait(w) /\ call'[w] = c
  BY DEF VideosInv, OthersWait

(* A request that goes on to a step that concerns no single video.         *)
MovesOn(w) ==
    /\ UNCHANGED <<videos, born, clock, acked, raced>>
    /\ OthersWait(w)
    /\ DOMAIN call'[w] = Parts
    /\ call[w].pc # "idle"
    /\ call'[w].video = call[w].video /\ call'[w].field = call[w].field
    /\ call'[w].pc \in {"answer", "details", "row", "search", "select", "count"}

(* Such a step changes nothing the invariant speaks of.                     *)
LEMMA MovesOnIsQuiet ==
  ASSUME VideosInv, NEW w \in Worker, MovesOn(w)
  PROVE  Quiet(w) /\ ~Inserting(w)'
  <1>1. CallOK(w)' /\ NothingNew(w) /\ ~Inserting(w)'
    BY DEF MovesOn, VideosInv, CallOK, NothingNew, Writing, Pending, Inserting
  <1> QED
    BY <1>1 DEF Quiet, MovesOn

(* A page of the cached list that w has read, whole or broken off.         *)
Reads(w) == Select(w) \/ ReadBreaksOff(w)

(* Reading a page changes what w has seen, and whether it asks for more.   *)
LEMMA ReadIs ==
  ASSUME NEW w \in Worker, DOMAIN call = Worker, DOMAIN call[w] = Parts, Reads(w)
  PROVE  /\ call[w].pc = "select" /\ call'[w].pc \in {"answer", "count"}
         /\ OthersWait(w) /\ DOMAIN call'[w] = Parts
         /\ call'[w].op = call[w].op /\ call'[w].video = call[w].video
         /\ call'[w].field = call[w].field /\ call'[w].staged = call[w].staged
         /\ UNCHANGED <<videos, cache, born, clock, acked, raced, outdated>>
  <1>1. /\ call[w].pc = "select"
        /\ UNCHANGED <<videos, cache, born, clock, acked, raced, outdated>>
    BY DEF Reads, Select, ReadBreaksOff, tables, numbers, history
  <1>2. PICK items : PageRead(w, items)
    BY DEF Reads, Select, ReadBreaksOff
  <1>3. PICK all, pages, next :
            /\ call' = [call EXCEPT ![w].seen = all, ![w].pages = pages, ![w].pc = next]
            /\ next \in {"answer", "count"}
    BY <1>2, Zenon DEF PageRead
  <1> QED
    BY <1>1, <1>3 DEF Parts, Idle, OthersWait

(* A request that gives up.                                                *)
LEMMA FailMovesOn ==
  ASSUME VideosInv, NEW w \in Worker, Fail(w), call[w].pc # "idle",
         UNCHANGED <<videos, born, clock, acked, raced>>
  PROVE  Quiet(w) /\ ~Inserting(w)'
  <1>1. DOMAIN call[w] = Parts /\ DOMAIN call = Worker
    BY DEF VideosInv, CallOK
  <1>2. MovesOn(w)
    BY <1>1, NewCall DEF Fail, Parts, Idle, OthersWait, MovesOn
  <1> QED
    BY <1>2, MovesOnIsQuiet

(* A new request has a video and a field, and no video in hand; an upload  *)
(* finds room.                                                             *)
LEMMA AcceptKeeps ==
  ASSUME VideosInv, NEW w \in Worker, NEW r \in Request, Accept(w, r)
  PROVE  VideosInv'
  <1>1. /\ r.video \in Video /\ r.field \in Field
        /\ r.op \in DOMAIN FirstCall
        /\ r.op = "upload" <=> FirstCall[r.op] = "insert"
        /\ FirstCall[r.op] \notin {"idle", "write", "fetch", "store", "again"} \/ r.op = "force"
        /\ FirstCall[r.op] # "write"
        /\ r.op = "update" => FirstCall[r.op] = "existing"
    BY VideosAssumption DEF FirstCall
  <1>2. /\ OthersWait(w) /\ DOMAIN call'[w] = Parts
        /\ call'[w].video = r.video /\ call'[w].field = r.field
        /\ call'[w].op = r.op /\ call'[w].pc = FirstCall[r.op]
    <2> DEFINE c == [Idle EXCEPT !.op = r.op, !.pc = FirstCall[r.op],
                        !.video = r.video, !.field = r.field, !.all = r.all,
                        !.newest = r.newest]
    <2>1. call' = [call EXCEPT ![w] = c]
      BY DEF Accept
    <2>2. /\ DOMAIN c = Parts /\ c.video = r.video /\ c.field = r.field
          /\ c.op = r.op /\ c.pc = FirstCall[r.op]
      BY DEF Parts, Idle
    <2> HIDE DEF c
    <2> QED
      BY <2>1, <2>2, NewCall
  <1>3. CallOK(w)' /\ ~Writing(w)' /\ ~Pending(w)'
    BY <1>1, <1>2 DEF CallOK, Writing, Pending, Inserting
  <1>4. UNCHANGED <<videos, born, clock, acked, raced>>
    BY DEF Accept, tables, numbers, history
  <1>5. NothingNew(w)
    BY <1>3 DEF NothingNew
  <1>6. ASSUME Inserting(w)' PROVE RoomOK'
    <2> DEFINE I == {x \in Worker : Inserting(x)}
               J == {x \in Worker : Inserting(x)'}
               U == {x \in Worker : call[x].op = "upload"}
    <2>1. r.op = "upload" /\ born + Cardinality(U) < Cardinality(Video)
      BY <1>1, <1>2, <1>6 DEF Inserting, Accept, HasRoom
    <2>2. J \subseteq U \cup {w}
      BY <1>2, SameCall DEF OthersWait, VideosInv, CallOK, Inserting
    <2>3. /\ IsFiniteSet(U) /\ Cardinality(U) \in Nat
          /\ IsFiniteSet(U \cup {w}) /\ Cardinality(U \cup {w}) <= Cardinality(U) + 1
          /\ Cardinality(U \cup {w}) \in Nat
      <3>1. IsFiniteSet(U)
        BY VideosAssumption, FS_Subset
      <3>2. /\ IsFiniteSet(U \cup {w})
            /\ Cardinality(U \cup {w}) =
                   IF w \in U THEN Cardinality(U) ELSE Cardinality(U) + 1
        BY <3>1, FS_AddElement
      <3>3. Cardinality(U) \in Nat /\ Cardinality(U \cup {w}) \in Nat
        BY <3>1, <3>2, FS_CardinalityType
      <3> HIDE DEF U
      <3> QED
        BY <3>1, <3>2, <3>3
    <2>4. Cardinality(J) \in Nat /\ Cardinality(J) <= Cardinality(U \cup {w})
      BY <2>2, <2>3, FS_Subset, FS_CardinalityType
    <2>5. born' + Cardinality(J) <= Cardinality(Video)
      BY <1>4, <2>1, <2>3, <2>4, VideosAreNumbers DEF VideosInv, TablesOK
    <2> QED
      BY <2>5 DEF RoomOK
  <1> QED
    BY <1>2, <1>3, <1>4, <1>5, <1>6, QuietKeeps DEF Quiet

-------------------------------------------------------------------------------
(* Requests for one video.                                                 *)

(* A miss leads to a fetch, but no update looks into the cache first.      *)
LEMMA LookupIsQuiet ==
  ASSUME VideosInv, NEW w \in Worker,
         call[w].pc = "lookup", Goto(w, "fetch") \/ Goto(w, "answer"),
         UNCHANGED <<videos, born, clock, acked, raced>>
  PROVE  Quiet(w) /\ ~Inserting(w)'
  <1>1. DOMAIN call[w] = Parts /\ DOMAIN call = Worker /\ CallOK(w)
    BY DEF VideosInv, CallOK
  <1>2. /\ OthersWait(w) /\ DOMAIN call'[w] = Parts
        /\ call'[w].pc \in {"fetch", "answer"}
        /\ call'[w].op = call[w].op
        /\ call'[w].video = call[w].video /\ call'[w].field = call[w].field
    BY <1>1, NewCall DEF Goto, Parts, Idle, OthersWait
  <1>3. CallOK(w)' /\ NothingNew(w) /\ ~Inserting(w)'
    BY <1>1, <1>2 DEF CallOK, NothingNew, Writing, Pending, Inserting
  <1> QED
    BY <1>2, <1>3 DEF Quiet

(* What is fetched after an update does not matter to the update.          *)
LEMMA FetchIsQuiet ==
  ASSUME VideosInv, NEW w \in Worker, Fetch(w)
  PROVE  Quiet(w) /\ ~Inserting(w)'
  <1>1. DOMAIN call[w] = Parts /\ DOMAIN call = Worker /\ CallOK(w)
    BY DEF VideosInv, CallOK
  <1>2. UNCHANGED <<videos, born, clock, acked, raced>> /\ call[w].pc = "fetch"
    BY DEF Fetch, tables, numbers, history
  <1>3. CASE call[w].video \in Existing
    <2>1. call' = [call EXCEPT ![w].pc = "store", ![w].copy = videos[call[w].video]]
      BY <1>3 DEF Fetch
    <2>2. /\ OthersWait(w) /\ DOMAIN call'[w] = Parts
          /\ call'[w].pc = "store" /\ call'[w].op = call[w].op
          /\ call'[w].video = call[w].video /\ call'[w].field = call[w].field
          /\ call'[w].total = call[w].total
      BY <1>1, <2>1 DEF Parts, Idle, OthersWait
    <2>3. CallOK(w)' /\ NothingNew(w) /\ ~Inserting(w)'
      BY <1>1, <1>2, <2>2 DEF CallOK, NothingNew, Writing, Pending, Inserting
    <2> QED
      BY <1>2, <2>2, <2>3 DEF Quiet
  <1>4. CASE call[w].video \notin Existing
    <2>1. Fail(w)
      BY <1>4 DEF Fetch
    <2> QED
      BY <1>2, <2>1, FailMovesOn
  <1> QED
    BY <1>3, <1>4

(* Who is about to write a video back has read it after every update that  *)
(* was made of it so far.                                                  *)
LEMMA FetchExistingKeeps ==
  ASSUME VideosInv, NEW w \in Worker, FetchExisting(w)
  PROVE  VideosInv'
  <1>1. DOMAIN call[w] = Parts /\ DOMAIN call = Worker /\ CallOK(w)
    BY DEF VideosInv, CallOK
  <1>2. /\ UNCHANGED <<videos, born, clock, acked, raced>>
        /\ call[w].pc = "existing"
    BY DEF FetchExisting, tables, numbers, history
  <1> DEFINE v == call[w].video
  <1>3. CASE v \in Own
    <2>1. call' = [call EXCEPT ![w].pc = "write", ![w].copy = videos[v]]
      BY <1>3 DEF FetchExisting
    <2>2. /\ OthersWait(w) /\ DOMAIN call'[w] = Parts
          /\ call'[w].pc = "write" /\ call'[w].copy = videos[v]
          /\ call'[w].video = v /\ call'[w].field = call[w].field
      BY <1>1, <2>1 DEF Parts, Idle, OthersWait
    <2>3. v \in Existing
      BY <1>3 DEF Own
    <2>4. CallOK(w)' /\ ~Pending(w)' /\ ~Inserting(w)'
      BY <1>1, <1>2, <2>2, <2>3
      DEF CallOK, Writing, Pending, Inserting, VideosInv, TablesOK
    <2>5. DOMAIN call' = Worker /\ TablesOK'
      BY <1>2, <2>2 DEF OthersWait, VideosInv, TablesOK, Existing
    <2>6. \A x \in Worker : CallOK(x)'
      <3>1. \A x \in Worker \ {w} : CallOK(x)'
        BY <1>2, <2>2, SameCallOK, VideosAreNumbers DEF OthersWait, VideosInv, TablesOK
      <3> QED
        BY <2>4, <3>1
    <2>7. RoomOK'
      <3>1. \A x \in Worker : Inserting(x)' => Inserting(x)
        BY <2>2, <2>4, SameCall DEF OthersWait
      <3> QED
        BY <1>2, <3>1, RoomStays DEF VideosInv
    <2>8. UpdatesStay'
      BY <1>2 DEF VideosInv, UpdatesStay, Existing
    <2>9. \A x \in Worker : WriterKnows(x)' /\ PendingStays(x)'
      <3>1. \A x \in Worker \ {w} : WriterKnows(x)' /\ PendingStays(x)'
        BY <1>2, <2>2, SameCall
        DEF OthersWait, VideosInv, WriterKnows, PendingStays, Existing
      <3>2. WriterKnows(w)' /\ PendingStays(w)'
        BY <1>2, <2>2, <2>4 DEF VideosInv, UpdatesStay, WriterKnows, PendingStays, Existing
      <3> QED
        BY <3>1, <3>2
    <2>10. \A x, y \in Worker : WriterFollows(x, y)'
      <3>1. \A x, y \in Worker \ {w} : WriterFollows(x, y)'
        BY <1>2, <2>2, SameCall DEF OthersWait, VideosInv, WriterFollows, Existing
      <3>2. \A x \in Worker : WriterFollows(x, w)'
        BY <2>4 DEF WriterFollows
      <3>3. \A y \in Worker \ {w} : WriterFollows(w, y)'
        BY <1>2, <2>2, SameCall
        DEF OthersWait, VideosInv, PendingStays, WriterFollows, Existing
      <3> QED
        BY <3>1, <3>2, <3>3
    <2> QED
      BY <2>5, <2>6, <2>7, <2>8, <2>9, <2>10 DEF VideosInv
  <1>4. CASE v \notin Own
    <2>1. Fail(w)
      BY <1>4 DEF FetchExisting
    <2> QED
      BY <1>2, <2>1, FailMovesOn, QuietKeeps
  <1> QED
    BY <1>3, <1>4

(* The update of w is made; what others updated before is kept, as w has   *)
(* read it, or two requests were updating the video at once.               *)
LEMMA OverwriteKeeps ==
  ASSUME VideosInv, NEW w \in Worker, Writing(w), Overwrite(w),
         UNCHANGED <<born, acked>>,
         OthersWait(w), DOMAIN call'[w] = Parts,
         call'[w].video = call[w].video, call'[w].field = call[w].field,
         call'[w].pc \in {"fetch", "answer"},
         call'[w].pc = "fetch" => call'[w].total = clock'
  PROVE  VideosInv'
  <1> DEFINE v == call[w].video
             g == call[w].field
  <1>1. /\ v \in Existing /\ v \in Video /\ g \in Field
        /\ clock \in Nat /\ clock' = clock + 1
        /\ call[w].copy \in Copy /\ DOMAIN call[w] = Parts
    BY DEF VideosInv, TablesOK, CallOK, Writing, Overwrite
  <1>2. /\ Existing' = Existing
        /\ \A u \in Existing \ {v} : videos'[u] = videos[u]
        /\ videos'[v] \in Copy /\ videos'[v][g] = clock'
        /\ \A f \in Field \ {g} : videos'[v][f] = call[w].copy[f]
    BY <1>1 DEF Overwrite, Applied, Copy, Existing
  <1>3. /\ raced \subseteq raced'
        /\ \A x \in Worker \ {w} : Writing(x) /\ call[x].video = v => v \in raced'
    BY DEF Overwrite, Writing
  <1>4. ~Writing(w)' /\ ~Inserting(w)' /\ (Pending(w)' => call'[w].total = clock')
    BY DEF Writing, Inserting, Pending
  <1>5. DOMAIN call' = Worker /\ TablesOK'
    <2>1. \A u \in Existing' : videos'[u] \in Copy /\ u <= born
      BY <1>2 DEF VideosInv, TablesOK
    <2>2. \A u \in Video, f \in Field : acked'[u][f] <= clock'
      BY <1>1 DEF VideosInv, TablesOK, Copy
    <2> QED
      BY <1>1, <1>2, <2>1, <2>2 DEF OthersWait, VideosInv, TablesOK
  <1>6. \A x \in Worker : CallOK(x)'
    <2>1. \A x \in Worker \ {w} : CallOK(x)'
      BY <1>1, SameCallOK, VideosAreNumbers DEF OthersWait, VideosInv, TablesOK
    <2>2. CallOK(w)'
      BY <1>1, <1>4 DEF CallOK
    <2> QED
      BY <2>1, <2>2
  <1>7. RoomOK'
    <2>1. \A x \in Worker : Inserting(x)' => Inserting(x)
      BY <1>4, SameCall DEF OthersWait
    <2> QED
      BY <2>1, RoomStays DEF VideosInv
  <1>8. UpdatesStay'
    <2> SUFFICES ASSUME NEW u \in Existing \ raced', NEW f \in Field
                 PROVE  videos'[u][f] >= acked[u][f]
      BY <1>2 DEF UpdatesStay
    <2>1. CASE u # v
      BY <1>2, <1>3, <2>1 DEF VideosInv, UpdatesStay
    <2>2. CASE u = v /\ f # g
      BY <1>2, <1>3, <2>2 DEF VideosInv, WriterKnows
    <2>3. CASE u = v /\ f = g
      <3>1. acked[v][g] \in Nat /\ acked[v][g] <= clock
        BY <1>1 DEF VideosInv, TablesOK, Copy
      <3> QED
        BY <1>1, <1>2, <2>3, <3>1
    <2> QED
      BY <2>1, <2>2, <2>3
  <1>9. \A x \in Worker : WriterKnows(x)'
    BY <1>2, <1>3, <1>4, SameCall DEF OthersWait, VideosInv, WriterKnows
  <1>10. \A x \in Worker : PendingStays(x)'
    <2> SUFFICES ASSUME NEW x \in Worker, Pending(x)', call'[x].video \in Existing \ raced'
                 PROVE  videos'[call'[x].video][call'[x].field] >= call'[x].total
      BY <1>2 DEF PendingStays
    <2>1. CASE x = w
      BY <1>1, <1>2, <1>4, <2>1
    <2>2. CASE x # w
      <3>1. /\ call'[x] = call[x] /\ Pending(x)
            /\ call[x].total \in Nat /\ call[x].total <= clock
            /\ call[x].field \in Field
        BY <2>2, SameCall DEF OthersWait, VideosInv, CallOK, Pending
      <3>2. CASE call[x].video # v
        BY <1>2, <1>3, <3>1, <3>2 DEF VideosInv, PendingStays
      <3>3. CASE call[x].video = v /\ call[x].field = g
        BY <1>1, <1>2, <3>1, <3>3
      <3>4. CASE call[x].video = v /\ call[x].field # g
        <4>1. WriterFollows(w, x) /\ v \notin raced
          BY <1>3, <3>1, <3>4 DEF VideosInv
        <4> QED
          BY <1>1, <1>2, <3>1, <3>4, <4>1 DEF WriterFollows
      <3> QED
        BY <3>2, <3>3, <3>4
    <2> QED
      BY <2>1, <2>2
  <1>11. \A x, y \in Worker : WriterFollows(x, y)'
    <2>1. \A x, y \in Worker \ {w} : WriterFollows(x, y)'
      BY <1>2, <1>3, SameCall DEF OthersWait, VideosInv, WriterFollows
    <2>2. \A y \in Worker : WriterFollows(w, y)'
      BY <1>4 DEF WriterFollows
    <2>3. \A x \in Worker \ {w} : WriterFollows(x, w)'
      BY <1>2, <1>3, SameCall DEF OthersWait, WriterFollows
    <2> QED
      BY <2>1, <2>2, <2>3
  <1> QED
    BY <1>5, <1>6, <1>7, <1>8, <1>9, <1>10, <1>11 DEF VideosInv

(* An acknowledged update is on YouTube, and whoever is about to write the *)
(* video back knows it.                                                    *)
LEMMA AcknowledgeKeeps ==
  ASSUME VideosInv, NEW w \in Worker, call[w].pc \in {"store", "again"},
         Goto(w, AfterStore(w)), Acknowledge(w),
         UNCHANGED <<videos, born, clock, raced>>
  PROVE  VideosInv'
  <1> DEFINE v == call[w].video
             g == call[w].field
  <1>1. /\ DOMAIN call[w] = Parts /\ DOMAIN call = Worker /\ CallOK(w)
        /\ v \in Video /\ g \in Field
    BY DEF VideosInv, CallOK
  <1>2. /\ OthersWait(w) /\ DOMAIN call'[w] = Parts
        /\ call'[w].pc = AfterStore(w) /\ call'[w].op = call[w].op
        /\ call'[w].video = v /\ call'[w].field = g
    BY <1>1 DEF Goto, Parts, Idle, OthersWait
  <1>3. ~Writing(w)' /\ ~Pending(w)' /\ ~Inserting(w)'
    BY <1>2 DEF AfterStore, Writing, Pending, Inserting
  <1>4. CallOK(w)'
    BY <1>1, <1>2, <1>3 DEF CallOK, AfterStore
  <1>5. CASE call[w].op # "update"
    <2>1. acked' = acked /\ NothingNew(w)
      BY <1>3, <1>5 DEF Acknowledge, NothingNew
    <2> QED
      BY <1>2, <1>3, <1>4, <2>1, QuietKeeps DEF Quiet
  <1>6. CASE call[w].op = "update"
    <2>1. /\ Pending(w) /\ call[w].total \in Nat /\ call[w].total <= clock
          /\ acked' = [acked EXCEPT ![v][g] = call[w].total]
      BY <1>1, <1>6 DEF Acknowledge, CallOK, Pending
    <2>2. /\ acked' \in [Video -> Copy] /\ acked'[v][g] = call[w].total
          /\ \A u \in Video, f \in Field :
                 u # v \/ f # g => acked'[u][f] = acked[u][f]
      BY <1>1, <2>1 DEF VideosInv, TablesOK, Copy
    <2>3. TablesOK' /\ DOMAIN call' = Worker
      <3>1. \A u \in Video, f \in Field : acked'[u][f] <= clock
        BY <2>1, <2>2 DEF VideosInv, TablesOK
      <3> QED
        BY <1>2, <2>2, <3>1 DEF OthersWait, VideosInv, TablesOK, Existing
    <2>4. \A x \in Worker : CallOK(x)'
      <3>1. \A x \in Worker \ {w} : CallOK(x)'
        BY <1>2, SameCallOK, VideosAreNumbers DEF OthersWait, VideosInv, TablesOK
      <3> QED
        BY <1>4, <3>1
    <2>5. RoomOK'
      <3>1. \A x \in Worker : Inserting(x)' => Inserting(x)
        BY <1>2, <1>3, SameCall DEF OthersWait
      <3> QED
        BY <3>1, RoomStays DEF VideosInv
    <2>6. UpdatesStay'
      BY <1>1, <2>1, <2>2 DEF VideosInv, TablesOK, UpdatesStay, PendingStays, Existing
    <2>7. \A x \in Worker : WriterKnows(x)' /\ PendingStays(x)'
      <3>1. WriterKnows(w)' /\ PendingStays(w)'
        BY <1>3 DEF WriterKnows, PendingStays
      <3>2. ASSUME NEW x \in Worker \ {w} PROVE PendingStays(x)'
        BY <1>2, SameCall DEF OthersWait, VideosInv, PendingStays, Existing
      <3>3. ASSUME NEW x \in Worker \ {w} PROVE WriterKnows(x)'
        <4> SUFFICES ASSUME Writing(x), call[x].video \in Existing \ raced, NEW f \in Field
                     PROVE  call[x].copy[f] >= acked'[call[x].video][f]
          BY <1>2, SameCall DEF OthersWait, WriterKnows, Existing
        <4>1. call[x].video \in Video
          BY DEF VideosInv, CallOK, Writing
        <4>2. CASE call[x].video = v /\ f = g
          BY <2>1, <2>2, <4>2 DEF VideosInv, WriterFollows
        <4>3. CASE call[x].video # v \/ f # g
          BY <2>2, <4>1, <4>3 DEF VideosInv, WriterKnows
        <4> QED
          BY <4>2, <4>3
      <3> QED
        BY <3>1, <3>2, <3>3
    <2>8. \A x, y \in Worker : WriterFollows(x, y)'
      <3>1. \A x, y \in Worker \ {w} : WriterFollows(x, y)'
        BY <1>2, SameCall DEF OthersWait, VideosInv, WriterFollows, Existing
      <3>2. \A x \in Worker : WriterFollows(x, w)' /\ WriterFollows(w, x)'
        BY <1>3 DEF WriterFollows
      <3> QED
        BY <3>1, <3>2
    <2> QED
      BY <2>3, <2>4, <2>5, <2>6, <2>7, <2>8 DEF VideosInv
  <1> QED
    BY <1>5, <1>6

(* A new video has a number of its own that nobody was told of yet.        *)
LEMMA InsertKeeps ==
  ASSUME VideosInv, NEW w \in Worker, Insert(w)
  PROVE  VideosInv'
  <1>1. /\ DOMAIN call[w] = Parts /\ DOMAIN call = Worker /\ CallOK(w)
        /\ Inserting(w) /\ born \in Nat /\ clock \in Nat /\ born' = born + 1
        /\ UNCHANGED <<clock, acked, raced>>
    BY DEF VideosInv, TablesOK, CallOK, Insert, Inserting, history
  <1>2. /\ OthersWait(w) /\ DOMAIN call'[w] = Parts /\ call'[w].pc = "answer"
        /\ call'[w].video = call[w].video /\ call'[w].field = call[w].field
    BY <1>1 DEF Insert, Goto, Parts, Idle, OthersWait
  <1>3. ~Writing(w)' /\ ~Pending(w)' /\ ~Inserting(w)'
    BY <1>2 DEF Writing, Pending, Inserting
  <1> DEFINE I == {x \in Worker : Inserting(x)}
             J == {x \in Worker : Inserting(x)'}
  <1>4. J = I \ {w}
    BY <1>2, <1>3, SameCall DEF OthersWait
  <1>5. /\ IsFiniteSet(I) /\ IsFiniteSet(J)
        /\ Cardinality(I) \in Nat /\ Cardinality(J) \in Nat
        /\ Cardinality(I) = Cardinality(J) + 1
    <2>1. IsFiniteSet(I) /\ w \in I
      BY <1>1, VideosAssumption, FS_Subset
    <2>2. IsFiniteSet(I \ {w}) /\ Cardinality(I \ {w}) = Cardinality(I) - 1
      BY <2>1, FS_RemoveElement
    <2>3. Cardinality(I) \in Nat /\ Cardinality(I \ {w}) \in Nat
      BY <2>1, <2>2, FS_CardinalityType
    <2> HIDE DEF I, J
    <2> QED
      BY <1>4, <2>1, <2>2, <2>3
  <1>6. born + Cardinality(I) <= Cardinality(Video)
    BY <1>1 DEF VideosInv, RoomOK
  <1>7. born' \in Video /\ born' \notin Existing
    <2>1. born' \in 1..Cardinality(Video)
      BY <1>1, <1>5, <1>6, VideosAreNumbers
    <2>2. born' \in Video
      BY <2>1, VideosAssumption, Zenon
    <2>3. \A v \in Existing : v <= born /\ v \in Nat
      BY VideosAreNumbers DEF VideosInv, TablesOK
    <2> QED
      BY <1>1, <2>2, <2>3
  <1>8. /\ Existing' = Existing \cup {born'}
        /\ \A u \in Existing : videos'[u] = videos[u]
        /\ videos'[born'] = [f \in Field |-> clock]
    BY <1>7 DEF Insert, Existing
  <1>9. DOMAIN call' = Worker /\ TablesOK'
    <2>1. \A u \in Existing' : videos'[u] \in Copy /\ u <= born'
      <3>1. \A u \in Existing : videos'[u] \in Copy /\ u <= born'
        BY <1>1, <1>8, VideosAreNumbers DEF VideosInv, TablesOK
      <3>2. videos'[born'] \in Copy
        BY <1>1, <1>8 DEF Copy
      <3> QED
        BY <1>1, <1>8, <3>1, <3>2
    <2>2. Existing' \subseteq Video
      BY <1>7, <1>8 DEF VideosInv, TablesOK
    <2>3. /\ clock' \in Nat /\ born' \in Nat /\ acked' \in [Video -> Copy]
          /\ \A u \in Video, f \in Field : acked'[u][f] <= clock'
      BY <1>1 DEF VideosInv, TablesOK
    <2> QED
      BY <1>2, <2>1, <2>2, <2>3 DEF OthersWait, TablesOK
  <1>10. \A x \in Worker : CallOK(x)'
    <2>1. \A x \in Worker \ {w} : CallOK(x)'
      BY <1>1, <1>2, SameCallOK, VideosAreNumbers DEF OthersWait, VideosInv, TablesOK
    <2>2. CallOK(w)'
      BY <1>1, <1>2, <1>3 DEF CallOK, Inserting
    <2> QED
      BY <2>1, <2>2
  <1>11. RoomOK'
    <2>1. born' + Cardinality(J) <= Cardinality(Video)
      BY <1>1, <1>5, <1>6, VideosAreNumbers
    <2> QED
      BY <2>1 DEF RoomOK
  <1>12. UpdatesStay'
    <2>1. \A f \in Field : acked[born'][f] \in Nat /\ acked[born'][f] <= clock
      BY <1>7 DEF VideosInv, TablesOK, Copy
    <2> QED
      BY <1>1, <1>8, <2>1 DEF VideosInv, UpdatesStay
  <1>13. \A x \in Worker : Writing(x) => call[x].video # born'
    BY <1>1, VideosAreNumbers DEF VideosInv, CallOK, Writing
  <1>14. \A x \in Worker : WriterKnows(x)' /\ PendingStays(x)'
    <2>1. WriterKnows(w)' /\ PendingStays(w)'
      BY <1>3 DEF WriterKnows, PendingStays
    <2>2. \A x \in Worker \ {w} : WriterKnows(x)'
      BY <1>1, <1>2, <1>8, <1>13, SameCall DEF OthersWait, VideosInv, WriterKnows
    <2>3. \A x \in Worker \ {w} : PendingStays(x)'
      <3> SUFFICES ASSUME NEW x \in Worker \ {w}, Pending(x),
                          call[x].video \in Existing' \ raced
                   PROVE  videos'[call[x].video][call[x].field] >= call[x].total
        BY <1>1, <1>2, SameCall DEF OthersWait, PendingStays
      <3>1. call[x].field \in Field /\ call[x].total \in Nat /\ call[x].total <= clock
        BY DEF VideosInv, CallOK, Pending
      <3> QED
        BY <1>1, <1>8, <3>1 DEF VideosInv, PendingStays
    <2> QED
      BY <2>1, <2>2, <2>3
  <1>15. \A x, y \in Worker : WriterFollows(x, y)'
    <2>1. \A x, y \in Worker \ {w} : WriterFollows(x, y)'
      BY <1>1, <1>2, <1>8, <1>13, SameCall DEF OthersWait, VideosInv, WriterFollows
    <2>2. \A x \in Worker : WriterFollows(x, w)' /\ WriterFollows(w, x)'
      BY <1>3 DEF WriterFollows
    <2> QED
      BY <2>1, <2>2
  <1> QED
    BY <1>9, <1>10, <1>11, <1>12, <1>14, <1>15 DEF VideosInv

(* A change elsewhere is newer than all others, and a deleted video does   *)
(* not come back.                                                          *)
LEMMA EditKeeps ==
  ASSUME VideosInv, NEW v \in Video, EditElsewhere(v)
  PROVE  VideosInv'
  <1>1. /\ UNCHANGED <<born, call, acked, raced>> /\ v \in Existing
        /\ clock \in Nat /\ videos[v] \in Copy
    BY DEF EditElsewhere, history, VideosInv, TablesOK
  <1>2. CASE \E f \in Field : clock' = clock + 1 /\ videos' = [videos EXCEPT ![v][f] = clock']
    <2>1. PICK g \in Field : clock' = clock + 1 /\ videos' = [videos EXCEPT ![v][g] = clock']
      BY <1>2
    <2>2. /\ Existing' = Existing
          /\ \A u \in Existing, f \in Field :
                 u # v \/ f # g => videos'[u][f] = videos[u][f]
          /\ videos'[v][g] = clock'
          /\ \A u \in Existing : videos'[u] \in Copy
      BY <1>1, <2>1 DEF VideosInv, TablesOK, Existing, Copy
    <2>3. DOMAIN call' = Worker /\ TablesOK'
      <3>1. \A u \in Video, f \in Field : acked[u][f] <= clock'
        BY <1>1, <2>1 DEF VideosInv, TablesOK, Copy
      <3> QED
        BY <1>1, <2>1, <2>2, <3>1 DEF VideosInv, TablesOK
    <2>4. \A x \in Worker : CallOK(x)'
      BY <1>1, <2>1, SameCallOK, VideosAreNumbers DEF VideosInv, TablesOK
    <2>5. RoomOK'
      BY <1>1, RoomStays, SameCall DEF VideosInv
    <2>6. UpdatesStay'
      <3>1. acked[v][g] \in Nat /\ acked[v][g] <= clock
        BY <1>1, <2>1 DEF VideosInv, TablesOK, Copy
      <3> QED
        BY <1>1, <2>1, <2>2, <3>1 DEF VideosInv, UpdatesStay
    <2>7. \A x \in Worker : WriterKnows(x)'
      BY <1>1, <2>2, SameCall DEF VideosInv, WriterKnows
    <2>8. \A x \in Worker : PendingStays(x)'
      <3> SUFFICES ASSUME NEW x \in Worker, Pending(x), call[x].video \in Existing \ raced
                   PROVE  videos'[call[x].video][call[x].field] >= call[x].total
        BY <1>1, <2>2, SameCall DEF PendingStays
      <3>1. call[x].field \in Field /\ call[x].total \in Nat /\ call[x].total <= clock
        BY DEF VideosInv, CallOK, Pending
      <3> QED
        BY <1>1, <2>1, <2>2, <3>1 DEF VideosInv, PendingStays
    <2>9. \A x, y \in Worker : WriterFollows(x, y)'
      BY <1>1, <2>2, SameCall DEF VideosInv, WriterFollows
    <2> QED
      BY <2>3, <2>4, <2>5, <2>6, <2>7, <2>8, <2>9 DEF VideosInv
  <1>3. CASE videos' = [u \in Existing \ {v} |-> videos[u]] /\ UNCHANGED clock
    <2>1. /\ Existing' = Existing \ {v}
          /\ \A u \in Existing' : videos'[u] = videos[u]
      BY <1>3 DEF Existing
    <2>2. DOMAIN call' = Worker /\ TablesOK'
      BY <1>1, <1>3, <2>1 DEF VideosInv, TablesOK
    <2>3. \A x \in Worker : CallOK(x)'
      BY <1>1, <1>3, SameCallOK, VideosAreNumbers DEF VideosInv, TablesOK
    <2>4. RoomOK'
      BY <1>1, RoomStays, SameCall DEF VideosInv
    <2>5. UpdatesStay'
      BY <1>1, <2>1 DEF VideosInv, UpdatesStay
    <2>6. \A x \in Worker : WriterKnows(x)' /\ PendingStays(x)'
      BY <1>1, <2>1, SameCall DEF VideosInv, WriterKnows, PendingStays
    <2>7. \A x, y \in Worker : WriterFollows(x, y)'
      BY <1>1, <2>1, SameCall DEF VideosInv, WriterFollows
    <2> QED
      BY <2>2, <2>3, <2>4, <2>5, <2>6, <2>7 DEF VideosInv
  <1> QED
    BY <1>2, <1>3 DEF EditElsewhere

(* Nothing that the invariant speaks of changes.                           *)
LEMMA StutterKeeps ==
  ASSUME VideosInv, UNCHANGED <<videos, born, clock, call, acked, raced>>
  PROVE  VideosInv'
  <1>1. DOMAIN call' = Worker /\ TablesOK' /\ UpdatesStay'
    BY DEF VideosInv, TablesOK, UpdatesStay, Existing
  <1>2. \A x \in Worker : CallOK(x)'
    BY SameCallOK, VideosAreNumbers DEF VideosInv, TablesOK
  <1>3. RoomOK'
    BY RoomStays, SameCall DEF VideosInv
  <1>4. \A x \in Worker : WriterKnows(x)' /\ PendingStays(x)'
    BY SameCall DEF VideosInv, WriterKnows, PendingStays, Existing
  <1>5. \A x, y \in Worker : WriterFollows(x, y)'
    BY SameCall DEF VideosInv, WriterFollows, Existing
  <1> QED
    BY <1>1, <1>2, <1>3, <1>4, <1>5 DEF VideosInv
-------------------------------------------------------------------------------
(* Requests for lists, and answers.                                        *)

(* An idle request.                                                        *)
LEMMA AnswerIsQuiet ==
  ASSUME VideosInv, NEW w \in Worker, Answer(w)
  PROVE  Quiet(w) /\ ~Inserting(w)'
  <1>1. OthersWait(w) /\ call'[w] = Idle
    BY NewCall DEF Answer
  <1>2. DOMAIN call'[w] = Parts /\ call'[w].pc = "idle"
    BY <1>1 DEF Parts, Idle
  <1>3. CallOK(w)' /\ NothingNew(w) /\ ~Inserting(w)'
    BY <1>2 DEF CallOK, NothingNew, Writing, Pending, Inserting
  <1> QED
    BY <1>1, <1>3 DEF Quiet, Answer, tables, numbers, history

(* A page is asked for, read, stored or turned, row by row.                *)
LEMMA ListsMoveOn ==
  ASSUME VideosInv, NEW w \in Worker,
         \/ Search(w) \/ Details(w) \/ Row(w) \/ Commit(w) \/ DeadlockVictim(w)
         \/ Count(w) \/ Select(w) \/ WriteRefused(w)
  PROVE  Quiet(w) /\ ~Inserting(w)'
  <1>1. DOMAIN call[w] = Parts /\ DOMAIN call = Worker
    BY DEF VideosInv, CallOK
  <1>2. CASE Search(w)
    BY <1>1, <1>2, MovesOnIsQuiet
    DEF Search, Parts, Idle, OthersWait, MovesOn, tables, numbers, history
  <1>3. CASE Details(w)
    BY <1>1, <1>3, MovesOnIsQuiet
    DEF Details, Parts, Idle, OthersWait, MovesOn, tables, numbers, history
  <1>4. CASE Row(w)
    BY <1>1, <1>4, MovesOnIsQuiet
    DEF Row, Parts, Idle, OthersWait, MovesOn, tables, numbers, history
  <1>5. CASE Commit(w)
    <2>1. /\ UNCHANGED <<videos, born, clock, acked, raced>>
          /\ call[w].pc = "row" /\ call' = [call EXCEPT ![w] = TurnPage(w)]
      BY <1>5 DEF Commit, numbers, history
    <2>2. /\ DOMAIN TurnPage(w) = Parts
          /\ TurnPage(w).pc \in {"search", "answer"}
          /\ TurnPage(w).video = call[w].video
          /\ TurnPage(w).field = call[w].field
      BY <1>1 DEF TurnPage, Parts, Idle
    <2>3. OthersWait(w) /\ call'[w] = TurnPage(w)
      BY <2>1, NewCall
    <2> QED
      BY <2>1, <2>2, <2>3, MovesOnIsQuiet DEF MovesOn
  <1>6. CASE DeadlockVictim(w)
    <2>1. /\ UNCHANGED <<videos, born, clock, acked, raced>> /\ call[w].pc = "row"
          /\ call' = [call EXCEPT ![w].pc = "answer", ![w].ok = FALSE,
                                  ![w].page = <<>>, ![w].staged = NoRows]
      <3>1. call[w].pc = "row"
        BY <1>6 DEF DeadlockVictim, Waits
      <3> QED
        BY <1>6, <3>1 DEF DeadlockVictim, tables, numbers, history
    <2> QED
      BY <1>1, <2>1, MovesOnIsQuiet DEF Parts, Idle, OthersWait, MovesOn
  <1>7. CASE Count(w)
    BY <1>1, <1>7, MovesOnIsQuiet
    DEF Count, Parts, Idle, OthersWait, MovesOn, tables, numbers, history
  <1>8. CASE Select(w)
    <2>1. MovesOn(w)
      BY <1>1, <1>8, ReadIs DEF Reads, MovesOn
    <2> QED
      BY <2>1, MovesOnIsQuiet
  <1>9. CASE WriteRefused(w)
    BY <1>9, FailMovesOn DEF WriteRefused, tables, numbers, history
  <1> QED
    BY <1>2, <1>3, <1>4, <1>5, <1>6, <1>7, <1>8, <1>9

-------------------------------------------------------------------------------
(* Each step of a request.                                                 *)
LEMMA ServeKeeps ==
  ASSUME VideosInv, NEW w \in Worker, Serve(w)
  PROVE  VideosInv'
  <1>1. CASE Answer(w)
    BY <1>1, AnswerIsQuiet, QuietKeeps
  <1>2. CASE Lookup(w)
    <2>1. Goto(w, "fetch") \/ Goto(w, "answer")
      BY <1>2 DEF Lookup
    <2> QED
      BY <1>2, <2>1, LookupIsQuiet, QuietKeeps DEF Lookup, tables, numbers, history
  <1>3. CASE Fetch(w)
    BY <1>3, FetchIsQuiet, QuietKeeps
  <1>4. CASE Store(w)
    BY <1>4, AcknowledgeKeeps DEF Store, numbers
  <1>5. CASE FetchExisting(w)
    BY <1>5, FetchExistingKeeps
  <1>6. CASE Write(w)
    <2>1. DOMAIN call[w] = Parts /\ DOMAIN call = Worker
      BY DEF VideosInv, CallOK
    <2>2. /\ OthersWait(w) /\ DOMAIN call'[w] = Parts
          /\ call'[w].video = call[w].video /\ call'[w].field = call[w].field
          /\ call'[w].pc = "fetch" /\ call'[w].total = clock'
      BY <1>6, <2>1 DEF Write, Parts, Idle, OthersWait
    <2> QED
      BY <1>6, <2>2, OverwriteKeeps DEF Write, Writing
  <1>7. CASE Insert(w)
    BY <1>7, InsertKeeps
  <1>8. CASE \/ Search(w) \/ Details(w) \/ Row(w) \/ Commit(w) \/ DeadlockVictim(w)
             \/ Count(w) \/ Select(w) \/ WriteRefused(w)
    BY <1>8, ListsMoveOn, QuietKeeps
  <1> QED
    BY <1>1, <1>2, <1>3, <1>4, <1>5, <1>6, <1>7, <1>8 DEF Serve

(* A failing or unanswered call.                                           *)
LEMMA FaultKeeps ==
  ASSUME VideosInv, NEW w \in Worker,
         \/ CallFails(w) \/ ReadBreaksOff(w)
         \/ WriteUnanswered(w) \/ CommitUnanswered(w)
  PROVE  VideosInv'
  <1>1. DOMAIN call[w] = Parts /\ DOMAIN call = Worker
    BY DEF VideosInv, CallOK
  <1>2. CASE CallFails(w)
    <2>1. UNCHANGED <<videos, born, clock, raced>>
      BY <1>2 DEF CallFails, tables, numbers
    <2>2. CASE call[w].pc = "lookup" /\ Goto(w, "fetch") /\ UNCHANGED acked
      BY <2>1, <2>2, LookupIsQuiet, QuietKeeps
    <2>3. CASE /\ call[w].pc \in {"fetch", "existing", "write", "insert", "search",
                                  "details", "count", "select"}
               /\ Fail(w) /\ UNCHANGED acked
      BY <2>1, <2>3, FailMovesOn, QuietKeeps
    <2>4. CASE /\ call[w].pc \in {"store", "again"}
               /\ Goto(w, AfterStore(w)) /\ Acknowledge(w)
      BY <2>1, <2>4, AcknowledgeKeeps
    <2>5. CASE call[w].pc = "row" /\ UpsertFails(w) /\ UNCHANGED acked
      <3>1. MovesOn(w)
        BY <1>1, <2>1, <2>5 DEF UpsertFails, Parts, Idle, OthersWait, MovesOn
      <3> QED
        BY <3>1, MovesOnIsQuiet, QuietKeeps
    <2> QED
      BY <1>2, <2>2, <2>3, <2>4, <2>5 DEF CallFails
  <1>3. CASE WriteUnanswered(w)
    <2>1. /\ OthersWait(w) /\ DOMAIN call'[w] = Parts
          /\ call'[w].video = call[w].video /\ call'[w].field = call[w].field
          /\ call'[w].pc = "answer"
      BY <1>1, <1>3 DEF WriteUnanswered, Fail, Parts, Idle, OthersWait
    <2> QED
      BY <1>3, <2>1, OverwriteKeeps DEF WriteUnanswered, Writing
  <1>4. CASE CommitUnanswered(w)
    <2>1. MovesOn(w)
      BY <1>1, <1>4
      DEF CommitUnanswered, Parts, Idle, OthersWait, MovesOn, numbers, history
    <2> QED
      BY <2>1, MovesOnIsQuiet, QuietKeeps
  <1>5. CASE ReadBreaksOff(w)
    <2>1. MovesOn(w)
      BY <1>1, <1>5, ReadIs DEF Reads, MovesOn
    <2> QED
      BY <2>1, MovesOnIsQuiet, QuietKeeps
  <1> QED
    BY <1>2, <1>3, <1>4, <1>5

(* Every step keeps the invariant.                                         *)
LEMMA NextKeeps == VideosInv /\ [Next]_vars => VideosInv'
  <1> SUFFICES ASSUME VideosInv, [Next]_vars PROVE VideosInv'
    OBVIOUS
  <1>1. ASSUME NEW w \in Worker, NEW r \in Request, Accept(w, r) PROVE VideosInv'
    BY <1>1, AcceptKeeps
  <1>2. ASSUME NEW w \in Worker, Serve(w) PROVE VideosInv'
    BY <1>2, ServeKeeps
  <1>3. ASSUME NEW w \in Worker,
               \/ CallFails(w) \/ ReadBreaksOff(w)
               \/ WriteUnanswered(w) \/ CommitUnanswered(w)
        PROVE  VideosInv'
    BY <1>3, FaultKeeps
  <1>4. ASSUME NEW v \in Video, Expire(v) PROVE VideosInv'
    BY <1>4, StutterKeeps DEF Expire, numbers, history
  <1>5. ASSUME NEW v \in Video, EditElsewhere(v) PROVE VideosInv'
    BY <1>5, EditKeeps
  <1>6. CASE UNCHANGED vars
    BY <1>6, StutterKeeps DEF vars, tables, numbers, history
  <1> QED
    BY <1>1, <1>2, <1>3, <1>4, <1>5, <1>6 DEF Next

(* Videos, calls and what was acknowledged of them fit together.           *)
THEOREM VideosInvariance == Spec => []VideosInv
  <1> QED
    BY InitHolds, NextKeeps, PTL DEF Spec

(* However many requests read, update, force and upload videos, with calls *)
(* that fail or are not answered and changes made elsewhere: an update     *)
(* that UpdateVideo (youtube_client.go:435) has reported stays, unless two *)
(* requests were updating the video at once.                               *)
THEOREM AcknowledgedUpdatesStay == Spec => []UpdatesStay
  <1>1. VideosInv => UpdatesStay
    BY DEF VideosInv
  <1> QED
    BY <1>1, VideosInvariance, PTL

-------------------------------------------------------------------------------
(* The steps of each kind of request, one after the other.                 *)
PathOK(w) ==
    /\ call[w].op \in {"none", "details", "force", "update", "sync", "list",
                       "summary", "upload"}
    /\ call[w].op = "none" <=> call[w].pc = "idle"
    /\ call[w].op = "details" => call[w].pc \in {"lookup", "fetch", "store", "answer"}
    /\ call[w].op = "force"   => call[w].pc \in {"fetch", "store", "again", "answer"}
    /\ call[w].op = "update"  => call[w].pc \in {"existing", "write", "fetch", "store", "answer"}
    /\ call[w].op = "sync"    => call[w].pc \in {"search", "details", "row", "answer"}
    /\ call[w].op \in {"list", "summary"} => call[w].pc \in {"count", "select", "answer"}
    /\ call[w].op = "upload"  => call[w].pc \in {"insert", "answer"}

(* A step of w, whatever it is.                                            *)
Acts(w) ==
    \/ \E r \in Request : Accept(w, r)
    \/ Serve(w)
    \/ CallFails(w)
    \/ ReadBreaksOff(w)
    \/ WriteUnanswered(w)
    \/ CommitUnanswered(w)

(* A step of w leaves the other requests alone, and w on its path.         *)
LEMMA ServePath ==
  ASSUME VideosInv, NEW w \in Worker, PathOK(w), Serve(w)
  PROVE  OthersWait(w) /\ PathOK(w)'
  <1>1. DOMAIN call[w] = Parts /\ DOMAIN call = Worker
    BY DEF VideosInv, CallOK
  <1>2. CASE Answer(w)
    BY <1>1, <1>2, NewCall DEF Answer, Idle, PathOK
  <1>3. CASE Lookup(w)
    <2>1. Goto(w, "answer") \/ Goto(w, "fetch")
      BY <1>3 DEF Lookup
    <2> QED
      BY <1>1, <1>3, <2>1 DEF Lookup, Goto, Parts, Idle, OthersWait, PathOK
  <1>4. CASE Fetch(w)
    <2>1. \/ call' = [call EXCEPT ![w].pc = "store", ![w].copy = videos[call[w].video]]
          \/ Fail(w)
      BY <1>4 DEF Fetch
    <2> QED
      BY <1>1, <1>4, <2>1 DEF Fetch, Fail, Parts, Idle, OthersWait, PathOK
  <1>5. CASE Store(w)
    <2>1. Goto(w, AfterStore(w)) /\ call[w].pc \in {"store", "again"}
      BY <1>5 DEF Store
    <2> QED
      BY <1>1, <2>1 DEF Goto, AfterStore, Parts, Idle, OthersWait, PathOK
  <1>6. CASE FetchExisting(w)
    <2>1. \/ call' = [call EXCEPT ![w].pc = "write", ![w].copy = videos[call[w].video]]
          \/ Fail(w)
      BY <1>6 DEF FetchExisting
    <2> QED
      BY <1>1, <1>6, <2>1 DEF FetchExisting, Fail, Parts, Idle, OthersWait, PathOK
  <1>7. CASE Write(w) \/ WriteRefused(w)
    BY <1>1, <1>7 DEF Write, WriteRefused, Fail, Parts, Idle, OthersWait, PathOK
  <1>8. CASE Insert(w)
    BY <1>1, <1>8 DEF Insert, Goto, Parts, Idle, OthersWait, PathOK
  <1>9. CASE Search(w)
    BY <1>1, <1>9 DEF Search, Parts, Idle, OthersWait, PathOK
  <1>10. CASE Details(w)
    BY <1>1, <1>10 DEF Details, Parts, Idle, OthersWait, PathOK
  <1>11. CASE Row(w)
    BY <1>1, <1>11 DEF Row, Parts, Idle, OthersWait, PathOK
  <1>12. CASE Commit(w)
    <2>1. /\ TurnPage(w).pc \in {"search", "answer"}
          /\ TurnPage(w).op = call[w].op
      BY <1>1 DEF TurnPage, Parts, Idle
    <2>2. OthersWait(w) /\ call'[w] = TurnPage(w) /\ call[w].pc = "row"
      BY <1>12, NewCall DEF Commit
    <2> QED
      BY <2>1, <2>2 DEF PathOK
  <1>13. CASE DeadlockVictim(w)
    <2>1. call[w].pc = "row"
      BY <1>13 DEF DeadlockVictim, Waits
    <2> QED
      BY <1>1, <1>13, <2>1 DEF DeadlockVictim, Parts, Idle, OthersWait, PathOK
  <1>14. CASE Count(w)
    BY <1>1, <1>14 DEF Count, Parts, Idle, OthersWait, PathOK
  <1>15. CASE Select(w)
    BY <1>1, <1>15, ReadIs DEF Reads, PathOK
  <1> QED
    BY <1>2, <1>3, <1>4, <1>5, <1>6, <1>7, <1>8, <1>9, <1>10, <1>11, <1>12,
       <1>13, <1>14, <1>15 DEF Serve

(* ... whether it was accepted just now or a call fails, too.              *)
LEMMA ActsPath ==
  ASSUME VideosInv, NEW w \in Worker, PathOK(w), Acts(w)
  PROVE  OthersWait(w) /\ PathOK(w)'
  <1>1. DOMAIN call[w] = Parts /\ DOMAIN call = Worker
    BY DEF VideosInv, CallOK
  <1>2. ASSUME NEW r \in Request, Accept(w, r)
        PROVE  OthersWait(w) /\ PathOK(w)'
    <2> DEFINE c == [Idle EXCEPT !.op = r.op, !.pc = FirstCall[r.op],
                        !.video = r.video, !.field = r.field, !.all = r.all,
                        !.newest = r.newest]
    <2>1. call' = [call EXCEPT ![w] = c]
      BY <1>2 DEF Accept
    <2>2. c.op = r.op /\ c.pc = FirstCall[r.op]
      BY DEF Idle
    <2>3. r.op \in {"details", "force", "update", "sync", "list", "summary", "upload"}
      BY VideosAssumption
    <2> HIDE DEF c
    <2>4. OthersWait(w) /\ call'[w] = c
      BY <2>1, NewCall
    <2> QED
      BY <2>2, <2>3, <2>4 DEF PathOK, FirstCall
  <1>3. CASE CallFails(w)
    <2>1. CASE call[w].pc = "lookup" /\ Goto(w, "fetch")
      BY <1>1, <2>1 DEF Goto, Parts, Idle, OthersWait, PathOK
    <2>2. CASE /\ call[w].pc \in {"fetch", "existing", "write", "insert", "search",
                                  "details", "count", "select"}
               /\ Fail(w)
      BY <1>1, <2>2 DEF Fail, Parts, Idle, OthersWait, PathOK
    <2>3. CASE call[w].pc \in {"store", "again"} /\ Goto(w, AfterStore(w))
      BY <1>1, <2>3 DEF Goto, AfterStore, Parts, Idle, OthersWait, PathOK
    <2>4. CASE call[w].pc = "row" /\ UpsertFails(w)
      BY <1>1, <2>4 DEF UpsertFails, Parts, Idle, OthersWait, PathOK
    <2> QED
      BY <1>3, <2>1, <2>2, <2>3, <2>4 DEF CallFails
  <1>4. CASE WriteUnanswered(w)
    BY <1>1, <1>4 DEF WriteUnanswered, Fail, Parts, Idle, OthersWait, PathOK
  <1>5. CASE CommitUnanswered(w)
    BY <1>1, <1>5 DEF CommitUnanswered, Parts, Idle, OthersWait, PathOK
  <1>6. CASE ReadBreaksOff(w)
    BY <1>1, <1>6, ReadIs DEF Reads, PathOK
  <1> QED
    BY <1>2, <1>3, <1>4, <1>5, <1>6, ServePath DEF Acts

-------------------------------------------------------------------------------
(* Lists and their pages.                                                  *)

(* How many elements of S are not less than v.                             *)
AtLeast(S, v) == Cardinality({u \in S : u >= v})

(* The lower of two numbers of a finite set is at least as many.           *)
LEMMA AtLeastFalls ==
  ASSUME NEW S \in SUBSET Nat, IsFiniteSet(S), NEW v \in S
  PROVE  /\ AtLeast(S, v) \in 1..Cardinality(S)
         /\ \A u \in S : u < v => AtLeast(S, u) > AtLeast(S, v)
  <1> DEFINE Up(u) == {x \in S : x >= u}
  <1>1. \A u \in S : IsFiniteSet(Up(u)) /\ AtLeast(S, u) \in Nat
                        /\ AtLeast(S, u) <= Cardinality(S) /\ u \in Up(u)
    <2> TAKE u \in S
    <2>1. Up(u) \in SUBSET S
      OBVIOUS
    <2>2. IsFiniteSet(Up(u)) /\ Cardinality(Up(u)) <= Cardinality(S)
      BY <2>1, FS_Subset
    <2>3. Cardinality(Up(u)) \in Nat /\ u \in Up(u)
      BY <2>2, FS_CardinalityType
    <2> QED
      BY <2>2, <2>3 DEF AtLeast
  <1>2. AtLeast(S, v) # 0
    <2>1. Up(v) # {}
      BY <1>1
    <2> QED
      BY <1>1, <2>1, FS_EmptySet DEF AtLeast
  <1>3. ASSUME NEW u \in S, u < v PROVE AtLeast(S, u) > AtLeast(S, v)
    <2>1. Up(v) \in SUBSET Up(u) /\ u \notin Up(v)
      <3>1. u \in Nat /\ v \in Nat /\ \A x \in S : x \in Nat
        OBVIOUS
      <3>2. ~(u >= v) /\ \A x \in S : x >= v => x >= u
        BY <1>3, <3>1
      <3> QED
        BY <3>2
    <2>2. Cardinality(Up(v)) <= Cardinality(Up(u)) /\ Cardinality(Up(v)) # Cardinality(Up(u))
      BY <1>1, <2>1, FS_Subset
    <2> HIDE DEF Up
    <2>3. Cardinality(Up(v)) = AtLeast(S, v) /\ Cardinality(Up(u)) = AtLeast(S, u)
      BY DEF AtLeast, Up
    <2> QED
      BY <1>1, <2>2, <2>3
  <1>4. Cardinality(S) \in Nat
    BY FS_CardinalityType
  <1>5. AtLeast(S, v) \in 1..Cardinality(S)
    <2>1. AtLeast(S, v) \in Nat /\ AtLeast(S, v) <= Cardinality(S)
      BY <1>1
    <2> QED
      BY <1>2, <1>4, <2>1
  <1> QED
    BY <1>3, <1>5

(* NewestFirst lists every element once, the higher ones first.            *)
LEMMA NewestFirstLists ==
  ASSUME NEW S \in SUBSET Nat, IsFiniteSet(S)
  PROVE  LET s == NewestFirst(S) IN
         /\ s \in [1..Cardinality(S) -> S]
         /\ \A v \in S : \E i \in 1..Cardinality(S) : s[i] = v
         /\ \A i, j \in 1..Cardinality(S) : i < j => s[i] > s[j]
  <1> DEFINE n == Cardinality(S)
             s == NewestFirst(S)
             rank == [v \in S |-> AtLeast(S, v)]
  <1>1. n \in Nat /\ IsFiniteSet(1..n) /\ Cardinality(1..n) = n
    BY FS_CardinalityType, FS_Interval
  <1>2. \A u, v \in S : u # v => rank[u] # rank[v]
    <2> SUFFICES ASSUME NEW u \in S, NEW v \in S, u # v PROVE rank[u] # rank[v]
      OBVIOUS
    <2>1. u < v \/ v < u
      OBVIOUS
    <2>2. rank[u] \in 1..n /\ rank[v] \in 1..n
      BY AtLeastFalls
    <2>3. (u < v => rank[u] > rank[v]) /\ (v < u => rank[v] > rank[u])
      BY AtLeastFalls
    <2> QED
      BY <1>1, <2>1, <2>2, <2>3
  <1>3. rank \in Injection(S, 1..n)
    <2>1. rank \in [S -> 1..n]
      BY AtLeastFalls
    <2> QED
      BY <1>2, <2>1 DEF Injection, IsInjective
  <1>4. rank \in Surjection(S, 1..n)
    BY <1>1, <1>3, FS_Injection
  <1>5. \A i \in 1..n : \E v \in S : AtLeast(S, v) = i
    BY <1>4 DEF Surjection
  <1>6. s = [i \in 1..n |-> CHOOSE v \in S : AtLeast(S, v) = i]
    BY Zenon DEF NewestFirst, AtLeast
  <1> HIDE DEF s
  <1>7. \A i \in 1..n : s[i] \in S /\ AtLeast(S, s[i]) = i
    <2> TAKE i \in 1..n
    <2>1. s[i] = CHOOSE v \in S : AtLeast(S, v) = i
      BY <1>6
    <2> QED
      BY <1>5, <2>1
  <1>8. \A v \in S : s[AtLeast(S, v)] = v
    <2> TAKE v \in S
    <2>1. AtLeast(S, v) \in 1..n
      BY AtLeastFalls
    <2> QED
      BY <1>2, <1>7, <2>1
  <1>9. \A i, j \in 1..n : i < j => s[i] > s[j]
    <2> SUFFICES ASSUME NEW i \in 1..n, NEW j \in 1..n, i < j PROVE s[i] > s[j]
      OBVIOUS
    <2>a. /\ s[i] \in S /\ AtLeast(S, s[i]) = i
          /\ s[j] \in S /\ AtLeast(S, s[j]) = j
      BY <1>7
    <2>1. s[i] \in Nat /\ s[j] \in Nat /\ s[i] # s[j]
      <3>1. s[i] \in Nat /\ s[j] \in Nat
        BY <2>a
      <3>2. i # j
        BY <1>1
      <3> QED
        BY <2>a, <3>1, <3>2
    <2>2. s[i] < s[j] => AtLeast(S, s[i]) > AtLeast(S, s[j])
      BY <2>a, AtLeastFalls
    <2>3. ~(i > j)
      BY <1>1
    <2> QED
      BY <2>a, <2>1, <2>2, <2>3
  <1>10. \A v \in S : \E i \in 1..n : s[i] = v
    BY <1>8, AtLeastFalls
  <1>11. s \in [1..n -> S]
    BY <1>6, <1>7
  <1> QED
    BY <1>9, <1>10, <1>11 DEF s

(* s lists each element of S once.                                         *)
Lists(s, S) ==
    /\ s \in Seq(S)
    /\ Len(s) = Cardinality(S)
    /\ \A v \in S : \E i \in 1..Len(s) : s[i] = v
    /\ \A i, j \in 1..Len(s) : s[i] = s[j] => i = j

(* So does Ordered, in either direction.                                   *)
LEMMA OrderedLists ==
  ASSUME NEW S \in SUBSET Nat, IsFiniteSet(S), NEW newest
  PROVE  Lists(Ordered(S, newest), S)
  <1> DEFINE s == NewestFirst(S)
             n == Cardinality(S)
  <1>1. n \in Nat
    BY FS_CardinalityType
  <1>2. /\ s \in [1..n -> S]
        /\ \A v \in S : \E i \in 1..n : s[i] = v
        /\ \A i, j \in 1..n : i < j => s[i] > s[j]
    BY NewestFirstLists
  <1> HIDE DEF s, n
  <1>3. s \in Seq(S) /\ Len(s) = n
    BY <1>1, <1>2
  <1>4. \A i, j \in 1..n : s[i] = s[j] => i = j
    <2> SUFFICES ASSUME NEW i \in 1..n, NEW j \in 1..n, s[i] = s[j], i # j PROVE FALSE
      OBVIOUS
    <2>1. i < j \/ j < i
      BY <1>1
    <2>2. s[i] \in Nat /\ s[j] \in Nat
      BY <1>2
    <2>3. s[i] > s[j] \/ s[j] > s[i]
      BY <1>2, <2>1
    <2> QED
      BY <2>2, <2>3
  <1>5. Lists(s, S)
    BY <1>2, <1>3, <1>4 DEF Lists, n
  <1> DEFINE r == Reverse(s)
  <1>6. r = [i \in 1..n |-> s[(n - i) + 1]]
    BY <1>3 DEF Reverse
  <1> HIDE DEF r
  <1>7. \A i \in 1..n : (n - i) + 1 \in 1..n /\ (n - ((n - i) + 1)) + 1 = i
    BY <1>1
  <1>8. \A i \in 1..n : r[i] = s[(n - i) + 1] /\ r[i] \in S
    BY <1>2, <1>6, <1>7
  <1>9. r \in Seq(S) /\ Len(r) = n
    BY <1>1, <1>6, <1>8
  <1>10. \A v \in S : \E i \in 1..n : r[i] = v
    <2> TAKE v \in S
    <2>1. PICK j \in 1..n : s[j] = v
      BY <1>2
    <2>2. r[(n - j) + 1] = v
      BY <1>7, <1>8, <2>1
    <2> QED
      BY <1>7, <2>2
  <1>11. \A i, j \in 1..n : r[i] = r[j] => i = j
    BY <1>4, <1>7, <1>8
  <1>12. Lists(r, S)
    BY <1>9, <1>10, <1>11 DEF Lists, n
  <1> QED
    BY <1>5, <1>12 DEF Ordered, r, s

(* A page of a list has what is there, up to its size.                     *)
LEMMA PageOfIs ==
  ASSUME NEW S, NEW s \in Seq(S), NEW from \in Nat, NEW n \in Nat
  PROVE  /\ PageOf(s, from, n) \in Seq(S)
         /\ Len(PageOf(s, from, n)) = IF from + n < Len(s) THEN n
                                      ELSE IF from < Len(s) THEN Len(s) - from ELSE 0
         /\ \A i \in 1..Len(PageOf(s, from, n)) : PageOf(s, from, n)[i] = s[from + i]
  <1> DEFINE m == IF from + n < Len(s) THEN from + n ELSE Len(s)
  <1>1. Len(s) \in Nat /\ m \in Nat /\ m <= Len(s)
    OBVIOUS
  <1>2. \A i \in from + 1 .. m : s[i] \in S
    BY <1>1
  <1>3. PageOf(s, from, n) = SubSeq(s, from + 1, m)
    BY DEF PageOf
  <1> HIDE DEF m
  <1>4. /\ SubSeq(s, from + 1, m) \in Seq(S)
        /\ Len(SubSeq(s, from + 1, m)) = IF from + 1 <= m THEN m - (from + 1) + 1 ELSE 0
        /\ \A i \in 1 .. m - (from + 1) + 1 :
               SubSeq(s, from + 1, m)[i] = s[(from + 1) + i - 1]
    BY <1>1, <1>2, SubSeqProperties
  <1>5. Len(SubSeq(s, from + 1, m)) = IF from < m THEN m - from ELSE 0
    BY <1>1, <1>4
  <1>6. \A i \in 1..Len(SubSeq(s, from + 1, m)) : SubSeq(s, from + 1, m)[i] = s[from + i]
    <2> TAKE i \in 1..Len(SubSeq(s, from + 1, m))
    <2>1. i \in 1 .. m - (from + 1) + 1 /\ (from + 1) + i - 1 = from + i
      BY <1>1, <1>5
    <2> QED
      BY <1>4, <2>1
  <1> QED
    BY <1>1, <1>3, <1>4, <1>5, <1>6 DEF m

(* A page and the one after it are a larger page.                          *)
LEMMA PagesJoin ==
  ASSUME NEW S, NEW s \in Seq(S), NEW k \in Nat, NEW n \in Nat
  PROVE  PageOf(s, 0, k) \o PageOf(s, k, n) = PageOf(s, 0, k + n)
  <1> DEFINE a == PageOf(s, 0, k)
             b == PageOf(s, k, n)
             c == PageOf(s, 0, k + n)
  <1>1. /\ a \in Seq(S) /\ b \in Seq(S) /\ c \in Seq(S)
        /\ Len(a) = IF k < Len(s) THEN k ELSE Len(s)
        /\ Len(b) = IF k + n < Len(s) THEN n ELSE IF k < Len(s) THEN Len(s) - k ELSE 0
        /\ Len(c) = IF k + n < Len(s) THEN k + n ELSE Len(s)
        /\ \A i \in 1..Len(a) : a[i] = s[i]
        /\ \A i \in 1..Len(b) : b[i] = s[k + i]
        /\ \A i \in 1..Len(c) : c[i] = s[i]
    <2>1. k + n \in Nat /\ 0 + k = k /\ 0 + (k + n) = k + n /\ Len(s) \in Nat
      OBVIOUS
    <2>2. /\ a \in Seq(S)
          /\ Len(a) = IF k < Len(s) THEN k ELSE Len(s)
          /\ \A i \in 1..Len(a) : a[i] = s[i]
      <3>1. /\ a \in Seq(S)
            /\ Len(a) = IF 0 + k < Len(s) THEN k ELSE IF 0 < Len(s) THEN Len(s) - 0 ELSE 0
            /\ \A i \in 1..Len(a) : a[i] = s[0 + i]
        <4>1. 0 \in Nat
          OBVIOUS
        <4> QED
          BY ONLY <4>1, PageOfIs, s \in Seq(S), k \in Nat
      <3> HIDE DEF a
      <3> QED
        BY <2>1, <3>1
    <2>3. /\ c \in Seq(S)
          /\ Len(c) = IF k + n < Len(s) THEN k + n ELSE Len(s)
          /\ \A i \in 1..Len(c) : c[i] = s[i]
      <3>1. /\ c \in Seq(S)
            /\ Len(c) = IF 0 + (k + n) < Len(s) THEN k + n
                        ELSE IF 0 < Len(s) THEN Len(s) - 0 ELSE 0
            /\ \A i \in 1..Len(c) : c[i] = s[0 + i]
        <4>1. 0 \in Nat /\ k + n \in Nat
          OBVIOUS
        <4> QED
          BY ONLY <4>1, PageOfIs, s \in Seq(S)
      <3> HIDE DEF c
      <3> QED
        BY <2>1, <3>1
    <2>4. /\ b \in Seq(S)
          /\ Len(b) = IF k + n < Len(s) THEN n ELSE IF k < Len(s) THEN Len(s) - k ELSE 0
          /\ \A i \in 1..Len(b) : b[i] = s[k + i]
      BY PageOfIs
    <2> QED
      BY <2>2, <2>3, <2>4
  <1> HIDE DEF a, b, c
  <1>2. /\ a \o b \in Seq(S) /\ Len(a \o b) = Len(a) + Len(b)
        /\ \A i \in 1 .. Len(a) + Len(b) :
               (a \o b)[i] = IF i <= Len(a) THEN a[i] ELSE b[i - Len(a)]
    <2>1. a \in Seq(S) /\ b \in Seq(S)
      BY <1>1
    <2> QED
      BY <2>1, ConcatProperties
  <1>3. Len(s) \in Nat /\ Len(a) + Len(b) = Len(c)
    <2>1. Len(s) \in Nat
      OBVIOUS
    <2>2. /\ Len(a) = IF k < Len(s) THEN k ELSE Len(s)
          /\ Len(b) = IF k + n < Len(s) THEN n ELSE IF k < Len(s) THEN Len(s) - k ELSE 0
          /\ Len(c) = IF k + n < Len(s) THEN k + n ELSE Len(s)
      BY <1>1
    <2>3. CASE k + n < Len(s)
      BY <2>1, <2>2, <2>3
    <2>4. CASE ~(k + n < Len(s)) /\ k < Len(s)
      BY <2>1, <2>2, <2>4
    <2>5. CASE ~(k < Len(s))
      BY <2>1, <2>2, <2>5
    <2> QED
      BY <2>3, <2>4, <2>5
  <1>4. ASSUME NEW i \in 1..Len(c) PROVE (a \o b)[i] = c[i]
    <2>1. CASE i <= Len(a)
      BY <1>1, <1>2, <1>3, <2>1
    <2>2. CASE i > Len(a)
      <3>1. Len(a) = k /\ i - k \in 1..Len(b) /\ k + (i - k) = i
        BY <1>1, <1>3, <2>2
      <3>2. (a \o b)[i] = b[i - k]
        <4>1. a \in Seq(S) /\ b \in Seq(S)
          BY <1>1
        <4>2. i \in Nat /\ Len(a) < i /\ i <= Len(a) + Len(b) /\ Len(a) = k
          BY <1>3, <2>2, <3>1
        <4> QED
          BY ONLY <4>1, <4>2, k \in Nat
      <3> QED
        BY <1>1, <3>1, <3>2
    <2> QED
      BY <1>1, <1>3, <2>1, <2>2
  <1>5. a \o b = c
    BY <1>1, <1>2, <1>3, <1>4, SeqEqual
  <1> QED
    BY <1>5 DEF a, b, c

-------------------------------------------------------------------------------
(* What is in the cache and on its way there.                              *)

VideoRow == [id : Video, data : Copy]

(* A sync stores copies of videos.                                         *)
RowsOK(w) ==
    /\ DOMAIN call[w].staged \subseteq Video
    /\ call[w].pc = "row" => call[w].page \in Seq(VideoRow)

BasicsOK ==
    /\ \A w \in Worker : PathOK(w) /\ RowsOK(w)
    /\ DOMAIN cache \subseteq Video
    /\ faults \in Nat

(* At first nothing is in the cache or on its way there.                   *)
LEMMA InitBasics == Init => BasicsOK
  <1> SUFFICES ASSUME Init PROVE BasicsOK
    OBVIOUS
  <1>1. \A w \in Worker : call[w] = Idle
    BY DEF Init
  <1>2. Idle.op = "none" /\ Idle.pc = "idle" /\ Idle.staged = NoRows
    BY DEF Idle
  <1>3. DOMAIN NoRows = {}
    BY DEF NoRows
  <1>4. \A w \in Worker : PathOK(w) /\ RowsOK(w)
    BY <1>1, <1>2, <1>3 DEF PathOK, RowsOK
  <1>5. cache = NoRows /\ faults = 0
    BY DEF Init
  <1> QED
    BY <1>3, <1>4, <1>5 DEF BasicsOK

(* What is there of a page, in order.                                      *)
LEMMA StillThereLists ==
  ASSUME TablesOK, NEW w \in Worker
  PROVE  Lists(StillThere(w), Range(call[w].page) \cap Existing)
  <1> DEFINE S == Range(call[w].page) \cap Existing
  <1>1. S \in SUBSET Nat /\ IsFiniteSet(S)
    BY VideosAreNumbers, VideosAssumption, FS_Subset DEF TablesOK
  <1> HIDE DEF S
  <1>2. Lists(Ordered(S, call[w].newest), S)
    BY <1>1, OrderedLists
  <1> QED
    BY <1>2 DEF StillThere, S

(* The rows that Details takes up are of videos that are there, as they are. *)
LEMMA DetailsRows ==
  ASSUME VideosInv, NEW w \in Worker, Details(w)
  PROVE  LET found == StillThere(w) IN
         /\ found \in Seq(Existing)
         /\ call'[w].page \in Seq(VideoRow)
         /\ DOMAIN call'[w].page = 1..Len(found)
         /\ \A i \in 1..Len(found) : call'[w].page[i] = [id |-> found[i], data |-> videos[found[i]]]
  <1> DEFINE found == StillThere(w)
             page == [i \in DOMAIN found |-> [id |-> found[i], data |-> videos[found[i]]]]
  <1>1. found \in Seq(Existing)
    <2> DEFINE S == Range(call[w].page) \cap Existing
    <2>1. Lists(found, S)
      BY StillThereLists DEF VideosInv
    <2>2. found \in Seq(S) /\ S \subseteq Existing
      BY <2>1 DEF Lists
    <2> HIDE DEF S, found
    <2> QED
      BY <2>2, SeqMonotonic
  <1>2. call'[w].page = page
    BY DEF VideosInv, CallOK, Parts, Idle, Details
  <1> HIDE DEF found
  <1>3. DOMAIN found = 1..Len(found) /\ \A i \in 1..Len(found) : found[i] \in Existing
    BY <1>1
  <1>4. \A i \in 1..Len(found) : page[i] = [id |-> found[i], data |-> videos[found[i]]]
    BY <1>3
  <1>5. \A i \in 1..Len(found) : page[i] \in VideoRow
    BY <1>3, <1>4 DEF VideosInv, TablesOK, VideoRow
  <1>6. page \in Seq(VideoRow) /\ DOMAIN page = 1..Len(found)
    BY <1>1, <1>3, <1>5
  <1> HIDE DEF page
  <1> QED
    BY <1>1, <1>2, <1>4, <1>6 DEF found

(* What a step of w does to its rows.                                      *)
LEMMA ActsRows ==
  ASSUME VideosInv, BasicsOK, NEW w \in Worker, Acts(w)
  PROVE  RowsOK(w)' /\ DOMAIN cache \subseteq DOMAIN cache' /\ DOMAIN cache' \subseteq Video
  <1>1. /\ DOMAIN call[w] = Parts /\ DOMAIN call = Worker /\ CallOK(w)
        /\ RowsOK(w) /\ DOMAIN cache \subseteq Video /\ DOMAIN NoRows = {}
    BY DEF VideosInv, CallOK, BasicsOK, NoRows
  <1>2. ASSUME cache' = cache, call'[w].staged = call[w].staged \/ call'[w].staged = NoRows,
               call'[w].pc # "row"
        PROVE  RowsOK(w)' /\ DOMAIN cache \subseteq DOMAIN cache' /\ DOMAIN cache' \subseteq Video
    BY <1>1, <1>2 DEF RowsOK
  <1>3. ASSUME NEW r \in Request, Accept(w, r)
        PROVE  cache' = cache /\ call'[w].staged = NoRows /\ call'[w].pc # "row"
    <2> DEFINE c == [Idle EXCEPT !.op = r.op, !.pc = FirstCall[r.op],
                        !.video = r.video, !.field = r.field, !.all = r.all,
                        !.newest = r.newest]
    <2>1. call' = [call EXCEPT ![w] = c] /\ cache' = cache
      BY <1>3 DEF Accept, tables
    <2>2. c.pc = FirstCall[r.op] /\ c.staged = NoRows
      BY DEF Idle
    <2>3. r.op \in {"details", "force", "update", "sync", "list", "summary", "upload"}
      BY VideosAssumption
    <2> HIDE DEF c
    <2>4. call'[w] = c
      BY <2>1, NewCall
    <2> QED
      BY <2>1, <2>2, <2>3, <2>4 DEF FirstCall
  <1>4. CASE Answer(w)
    <2>1. cache' = cache /\ call'[w].staged = NoRows /\ call'[w].pc # "row"
      BY <1>1, <1>4 DEF Answer, tables, Idle
    <2> QED
      BY <1>2, <2>1
  <1>5. CASE Lookup(w) \/ Fetch(w) \/ FetchExisting(w) \/ Write(w) \/ WriteRefused(w) \/ Insert(w)
    <2>1. cache' = cache /\ call'[w].staged = call[w].staged /\ call'[w].pc # "row"
      BY <1>1, <1>5
      DEF Lookup, Fetch, FetchExisting, Write, WriteRefused, Insert, Goto, Fail, tables, Parts, Idle
    <2> QED
      BY <1>2, <2>1
  <1>6. CASE Search(w) \/ Count(w) \/ DeadlockVictim(w)
    <2>1. /\ cache' = cache /\ call'[w].pc # "row"
          /\ call'[w].staged = call[w].staged \/ call'[w].staged = NoRows
      BY <1>1, <1>6 DEF Search, Count, DeadlockVictim, tables, Parts, Idle
    <2> QED
      BY <1>2, <2>1
  <1>13. CASE Reads(w)
    <2>1. cache' = cache /\ call'[w].pc # "row" /\ call'[w].staged = call[w].staged
      BY <1>1, <1>13, ReadIs
    <2> QED
      BY <1>2, <2>1
  <1>7. CASE Details(w)
    <2>1. cache' = cache /\ call'[w].staged = call[w].staged
      BY <1>1, <1>7 DEF Details, tables, Parts, Idle
    <2>2. call'[w].page \in Seq(VideoRow)
      BY <1>7, DetailsRows
    <2> QED
      BY <1>1, <2>1, <2>2 DEF RowsOK
  <1>8. CASE Row(w)
    <2> DEFINE r == Head(call[w].page)
               new == [v \in {r.id} |-> r.data]
    <2>1. call[w].page \in Seq(VideoRow) /\ call[w].page # <<>> /\ cache' = cache
      BY <1>1, <1>8 DEF Row, RowsOK, tables
    <2>2. r \in VideoRow /\ Tail(call[w].page) \in Seq(VideoRow)
      BY <2>1, HeadTailProperties
    <2>3. /\ call'[w].page = Tail(call[w].page)
          /\ call'[w].staged = Upsert(call[w].staged, new)
      BY <1>1, <1>8 DEF Row, Parts, Idle
    <2>4. DOMAIN Upsert(call[w].staged, new) \subseteq Video
      BY <1>1, <2>2 DEF Upsert, RowsOK, VideoRow
    <2> HIDE DEF r, new
    <2> QED
      BY <1>1, <2>1, <2>2, <2>3, <2>4 DEF RowsOK
  <1>9. CASE Commit(w) \/ CommitUnanswered(w)
    <2>1. cache' = Committed(w)
      BY <1>9 DEF Commit, CommitUnanswered
    <2>2. DOMAIN Committed(w) = DOMAIN cache \cup DOMAIN call[w].staged
      BY DEF Committed, Upsert
    <2>3. call'[w].staged = NoRows /\ call'[w].pc # "row"
      <3>1. TurnPage(w).staged = NoRows /\ TurnPage(w).pc # "row"
        BY <1>1 DEF TurnPage, Parts, Idle
      <3>2. CASE Commit(w)
        BY <3>1, <3>2, NewCall DEF Commit
      <3>3. CASE CommitUnanswered(w)
        BY <1>1, <3>3 DEF CommitUnanswered, Parts, Idle
      <3> QED
        BY <1>9, <3>2, <3>3
    <2> QED
      BY <1>1, <2>1, <2>2, <2>3 DEF RowsOK
  <1>10. CASE Store(w)
    <2>1. cache' = Upsert(cache, Fetched(w)) /\ call[w].pc \in {"store", "again"}
      BY <1>10 DEF Store
    <2>2. DOMAIN Upsert(cache, Fetched(w)) = DOMAIN cache \cup {call[w].video}
      BY DEF Upsert, Fetched
    <2>3. call[w].video \in Video
      BY <1>1, <2>1 DEF CallOK
    <2>4. call'[w].staged = call[w].staged /\ call'[w].pc # "row"
      BY <1>1, <1>10 DEF Store, Goto, AfterStore, Parts, Idle
    <2> QED
      BY <1>1, <2>1, <2>2, <2>3, <2>4 DEF RowsOK
  <1>11. CASE CallFails(w)
    <2>1. /\ cache' = cache /\ call'[w].pc # "row"
          /\ call'[w].staged = call[w].staged \/ call'[w].staged = NoRows
      BY <1>1, <1>11
      DEF CallFails, Goto, Fail, AfterStore, UpsertFails, tables, Parts, Idle
    <2> QED
      BY <1>2, <2>1
  <1>12. CASE WriteUnanswered(w)
    <2>1. cache' = cache /\ call'[w].staged = call[w].staged /\ call'[w].pc # "row"
      BY <1>1, <1>12 DEF WriteUnanswered, Fail, Parts, Idle
    <2> QED
      BY <1>2, <2>1
  <1> QED
    BY <1>2, <1>3, <1>4, <1>5, <1>6, <1>7, <1>8, <1>9, <1>10, <1>11, <1>12, <1>13
    DEF Acts, Serve, Reads

(* A step is one of a request, or leaves the requests and the rows alone,  *)
(* but for one that expires.                                               *)
LEMMA StepIs ==
  ASSUME [Next]_vars
  PROVE  \/ \E w \in Worker : Acts(w)
         \/ /\ call' = call /\ DOMAIN cache' = DOMAIN cache
            /\ UNCHANGED <<acked, raced, outdated, faults>>
            /\ \A v \in DOMAIN cache : cache'[v].data = cache[v].data
  <1>1. ASSUME NEW v \in Video, Expire(v)
        PROVE  /\ call' = call /\ DOMAIN cache' = DOMAIN cache
               /\ UNCHANGED <<acked, raced, outdated, faults>>
               /\ \A u \in DOMAIN cache : cache'[u].data = cache[u].data
    BY <1>1 DEF Expire, Fresh, history, bounds
  <1>2. ASSUME NEW v \in Video, EditElsewhere(v)
        PROVE  /\ call' = call /\ cache' = cache
               /\ UNCHANGED <<acked, raced, outdated, faults>>
    BY <1>2 DEF EditElsewhere, history
  <1>3. CASE UNCHANGED vars
    BY <1>3 DEF vars, tables, history, bounds
  <1> QED
    BY <1>1, <1>2, <1>3 DEF Next, Acts

(* Faults are only counted up.                                             *)
LEMMA FaultsGrow ==
  ASSUME faults \in Nat, NEW w \in Worker, Acts(w)
  PROVE  /\ faults' \in Nat
         /\ (\/ CallFails(w) \/ ReadBreaksOff(w)
             \/ WriteUnanswered(w) \/ CommitUnanswered(w)) => faults' # 0
         /\ faults' = 0 => faults = 0
  <1>1. (\/ CallFails(w) \/ ReadBreaksOff(w)
         \/ WriteUnanswered(w) \/ CommitUnanswered(w)) => faults' = faults + 1
    BY DEF CallFails, ReadBreaksOff, WriteUnanswered, CommitUnanswered, Fault
  <1>2. (\E r \in Request : Accept(w, r)) => faults' = faults
    BY DEF Accept
  <1>3. Serve(w) => faults' = faults
    BY DEF Serve, Answer, Lookup, Fetch, Store, FetchExisting, Write, WriteRefused,
       Insert, Search, Details, Row, Commit, DeadlockVictim, Count, Select, bounds
  <1> QED
    BY <1>1, <1>2, <1>3 DEF Acts

(* Every step keeps the basics.                                            *)
LEMMA NextBasics ==
  ASSUME VideosInv, BasicsOK, [Next]_vars
  PROVE  BasicsOK' /\ DOMAIN cache \subseteq DOMAIN cache'
  <1>1. ASSUME NEW w \in Worker, Acts(w)
        PROVE  BasicsOK' /\ DOMAIN cache \subseteq DOMAIN cache'
    <2>1. OthersWait(w) /\ PathOK(w)'
      BY <1>1, ActsPath DEF BasicsOK
    <2>2. RowsOK(w)' /\ DOMAIN cache \subseteq DOMAIN cache' /\ DOMAIN cache' \subseteq Video
      BY <1>1, ActsRows
    <2>3. faults' \in Nat
      BY <1>1, FaultsGrow DEF BasicsOK
    <2>4. \A x \in Worker \ {w} : PathOK(x)' /\ RowsOK(x)'
      BY <2>1 DEF OthersWait, BasicsOK, PathOK, RowsOK
    <2> QED
      BY <2>1, <2>2, <2>3, <2>4 DEF BasicsOK
  <1>2. ASSUME call' = call, DOMAIN cache' = DOMAIN cache, faults' = faults
        PROVE  BasicsOK' /\ DOMAIN cache \subseteq DOMAIN cache'
    BY <1>2 DEF BasicsOK, PathOK, RowsOK
  <1> QED
    BY <1>1, <1>2, StepIs

(* Whatever the requests do, each follows the steps of its kind, and only  *)
(* videos are stored or on their way into the cache.                       *)
THEOREM RequestsFollowTheirPath == Spec => []BasicsOK
  <1>1. Init => VideosInv /\ BasicsOK
    BY InitHolds, InitBasics
  <1>2. VideosInv /\ BasicsOK /\ [Next]_vars => (VideosInv /\ BasicsOK)'
    BY NextKeeps, NextBasics
  <1> QED
    BY <1>1, <1>2, PTL DEF Spec

-------------------------------------------------------------------------------
(* Syncs and summaries, page by page.                                      *)

(* The list a sync goes through, and the page of it that it is at.         *)
MyList(w) == Ordered(Own, call[w].newest)
MyPage(w) == PageOf(MyList(w), call[w].token, PageSize)

Syncs(w) == call[w].op = "sync" /\ call[w].all /\ call[w].ok /\ steady[w]

(* Of a channel that stays the same a sync has stored and counted what     *)
(* comes before its page, and knows whether there is more.                 *)
SyncOK(w) ==
    Syncs(w) =>
        /\ call[w].pc \in {"search", "details", "row"} =>
               /\ call[w].pages \in Nat /\ call[w].pages < MaxPages
               /\ call[w].token = call[w].pages * PageSize
               /\ call[w].token = 0 \/ call[w].token < Cardinality(Own)
               /\ \A i \in 1..Len(MyList(w)) :
                      i <= call[w].token => MyList(w)[i] \in DOMAIN cache
        /\ call[w].pc \in {"search", "details"} => call[w].total = call[w].token
        /\ call[w].pc \in {"details", "row"} => call[w].seen = <<NextToken(w)>>
        /\ call[w].pc = "details" => call[w].page = MyPage(w) /\ call[w].page # <<>>
        /\ call[w].pc = "row" =>
               /\ call[w].total = call[w].token + Len(MyPage(w))
               /\ \A i \in 1..Len(MyPage(w)) :
                      \/ MyPage(w)[i] \in DOMAIN call[w].staged
                      \/ \E j \in DOMAIN call[w].page : call[w].page[j].id = MyPage(w)[i]
        /\ call[w].pc = "answer" =>
               /\ Own \subseteq DOMAIN cache
               /\ call[w].total = Cardinality(Own)

(* Of a cache that stays the same a summary has read the pages before its  *)
(* own, up to the order of videos published at the same time.              *)
Summarises(w) == call[w].op = "summary" /\ call[w].ok /\ steady[w]

SummaryOK(w) ==
    Summarises(w) =>
        /\ call[w].pc \in {"count", "select"} =>
               /\ call[w].pages \in Nat /\ call[w].pages < ListPages
               /\ call[w].seen \in Seq(Fresh)
               /\ AsNew(call[w].seen, PageOf(NewestFirst(Fresh), 0, Offset(w)))
        /\ call[w].pc = "select" \/ (call[w].pc = "count" /\ call[w].pages # 0) =>
               call[w].total = Cardinality(Fresh)
        /\ call[w].pc = "answer" =>
               /\ call[w].seen \in Seq(Fresh)
               /\ AsNew(call[w].seen,
                        PageOf(NewestFirst(Fresh), 0, ListPages * ListSize))
               /\ call[w].total = Cardinality(Fresh)

Syncing     == \A w \in Worker : SyncOK(w)
Summarising == \A w \in Worker : SummaryOK(w)

-------------------------------------------------------------------------------
(* A request for a list that goes on without failing takes one of these    *)
(* steps.                                                                  *)
LEMMA ListSteps ==
  ASSUME VideosInv, BasicsOK, NEW w \in Worker, Acts(w),
         call'[w].op \in {"sync", "summary"}, call'[w].ok
  PROVE  \/ \E r \in Request : Accept(w, r)
         \/ Search(w) \/ Details(w) \/ Row(w) \/ Commit(w)
         \/ Count(w) \/ Reads(w)
  <1>1. DOMAIN call[w] = Parts /\ DOMAIN call = Worker /\ PathOK(w)
    BY DEF VideosInv, CallOK, BasicsOK
  <1>2. ~Answer(w)
    BY <1>1 DEF Answer, Idle
  <1>3. ~Lookup(w) /\ ~Store(w) /\ ~Insert(w)
    BY <1>1 DEF Lookup, Store, Insert, Goto, Parts, Idle, PathOK
  <1>4. ~Fail(w)
    BY <1>1 DEF Fail, Parts, Idle
  <1>5. ~Fetch(w) /\ ~FetchExisting(w) /\ ~Write(w) /\ ~WriteRefused(w) /\ ~WriteUnanswered(w)
    <2>1. ~Fetch(w)
      BY <1>1, <1>4 DEF Fetch, Parts, Idle, PathOK
    <2>2. ~FetchExisting(w)
      BY <1>1, <1>4 DEF FetchExisting, Parts, Idle, PathOK
    <2>3. ~Write(w)
      BY <1>1 DEF Write, Parts, Idle, PathOK
    <2> QED
      BY <1>4, <2>1, <2>2, <2>3 DEF WriteRefused, WriteUnanswered
  <1>6. ~DeadlockVictim(w) /\ ~CommitUnanswered(w)
    BY <1>1 DEF DeadlockVictim, CommitUnanswered, Parts, Idle
  <1>7. ~CallFails(w)
    <2>1. ~(call[w].pc = "lookup" /\ Goto(w, "fetch"))
      BY <1>1 DEF Goto, Parts, Idle, PathOK
    <2>2. ~(call[w].pc \in {"store", "again"} /\ Goto(w, AfterStore(w)))
      BY <1>1 DEF Goto, Parts, Idle, PathOK
    <2>3. ~UpsertFails(w)
      BY <1>1 DEF UpsertFails, Parts, Idle
    <2> QED
      BY <1>4, <2>1, <2>2, <2>3 DEF CallFails
  <1> QED
    BY <1>2, <1>3, <1>5, <1>6, <1>7 DEF Acts, Serve, Reads

(* What is listed is a finite set of numbers.                              *)
LEMMA ListedAreNumbers ==
  ASSUME VideosInv, BasicsOK
  PROVE  /\ Own \in SUBSET Nat /\ IsFiniteSet(Own) /\ Cardinality(Own) \in Nat
         /\ Cardinality(Own) <= Cardinality(Video)
         /\ Fresh \in SUBSET Nat /\ IsFiniteSet(Fresh) /\ Cardinality(Fresh) \in Nat
  <1>1. Own \in SUBSET Video /\ Fresh \in SUBSET Video
    BY DEF VideosInv, TablesOK, BasicsOK, Own, Fresh
  <1> HIDE DEF Own, Fresh
  <1>2. Video \subseteq Nat /\ IsFiniteSet(Video)
    BY VideosAreNumbers, VideosAssumption
  <1> QED
    BY <1>1, <1>2, FS_Subset, FS_CardinalityType

(* A page of a list that lists each element once has as many elements as   *)
(* items.                                                                  *)
LEMMA PageRange ==
  ASSUME NEW S, NEW s, Lists(s, S), NEW from \in Nat, NEW n \in Nat
  PROVE  LET p == PageOf(s, from, n) IN
         Range(p) \subseteq S /\ Cardinality(Range(p)) = Len(p)
  <1> DEFINE p == PageOf(s, from, n)
  <1>1. /\ p \in Seq(S)
        /\ Len(p) = IF from + n < Len(s) THEN n
                    ELSE IF from < Len(s) THEN Len(s) - from ELSE 0
        /\ \A i \in 1..Len(p) : p[i] = s[from + i]
    <2>1. s \in Seq(S)
      BY DEF Lists
    <2> QED
      BY <2>1, PageOfIs
  <1>2. s \in Seq(S) /\ \A i, j \in 1..Len(s) : s[i] = s[j] => i = j
    BY DEF Lists
  <1> HIDE DEF p
  <1>3. Len(p) \in Nat /\ Len(s) \in Nat
    BY <1>1, <1>2
  <1>4. \A i \in 1..Len(p) : from + i \in 1..Len(s)
    BY <1>1, <1>3
  <1>5. \A i, j \in 1..Len(p) : p[i] = p[j] => i = j
    <2> SUFFICES ASSUME NEW i \in 1..Len(p), NEW j \in 1..Len(p), p[i] = p[j]
                 PROVE  i = j
      OBVIOUS
    <2>1. from + i = from + j
      BY <1>1, <1>2, <1>4
    <2> QED
      BY <1>3, <2>1
  <1>6. DOMAIN p = 1..Len(p) /\ Range(p) = {p[i] : i \in 1..Len(p)}
    BY <1>1 DEF Range
  <1>7. p \in Bijection(1..Len(p), Range(p))
    <2>1. p \in [1..Len(p) -> Range(p)]
      BY <1>1, <1>6
    <2> QED
      BY <1>5, <1>6, <2>1 DEF Bijection, Injection, Surjection, IsInjective
  <1>8. Cardinality(Range(p)) = Len(p)
    BY <1>3, <1>7, FS_CountingElements DEF ExistsBijection
  <1>9. Range(p) \subseteq S
    BY <1>1, <1>6
  <1> QED
    BY <1>8, <1>9 DEF p

(* What lies before the next page lies before this one or is on it.        *)
LEMMA PageTaken ==
  ASSUME NEW S, NEW s \in Seq(S), NEW from \in Nat, NEW n \in Nat, NEW D,
         \A i \in 1..Len(s) : i <= from => s[i] \in D,
         \A i \in 1..Len(PageOf(s, from, n)) : PageOf(s, from, n)[i] \in D
  PROVE  \A i \in 1..Len(s) : i <= from + n => s[i] \in D
  <1> DEFINE p == PageOf(s, from, n)
  <1>1. /\ Len(p) = IF from + n < Len(s) THEN n
                    ELSE IF from < Len(s) THEN Len(s) - from ELSE 0
        /\ \A i \in 1..Len(p) : p[i] = s[from + i]
    BY PageOfIs
  <1>2. \A i \in 1..Len(p) : p[i] \in D
    OBVIOUS
  <1> HIDE DEF p
  <1> SUFFICES ASSUME NEW i \in 1..Len(s), i <= from + n, ~(i <= from)
               PROVE  s[i] \in D
    OBVIOUS
  <1>3. i - from \in 1..Len(p) /\ from + (i - from) = i
    BY <1>1
  <1> QED
    BY <1>1, <1>2, <1>3

(* What a request finds in its list while the list stays the same.         *)
LEMMA MyListIs ==
  ASSUME VideosInv, BasicsOK, NEW w \in Worker
  PROVE  /\ Lists(MyList(w), Own)
         /\ MyList(w) \in Seq(Own)
         /\ Len(MyList(w)) = Cardinality(Own) /\ Cardinality(Own) \in Nat
         /\ \A v \in Own : \E i \in 1..Len(MyList(w)) : MyList(w)[i] = v
  BY ListedAreNumbers, OrderedLists DEF MyList, Lists

(* A page is full, or the last one.                                        *)
LEMMA MyPageIs ==
  ASSUME VideosInv, BasicsOK, NEW w \in Worker, call[w].token \in Nat
  PROVE  LET n == Cardinality(Own) IN
         /\ MyPage(w) \in Seq(Own)
         /\ Len(MyPage(w)) = IF call[w].token + PageSize < n THEN PageSize
                             ELSE IF call[w].token < n THEN n - call[w].token ELSE 0
         /\ Range(MyPage(w)) \subseteq Own
         /\ Cardinality(Range(MyPage(w))) = Len(MyPage(w))
  <1>1. PageSize \in Nat
    BY VideosAssumption
  <1>2. Lists(MyList(w), Own) /\ MyList(w) \in Seq(Own) /\ Len(MyList(w)) = Cardinality(Own)
    BY MyListIs
  <1>3. MyPage(w) = PageOf(MyList(w), call[w].token, PageSize)
    BY DEF MyPage
  <1> DEFINE p == PageOf(MyList(w), call[w].token, PageSize)
  <1>4. Range(p) \subseteq Own /\ Cardinality(Range(p)) = Len(p)
    <2>1. call[w].token \in Nat /\ Lists(MyList(w), Own)
      BY <1>2
    <2> QED
      BY Zenon, <1>1, <2>1, PageRange
  <1>5. /\ p \in Seq(Own)
        /\ Len(p) = IF call[w].token + PageSize < Len(MyList(w)) THEN PageSize
                    ELSE IF call[w].token < Len(MyList(w))
                         THEN Len(MyList(w)) - call[w].token ELSE 0
    BY <1>1, <1>2, PageOfIs
  <1> HIDE DEF p
  <1> QED
    BY <1>2, <1>3, <1>4, <1>5 DEF p

(* The requests of others do not disturb one whose list stays the same.    *)
LEMMA SyncStays ==
  ASSUME NEW w \in Worker, SyncOK(w), call'[w] = call[w],
         Syncs(w)' => steady[w] /\ Own' = Own,
         DOMAIN cache \subseteq DOMAIN cache'
  PROVE  SyncOK(w)'
  <1> SUFFICES ASSUME Syncs(w)' PROVE SyncOK(w)'
    BY DEF SyncOK
  <1>1. Syncs(w) /\ Own' = Own
    BY DEF Syncs
  <1>2. MyList(w)' = MyList(w) /\ MyPage(w)' = MyPage(w) /\ NextToken(w)' = NextToken(w)
    BY <1>1 DEF MyList, MyPage, NextToken, Ordered, NewestFirst, PageOf
  <1> QED
    BY <1>1, <1>2 DEF SyncOK

(* The first search starts at the first page of nothing stored yet.        *)
LEMMA SyncAccepted ==
  ASSUME VideosInv, BasicsOK, NEW w \in Worker, NEW r \in Request, Accept(w, r)
  PROVE  SyncOK(w)'
  <1> DEFINE c == [Idle EXCEPT !.op = r.op, !.pc = FirstCall[r.op],
                      !.video = r.video, !.field = r.field, !.all = r.all,
                      !.newest = r.newest]
  <1>1. call' = [call EXCEPT ![w] = c]
    BY DEF Accept
  <1>2. /\ c.op = r.op /\ c.pc = FirstCall[r.op]
        /\ c.token = 0 /\ c.pages = 0 /\ c.total = 0
    BY DEF Idle
  <1> HIDE DEF c
  <1>3. call'[w] = c
    BY <1>1, NewCall
  <1>4. 0 < MaxPages /\ 0 = 0 * PageSize
    BY VideosAssumption
  <1> SUFFICES ASSUME Syncs(w)' PROVE SyncOK(w)'
    BY DEF SyncOK
  <1>5. c.pc = "search"
    BY <1>2, <1>3 DEF Syncs, FirstCall
  <1>6. \A i \in 1..Len(MyList(w)') : ~(i <= 0)
    OBVIOUS
  <1> QED
    BY <1>2, <1>3, <1>4, <1>5, <1>6 DEF SyncOK

(* A page is searched: there is none only if there are no videos.          *)
LEMMA SyncSearched ==
  ASSUME VideosInv, BasicsOK, NEW w \in Worker, SyncOK(w), Search(w),
         Syncs(w)' => steady[w] /\ Own' = Own
  PROVE  SyncOK(w)'
  <1> SUFFICES ASSUME Syncs(w)' PROVE SyncOK(w)'
    BY DEF SyncOK
  <1>1. DOMAIN call[w] = Parts /\ DOMAIN call = Worker
    BY DEF VideosInv, CallOK
  <1>2. /\ call[w].pc = "search" /\ cache' = cache /\ Own' = Own
        /\ call' = [call EXCEPT ![w].page = MyPage(w), ![w].seen = <<NextToken(w)>>,
                                ![w].pc = IF MyPage(w) = <<>> THEN "answer" ELSE "details"]
    BY DEF Search, MyPage, MyList, tables
  <1>3. /\ call'[w].page = MyPage(w) /\ call'[w].seen = <<NextToken(w)>>
        /\ call'[w].pc = IF MyPage(w) = <<>> THEN "answer" ELSE "details"
        /\ call'[w].op = call[w].op /\ call'[w].all = call[w].all
        /\ call'[w].ok = call[w].ok /\ call'[w].newest = call[w].newest
        /\ call'[w].token = call[w].token /\ call'[w].pages = call[w].pages
        /\ call'[w].total = call[w].total
    BY <1>1, <1>2 DEF Parts, Idle
  <1>4. Syncs(w)
    BY <1>3 DEF Syncs
  <1>5. MyList(w)' = MyList(w) /\ MyPage(w)' = MyPage(w) /\ NextToken(w)' = NextToken(w)
    <2>1. /\ Own' = Own /\ call'[w].token = call[w].token
          /\ call'[w].newest = call[w].newest
      BY <1>2, <1>3
    <2> QED
      BY ONLY <2>1 DEF MyList, MyPage, NextToken, Ordered, NewestFirst, PageOf
  <1>6. /\ call[w].pages \in Nat /\ call[w].pages < MaxPages
        /\ call[w].token = call[w].pages * PageSize
        /\ call[w].token = 0 \/ call[w].token < Cardinality(Own)
        /\ \A i \in 1..Len(MyList(w)) :
               i <= call[w].token => MyList(w)[i] \in DOMAIN cache
        /\ call[w].total = call[w].token
    BY <1>2, <1>4 DEF SyncOK
  <1>7. call[w].token \in Nat /\ PageSize \in Nat \ {0}
    BY <1>6, VideosAssumption
  <1>8. CASE MyPage(w) = <<>>
    <2>1. Len(MyPage(w)) = 0
      BY <1>8
    <2> DEFINE n == Cardinality(Own)
               t == call[w].token
    <2>a. Len(MyPage(w)) = IF t + PageSize < n THEN PageSize ELSE IF t < n THEN n - t ELSE 0
      BY <1>7, MyPageIs
    <2>b. n \in Nat /\ t \in Nat /\ (t = 0 \/ t < n)
      BY <1>6, <1>7, ListedAreNumbers
    <2> HIDE DEF n, t
    <2>c. n = 0 /\ t = 0
      BY <1>7, <2>1, <2>a, <2>b
    <2>2. Cardinality(Own) = 0 /\ call[w].token = 0
      BY <2>c DEF n, t
    <2>3. Own = {}
      BY <2>2, ListedAreNumbers, FS_EmptySet
    <2>4. call'[w].pc = "answer" /\ call'[w].total = Cardinality(Own)'
      BY <1>2, <1>3, <1>6, <1>8, <2>2
    <2>5. (Own \subseteq DOMAIN cache)'
      BY <1>2, <2>3
    <2> QED
      BY Zenon, <2>4, <2>5 DEF SyncOK
  <1>9. CASE MyPage(w) # <<>>
    <2>1. call'[w].pc = "details"
      BY <1>3, <1>9
    <2> QED
      BY <1>2, <1>3, <1>5, <1>6, <1>9, <2>1 DEF SyncOK
  <1> QED
    BY <1>8, <1>9

(* The details of every video of the page are there.                       *)
LEMMA SyncDetailed ==
  ASSUME VideosInv, BasicsOK, NEW w \in Worker, SyncOK(w), Details(w),
         Syncs(w)' => steady[w] /\ Own' = Own
  PROVE  SyncOK(w)'
  <1> SUFFICES ASSUME Syncs(w)' PROVE SyncOK(w)'
    BY DEF SyncOK
  <1>1. DOMAIN call[w] = Parts /\ DOMAIN call = Worker
    BY DEF VideosInv, CallOK
  <1> DEFINE found == StillThere(w)
             page == call'[w].page
  <1>2. /\ call[w].pc = "details" /\ cache' = cache /\ Own' = Own
        /\ call'[w].total = call[w].total + Len(found)
        /\ call'[w].pc = IF found = <<>> THEN "answer" ELSE "row"
        /\ call'[w].op = call[w].op /\ call'[w].all = call[w].all
        /\ call'[w].ok = call[w].ok /\ call'[w].newest = call[w].newest
        /\ call'[w].token = call[w].token /\ call'[w].pages = call[w].pages
        /\ call'[w].seen = call[w].seen
    BY <1>1 DEF Details, tables, Parts, Idle
  <1>3. /\ DOMAIN page = 1..Len(found)
        /\ \A i \in 1..Len(found) : page[i].id = found[i]
    <2>1. \A i \in 1..Len(found) : page[i] = [id |-> found[i], data |-> videos[found[i]]]
      BY DetailsRows
    <2> HIDE DEF found, page
    <2>2. \A i \in 1..Len(found) : page[i].id = found[i]
      <3> TAKE i \in 1..Len(found)
      <3>1. page[i] = [id |-> found[i], data |-> videos[found[i]]]
        BY <2>1
      <3> QED
        BY ONLY <3>1
    <2> QED
      BY <2>2, DetailsRows DEF found, page
  <1>4. Syncs(w)
    BY <1>2 DEF Syncs
  <1>5. MyList(w)' = MyList(w) /\ MyPage(w)' = MyPage(w) /\ NextToken(w)' = NextToken(w)
    BY <1>2 DEF MyList, MyPage, NextToken, Ordered, NewestFirst, PageOf
  <1>6. /\ call[w].pages \in Nat /\ call[w].pages < MaxPages
        /\ call[w].token = call[w].pages * PageSize
        /\ call[w].token = 0 \/ call[w].token < Cardinality(Own)
        /\ \A i \in 1..Len(MyList(w)) :
               i <= call[w].token => MyList(w)[i] \in DOMAIN cache
        /\ call[w].total = call[w].token
        /\ call[w].seen = <<NextToken(w)>>
        /\ call[w].page = MyPage(w) /\ call[w].page # <<>>
    BY <1>2, <1>4 DEF SyncOK
  <1>7. call[w].token \in Nat
    BY <1>6, VideosAssumption
  <1>8. /\ MyPage(w) \in Seq(Own)
        /\ Range(MyPage(w)) \subseteq Own /\ Cardinality(Range(MyPage(w))) = Len(MyPage(w))
    BY <1>7, MyPageIs
  <1>9. Lists(found, Range(MyPage(w)))
    <2>1. Range(MyPage(w)) \cap Existing = Range(MyPage(w))
      BY <1>8 DEF Own
    <2> QED
      BY <1>6, <2>1, StillThereLists DEF VideosInv
  <1>10. /\ Len(found) = Len(MyPage(w))
         /\ \A v \in Range(MyPage(w)) : \E j \in 1..Len(found) : found[j] = v
    BY <1>8, <1>9 DEF Lists
  <1>11. Len(MyPage(w)) # 0
    BY <1>6, <1>8
  <1> HIDE DEF found, page
  <1>12. found # <<>>
    BY <1>10, <1>11
  <1>13. \A i \in 1..Len(MyPage(w)) : \E j \in DOMAIN page : page[j].id = MyPage(w)[i]
    <2> TAKE i \in 1..Len(MyPage(w))
    <2>1. MyPage(w)[i] \in Range(MyPage(w))
      BY <1>8 DEF Range
    <2> QED
      BY <1>3, <1>10, <2>1
  <1> QED
    BY <1>2, <1>5, <1>6, <1>10, <1>12, <1>13 DEF SyncOK, page

(* A row goes from the page into the transaction.                          *)
LEMMA SyncRow ==
  ASSUME VideosInv, BasicsOK, NEW w \in Worker, SyncOK(w), Row(w),
         Syncs(w)' => steady[w] /\ Own' = Own
  PROVE  SyncOK(w)'
  <1> SUFFICES ASSUME Syncs(w)' PROVE SyncOK(w)'
    BY DEF SyncOK
  <1>1. DOMAIN call[w] = Parts /\ DOMAIN call = Worker
    BY DEF VideosInv, CallOK
  <1> DEFINE r == Head(call[w].page)
             new == [v \in {r.id} |-> r.data]
  <1>2. /\ call[w].pc = "row" /\ cache' = cache /\ Own' = Own /\ call[w].page # <<>>
        /\ call'[w].page = Tail(call[w].page)
        /\ call'[w].staged = Upsert(call[w].staged, new)
        /\ call'[w].pc = "row" /\ call'[w].total = call[w].total
        /\ call'[w].op = call[w].op /\ call'[w].all = call[w].all
        /\ call'[w].ok = call[w].ok /\ call'[w].newest = call[w].newest
        /\ call'[w].token = call[w].token /\ call'[w].pages = call[w].pages
        /\ call'[w].seen = call[w].seen
    BY <1>1 DEF Row, tables, Parts, Idle
  <1>3. DOMAIN Upsert(call[w].staged, new) = DOMAIN call[w].staged \cup {r.id}
    BY DEF Upsert
  <1>4. Syncs(w)
    BY <1>2 DEF Syncs
  <1>5. MyList(w)' = MyList(w) /\ MyPage(w)' = MyPage(w) /\ NextToken(w)' = NextToken(w)
    BY <1>2 DEF MyList, MyPage, NextToken, Ordered, NewestFirst, PageOf
  <1>6. call[w].page \in Seq(VideoRow)
    BY <1>2 DEF BasicsOK, RowsOK
  <1>7. \A j \in DOMAIN call[w].page :
            \/ call[w].page[j] = r
            \/ \E k \in DOMAIN call'[w].page : call'[w].page[k] = call[w].page[j]
    <2> TAKE j \in DOMAIN call[w].page
    <2>1. j \in 1..Len(call[w].page)
      BY <1>6
    <2>2. CASE j = 1
      BY <1>2, <1>6, <2>2
    <2>3. CASE j # 1
      <3>1. /\ Tail(call[w].page) \in Seq(VideoRow)
            /\ Len(Tail(call[w].page)) = Len(call[w].page) - 1
            /\ \A k \in 1..Len(Tail(call[w].page)) : Tail(call[w].page)[k] = call[w].page[k + 1]
        BY <1>2, <1>6, HeadTailProperties
      <3>2. j - 1 \in 1..Len(Tail(call[w].page)) /\ (j - 1) + 1 = j
        BY <1>6, <2>1, <2>3, <3>1
      <3>3. j - 1 \in DOMAIN Tail(call[w].page)
        BY <3>1, <3>2
      <3> QED
        BY <1>2, <3>1, <3>2, <3>3
    <2> QED
      BY <2>2, <2>3
  <1> HIDE DEF r, new
  <1>8. \A i \in 1..Len(MyPage(w)) :
            \/ MyPage(w)[i] \in DOMAIN call'[w].staged
            \/ \E j \in DOMAIN call'[w].page : call'[w].page[j].id = MyPage(w)[i]
    <2> TAKE i \in 1..Len(MyPage(w))
    <2>1. \/ MyPage(w)[i] \in DOMAIN call[w].staged
          \/ \E j \in DOMAIN call[w].page : call[w].page[j].id = MyPage(w)[i]
      BY <1>2, <1>4 DEF SyncOK
    <2> QED
      BY <1>2, <1>3, <1>7, <2>1
  <1> QED
    BY <1>2, <1>4, <1>5, <1>8 DEF SyncOK

(* A page is stored and turned, or was the last one.                       *)
LEMMA SyncCommitted ==
  ASSUME VideosInv, BasicsOK, NEW w \in Worker, SyncOK(w), Commit(w),
         Syncs(w)' => steady[w] /\ Own' = Own,
         Cardinality(Video) <= MaxPages * PageSize
  PROVE  SyncOK(w)'
  <1> SUFFICES ASSUME Syncs(w)' PROVE SyncOK(w)'
    BY DEF SyncOK
  <1>1. DOMAIN call[w] = Parts /\ DOMAIN call = Worker
    BY DEF VideosInv, CallOK
  <1> DEFINE t == call[w].token
             n == Cardinality(Own)
             p == MyPage(w)
  <1>2. /\ call[w].pc = "row" /\ Own' = Own /\ call[w].page = <<>>
        /\ cache' = Committed(w) /\ call'[w] = TurnPage(w)
    BY NewCall DEF Commit
  <1>3. DOMAIN cache' = DOMAIN cache \cup DOMAIN call[w].staged
    BY <1>2 DEF Committed, Upsert
  <1>4. /\ TurnPage(w).op = call[w].op /\ TurnPage(w).all = call[w].all
        /\ TurnPage(w).ok = call[w].ok /\ TurnPage(w).newest = call[w].newest
        /\ TurnPage(w).total = call[w].total
    BY <1>1 DEF TurnPage, Parts, Idle
  <1>5. Syncs(w) /\ call[w].all
    BY <1>2, <1>4 DEF Syncs
  <1>6. MyList(w)' = MyList(w)
    BY <1>2, <1>4 DEF MyList, Ordered, NewestFirst
  <1>7. /\ call[w].pages \in Nat /\ call[w].pages < MaxPages
        /\ t = call[w].pages * PageSize
        /\ t = 0 \/ t < n
        /\ \A i \in 1..Len(MyList(w)) : i <= t => MyList(w)[i] \in DOMAIN cache
        /\ call[w].seen = <<NextToken(w)>>
        /\ call[w].total = t + Len(p)
        /\ \A i \in 1..Len(p) :
               \/ p[i] \in DOMAIN call[w].staged
               \/ \E j \in DOMAIN call[w].page : call[w].page[j].id = p[i]
    BY <1>2, <1>5 DEF SyncOK
  <1>8. t \in Nat /\ PageSize \in Nat \ {0} /\ MaxPages \in Nat /\ n \in Nat
        /\ n <= Cardinality(Video) /\ Cardinality(Video) \in Nat
    <2>1. PageSize \in Nat \ {0} /\ MaxPages \in Nat
      BY VideosAssumption
    <2>2. n \in Nat /\ n <= Cardinality(Video) /\ Cardinality(Video) \in Nat
      BY VideosAreNumbers, ListedAreNumbers
    <2> HIDE DEF t, n
    <2>3. t \in Nat
      BY <1>7, <2>1
    <2> QED
      BY <2>1, <2>2, <2>3
  <1>9. Head(call[w].seen) = NextToken(w)
    BY <1>7
  <1>10. \A i \in 1..Len(p) : p[i] \in DOMAIN cache'
    <2>1. DOMAIN call[w].page = {}
      BY <1>2
    <2> QED
      BY <1>3, <1>7, <2>1
  <1>11. \A i \in 1..Len(MyList(w)) : i <= t + PageSize => MyList(w)[i] \in DOMAIN cache'
    <2>1. MyList(w) \in Seq(Own)
      BY MyListIs
    <2>2. \A i \in 1..Len(MyList(w)) : i <= t => MyList(w)[i] \in DOMAIN cache'
      BY <1>3, <1>7
    <2> QED
      BY <1>8, <1>10, <2>1, <2>2, PageTaken DEF MyPage
  <1>12. Len(p) = IF t + PageSize < n THEN PageSize ELSE IF t < n THEN n - t ELSE 0
    BY <1>8, MyPageIs
  <1>13. CASE t + PageSize < n
    <2>1. NextToken(w) = t + PageSize /\ NextToken(w) # 0 /\ NextToken(w) # t
      BY <1>8, <1>13 DEF NextToken
    <2>2. t + PageSize = (call[w].pages + 1) * PageSize
      BY <1>7, <1>8
    <2>3. call[w].pages + 1 < MaxPages
      <3>1. (call[w].pages + 1) * PageSize < MaxPages * PageSize
        BY <1>8, <1>13, <2>2
      <3>2. call[w].pages + 1 # MaxPages
        <4> DEFINE x == MaxPages * PageSize
        <4>1. x \in Int
          BY <1>8
        <4> HIDE DEF x
        <4>2. (call[w].pages + 1) * PageSize < x
          BY <3>1 DEF x
        <4>3. SUFFICES ASSUME call[w].pages + 1 = MaxPages PROVE FALSE
          OBVIOUS
        <4>4. (call[w].pages + 1) * PageSize = x
          BY Zenon, <4>3 DEF x
        <4> QED
          BY ONLY <4>1, <4>2, <4>4
      <3>3. call[w].pages \in Nat /\ call[w].pages < MaxPages /\ MaxPages \in Nat
        BY <1>7, <1>8
      <3> QED
        BY ONLY <3>2, <3>3
    <2>4. /\ TurnPage(w).pc = "search" /\ TurnPage(w).token = NextToken(w)
          /\ TurnPage(w).pages = call[w].pages + 1
      BY <1>1, <1>5, <1>9, <2>1, <2>3 DEF TurnPage, Parts, Idle
    <2>5. call[w].total = NextToken(w)
      BY <1>7, <1>12, <1>13, <2>1
    <2> QED
      BY <1>2, <1>4, <1>6, <1>7, <1>11, <1>13, <2>1, <2>2, <2>3, <2>4, <2>5 DEF SyncOK
  <1>14. CASE ~(t + PageSize < n)
    <2>1. NextToken(w) = 0
      BY <1>14 DEF NextToken
    <2>2. TurnPage(w).pc = "answer"
      BY <1>1, <1>9, <2>1 DEF TurnPage, Parts, Idle
    <2>3. call[w].total = n
      <3>1. /\ t \in Nat /\ n \in Nat /\ PageSize \in Nat
            /\ t = 0 \/ t < n
            /\ call[w].total = t + Len(p)
        BY <1>7, <1>8
      <3> HIDE DEF t, n, p
      <3>2. t <= n /\ Len(p) = IF t < n THEN n - t ELSE 0
        BY <1>12, <1>14, <3>1
      <3> QED
        BY ONLY <3>1, <3>2
    <2>4. Own \subseteq DOMAIN cache'
      <3>1. \A i \in 1..Len(MyList(w)) : i <= t + PageSize
        <4>1. Len(MyList(w)) = n
          BY MyListIs
        <4> HIDE DEF t, n
        <4>2. \A i \in 1..n : i <= t + PageSize
          BY <1>8, <1>14
        <4> QED
          BY <4>1, <4>2
      <3> QED
        BY <1>11, <3>1, MyListIs
    <2> QED
      BY <1>2, <1>4, <2>2, <2>3, <2>4 DEF SyncOK
  <1> QED
    BY <1>13, <1>14

(* A page that is not smaller than the list is the list.                   *)
LEMMA PageWhole ==
  ASSUME NEW S, NEW s \in Seq(S), NEW k \in Nat, NEW m \in Nat, k >= Len(s), m >= Len(s)
  PROVE  PageOf(s, 0, k) = PageOf(s, 0, m)
  <1>1. Len(s) \in Nat
    OBVIOUS
  <1>2. ~(0 + k < Len(s)) /\ ~(0 + m < Len(s))
    BY <1>1
  <1> QED
    BY <1>2 DEF PageOf

(* The cached videos in the order in which they are listed.                *)
LEMMA FreshList ==
  ASSUME VideosInv, BasicsOK
  PROVE  /\ NewestFirst(Fresh) \in Seq(Fresh)
         /\ Len(NewestFirst(Fresh)) = Cardinality(Fresh) /\ Cardinality(Fresh) \in Nat
  <1>1. Lists(Ordered(Fresh, TRUE), Fresh)
    BY ListedAreNumbers, OrderedLists
  <1> QED
    BY <1>1, ListedAreNumbers DEF Lists, Ordered

(* Of each order of S the first i elements are i.                          *)
LEMMA FirstOfOrder ==
  ASSUME NEW S, IsFiniteSet(S), NEW s \in Orders(S), NEW i \in 0..Cardinality(S)
  PROVE  /\ IsFiniteSet({s[j] : j \in 1..i})
         /\ Cardinality({s[j] : j \in 1..i}) = i
  <1> DEFINE n == Cardinality(S)
             A == {s[j] : j \in 1..i}
             first == [j \in 1..i |-> s[j]]
  <1>1. n \in Nat /\ i \in Nat /\ 1..i \subseteq 1..n
    BY FS_CardinalityType
  <1>2. /\ s \in [1..n -> S]
        /\ \A j, k \in 1..n : j < k => s[j] # s[k]
    BY DEF Orders
  <1>3. \A j, k \in 1..i : first[j] = first[k] => j = k
    <2> SUFFICES ASSUME NEW j \in 1..i, NEW k \in 1..i, j # k PROVE first[j] # first[k]
      OBVIOUS
    <2>1. j < k \/ k < j
      OBVIOUS
    <2> QED
      BY <1>1, <1>2, <2>1
  <1>4. first \in Bijection(1..i, A)
    <2>1. first \in [1..i -> A] /\ \A v \in A : \E j \in 1..i : first[j] = v
      OBVIOUS
    <2> HIDE DEF first, A
    <2> QED
      BY <1>3, <2>1 DEF Bijection, Injection, Surjection, IsInjective
  <1> HIDE DEF A, first
  <1>5. IsFiniteSet(A) /\ Cardinality(A) = i
    <2>1. IsFiniteSet(1..i) /\ Cardinality(1..i) = i
      BY <1>1, FS_Interval
    <2>2. ExistsBijection(1..i, A)
      BY <1>4 DEF ExistsBijection
    <2> QED
      BY <2>1, <2>2, FS_Bijection
  <1> QED
    BY <1>5 DEF A

(* In no two orders of S is one newer at a place than the other:           *)
LEMMA OrdersNotOlder ==
  ASSUME NEW S \in SUBSET Video, IsFiniteSet(S),
         NEW s \in Orders(S), NEW t \in Orders(S), NEW i \in 1..Cardinality(S)
  PROVE  PublishedAt[s[i]] <= PublishedAt[t[i]]
  <1> DEFINE n == Cardinality(S)
             A == {s[j] : j \in 1..i}
             B == {t[j] : j \in 1..i - 1}
  <1>1. n \in Nat /\ i \in 1..n /\ i - 1 \in 0..n /\ i \in 0..n
    BY FS_CardinalityType
  <1>2. /\ s \in [1..n -> S] /\ t \in [1..n -> S]
        /\ \A j, k \in 1..n : j < k => PublishedAt[s[j]] >= PublishedAt[s[k]]
        /\ \A j, k \in 1..n : j < k => t[j] # t[k] /\ PublishedAt[t[j]] >= PublishedAt[t[k]]
    BY DEF Orders
  <1>3. \A v \in S : PublishedAt[v] \in Nat
    BY VideosAssumption
  <1>4. Cardinality(A) = i /\ IsFiniteSet(B) /\ Cardinality(B) = i - 1
    <2>1. Cardinality(A) = i
      BY <1>1, FirstOfOrder
    <2>2. PICK k \in 0..n : k = i - 1
      BY <1>1
    <2>3. IsFiniteSet({t[j] : j \in 1..k}) /\ Cardinality({t[j] : j \in 1..k}) = k
      BY FirstOfOrder
    <2> QED
      BY <2>1, <2>2, <2>3
  <1>5. \A v \in S : \E k \in 1..n : t[k] = v
    <2>1. \A j, k \in 1..n : t[j] = t[k] => j = k
      <3> SUFFICES ASSUME NEW j \in 1..n, NEW k \in 1..n, j # k PROVE t[j] # t[k]
        OBVIOUS
      <3>1. j < k \/ k < j
        BY <1>1
      <3> QED
        BY <1>2, <3>1
    <2>2. t \in Injection(1..n, S)
      BY <1>2, <2>1 DEF Injection, IsInjective
    <2>3. IsFiniteSet(1..n) /\ Cardinality(1..n) = n
      BY <1>1, FS_Interval
    <2>4. t \in Surjection(1..n, S)
      BY <2>2, <2>3, FS_Injection
    <2> QED
      BY <2>4 DEF Surjection
  <1> SUFFICES ASSUME PublishedAt[s[i]] > PublishedAt[t[i]] PROVE FALSE
    BY <1>1, <1>2, <1>3
  <1>6. A \subseteq B
    <2> SUFFICES ASSUME NEW j \in 1..i PROVE s[j] \in B
      OBVIOUS
    <2>1. j \in 1..n /\ (j < i \/ j = i)
      BY <1>1
    <2>2. PublishedAt[s[j]] >= PublishedAt[s[i]]
      BY <1>1, <1>2, <1>3, <2>1
    <2>3. PICK k \in 1..n : t[k] = s[j]
      BY <1>2, <1>5, <2>1
    <2>4. PublishedAt[t[k]] > PublishedAt[t[i]]
      <3>1. /\ PublishedAt[s[j]] \in Nat /\ PublishedAt[s[i]] \in Nat
            /\ PublishedAt[t[i]] \in Nat
        BY <1>1, <1>2, <1>3, <2>1
      <3>2. PublishedAt[s[j]] > PublishedAt[t[i]]
        BY ONLY <2>2, <3>1, PublishedAt[s[i]] > PublishedAt[t[i]]
      <3> QED
        BY ONLY <2>3, <3>2
    <2>5. ~(i < k) /\ i # k
      BY <1>1, <1>2, <1>3, <2>4
    <2>6. k \in 1..i - 1
      BY <1>1, <2>5
    <2> QED
      BY <2>3, <2>6
  <1> HIDE DEF A, B
  <1>7. Cardinality(A) <= Cardinality(B)
    BY <1>4, <1>6, FS_Subset
  <1> QED
    BY <1>1, <1>4, <1>7

(* they have videos published at the same time at each place.              *)
LEMMA OrdersAgree ==
  ASSUME VideosInv, BasicsOK, NEW s \in Orders(Fresh)
  PROVE  /\ s \in Seq(Fresh) /\ Len(s) = Cardinality(Fresh)
         /\ AsNew(s, NewestFirst(Fresh))
  <1> DEFINE S == Fresh
             n == Cardinality(S)
             F == NewestFirst(S)
  <1>1. S \in SUBSET Nat /\ IsFiniteSet(S) /\ n \in Nat /\ S \in SUBSET Video
    BY ListedAreNumbers DEF BasicsOK, Fresh
  <1>2. s \in Orders(S)
    OBVIOUS
  <1> HIDE DEF S
  <1>3. F \in [1..n -> S] /\ \A i, j \in 1..n : i < j => F[i] > F[j]
    BY <1>1, NewestFirstLists
  <1> HIDE DEF F
  <1>4. F \in Orders(S)
    <2> SUFFICES ASSUME NEW i \in 1..n, NEW j \in 1..n, i < j
                 PROVE  F[i] # F[j] /\ PublishedAt[F[i]] >= PublishedAt[F[j]]
      BY <1>3 DEF Orders
    <2>1. F[i] > F[j] /\ F[i] \in Video /\ F[j] \in Video /\ F[i] \in Nat /\ F[j] \in Nat
      BY <1>1, <1>3
    <2>2. PublishedAt[F[j]] <= PublishedAt[F[i]] /\ PublishedAt[F[j]] \in Nat
          /\ PublishedAt[F[i]] \in Nat
      BY <2>1, VideosAssumption
    <2> QED
      BY <2>1, <2>2
  <1>5. s \in [1..n -> S]
    BY <1>2 DEF Orders
  <1>6. s \in Seq(S) /\ Len(s) = n
    BY <1>1, <1>5
  <1>7. \A i \in 1..n : PublishedAt[s[i]] = PublishedAt[F[i]]
    <2> TAKE i \in 1..n
    <2>1. PublishedAt[s[i]] \in Nat /\ PublishedAt[F[i]] \in Nat
      BY <1>1, <1>3, <1>5, VideosAssumption
    <2>2. PublishedAt[s[i]] <= PublishedAt[F[i]]
      BY <1>1, <1>2, <1>4, OrdersNotOlder
    <2>3. PublishedAt[F[i]] <= PublishedAt[s[i]]
      BY <1>1, <1>2, <1>4, OrdersNotOlder
    <2> QED
      BY <2>1, <2>2, <2>3
  <1>8. Len(F) = n
    BY <1>1, <1>3
  <1>9. AsNew(s, F)
    BY <1>6, <1>7, <1>8 DEF AsNew
  <1> QED
    BY <1>6, <1>9 DEF S, F

(* So do their pages,                                                      *)
LEMMA PagesAsNew ==
  ASSUME NEW S, NEW s \in Seq(S), NEW t \in Seq(S), AsNew(s, t),
         NEW from \in Nat, NEW n \in Nat
  PROVE  AsNew(PageOf(s, from, n), PageOf(t, from, n))
  <1> DEFINE a == PageOf(s, from, n)
             b == PageOf(t, from, n)
  <1>1. Len(s) = Len(t) /\ Len(s) \in Nat
        /\ \A i \in 1..Len(s) : PublishedAt[s[i]] = PublishedAt[t[i]]
    BY DEF AsNew
  <1>2. /\ Len(a) = IF from + n < Len(s) THEN n
                    ELSE IF from < Len(s) THEN Len(s) - from ELSE 0
        /\ \A i \in 1..Len(a) : a[i] = s[from + i]
    BY PageOfIs
  <1>3. /\ Len(b) = IF from + n < Len(t) THEN n
                    ELSE IF from < Len(t) THEN Len(t) - from ELSE 0
        /\ \A i \in 1..Len(b) : b[i] = t[from + i]
    BY PageOfIs
  <1> HIDE DEF a, b
  <1>4. Len(a) = Len(b)
    BY <1>1, <1>2, <1>3
  <1>5. ASSUME NEW i \in 1..Len(a) PROVE PublishedAt[a[i]] = PublishedAt[b[i]]
    <2>1. from + i \in 1..Len(s)
      BY <1>1, <1>2
    <2> QED
      BY <1>1, <1>2, <1>3, <1>4, <2>1
  <1> QED
    BY <1>4, <1>5 DEF AsNew, a, b

(* and what is joined of them.                                             *)
LEMMA JoinedAsNew ==
  ASSUME NEW S, NEW a \in Seq(S), NEW b \in Seq(S), NEW c \in Seq(S), NEW d \in Seq(S),
         AsNew(a, b), AsNew(c, d)
  PROVE  AsNew(a \o c, b \o d)
  <1>1. /\ Len(a) = Len(b) /\ Len(a) \in Nat
        /\ Len(c) = Len(d) /\ Len(c) \in Nat
        /\ \A i \in 1..Len(a) : PublishedAt[a[i]] = PublishedAt[b[i]]
        /\ \A i \in 1..Len(c) : PublishedAt[c[i]] = PublishedAt[d[i]]
    BY DEF AsNew
  <1>2. /\ Len(a \o c) = Len(a) + Len(c)
        /\ \A i \in 1 .. Len(a) + Len(c) :
               (a \o c)[i] = IF i <= Len(a) THEN a[i] ELSE c[i - Len(a)]
    BY ConcatProperties
  <1>3. /\ Len(b \o d) = Len(b) + Len(d)
        /\ \A i \in 1 .. Len(b) + Len(d) :
               (b \o d)[i] = IF i <= Len(b) THEN b[i] ELSE d[i - Len(b)]
    BY ConcatProperties
  <1>4. ASSUME NEW i \in 1 .. Len(a) + Len(c)
        PROVE  PublishedAt[(a \o c)[i]] = PublishedAt[(b \o d)[i]]
    <2>1. CASE i <= Len(a)
      BY <1>1, <1>2, <1>3, <2>1
    <2>2. CASE i > Len(a)
      <3>1. i - Len(a) \in 1..Len(c) /\ ~(i <= Len(a))
        BY <1>1, <2>2
      <3>2. (a \o c)[i] = c[i - Len(a)]
        BY <1>2, <3>1
      <3>3. (b \o d)[i] = d[i - Len(b)]
        BY <1>1, <1>3, <3>1
      <3>4. i - Len(b) = i - Len(a)
        BY <1>1
      <3> QED
        <4>1. PublishedAt[c[i - Len(a)]] = PublishedAt[d[i - Len(a)]]
          BY <1>1, <3>1
        <4> QED
          BY ONLY <3>2, <3>3, <3>4, <4>1
    <2> QED
      BY <1>1, <2>1, <2>2
  <1> QED
    BY <1>1, <1>2, <1>3, <1>4 DEF AsNew

(* Unless several were published at once there is one order.               *)
LEMMA NoTiesNoChoice ==
  ASSUME NEW S, NEW s \in Seq(S), NEW t \in Seq(S), AsNew(s, t), ~Ties(S)
  PROVE  s = t
  <1>1. Len(s) = Len(t) /\ \A i \in 1..Len(s) : PublishedAt[s[i]] = PublishedAt[t[i]]
    BY DEF AsNew
  <1>2. \A i \in 1..Len(s) : s[i] \in S /\ t[i] \in S
    BY <1>1
  <1>3. \A i \in 1..Len(s) : s[i] = t[i]
    BY <1>1, <1>2 DEF Ties
  <1> QED
    BY <1>1, <1>3, SeqEqual

(* The requests of others do not disturb a summary of a cache that stays   *)
(* the same.                                                               *)
LEMMA SummaryStays ==
  ASSUME NEW w \in Worker, SummaryOK(w), call'[w] = call[w],
         Summarises(w)' => steady[w] /\ Fresh' = Fresh
  PROVE  SummaryOK(w)'
  <1> SUFFICES ASSUME Summarises(w)' PROVE SummaryOK(w)'
    BY DEF SummaryOK
  <1>1. Summarises(w) /\ Fresh' = Fresh
    BY DEF Summarises
  <1>2. /\ NewestFirst(Fresh)' = NewestFirst(Fresh) /\ Offset(w)' = Offset(w)
        /\ Cardinality(Fresh)' = Cardinality(Fresh)
    BY <1>1 DEF NewestFirst, Offset
  <1> QED
    BY <1>1, <1>2 DEF SummaryOK, PageOf, AsNew

(* A summary starts with no page.                                          *)
LEMMA SummaryAccepted ==
  ASSUME VideosInv, BasicsOK, NEW w \in Worker, NEW r \in Request, Accept(w, r)
  PROVE  SummaryOK(w)'
  <1> DEFINE c == [Idle EXCEPT !.op = r.op, !.pc = FirstCall[r.op],
                      !.video = r.video, !.field = r.field, !.all = r.all,
                      !.newest = r.newest]
  <1>1. call' = [call EXCEPT ![w] = c] /\ cache' = cache
    BY DEF Accept, tables
  <1>2. c.op = r.op /\ c.pc = FirstCall[r.op] /\ c.pages = 0 /\ c.seen = <<>>
    BY DEF Idle, NoRows
  <1> HIDE DEF c
  <1>3. call'[w] = c
    BY <1>1, NewCall
  <1> SUFFICES ASSUME Summarises(w)' PROVE SummaryOK(w)'
    BY DEF SummaryOK
  <1>4. c.pc = "count"
    BY <1>2, <1>3 DEF Summarises, FirstCall
  <1>5. Fresh' = Fresh
    BY <1>1 DEF Fresh
  <1> DEFINE s == NewestFirst(Fresh)
  <1>6. PageOf(s, 0, 0) = <<>>
    <2>1. s \in Seq(Fresh) /\ Len(s) \in Nat /\ 0 \in Nat
      BY FreshList
    <2> HIDE DEF s
    <2>2. /\ PageOf(s, 0, 0) \in Seq(Fresh)
          /\ Len(PageOf(s, 0, 0)) = IF 0 + 0 < Len(s) THEN 0
                                    ELSE IF 0 < Len(s) THEN Len(s) - 0 ELSE 0
      BY ONLY <2>1, PageOfIs
    <2>3. Len(PageOf(s, 0, 0)) = 0
      BY <2>1, <2>2
    <2> QED
      BY <2>2, <2>3
  <1>7. Offset(w)' = 0
    <2>1. Offset(w)' = 0 * ListSize
      BY <1>2, <1>3 DEF Offset
    <2> QED
      BY <2>1, VideosAssumption
  <1>8. NewestFirst(Fresh)' = NewestFirst(Fresh)
    BY <1>5 DEF NewestFirst
  <1>9. /\ (call[w].seen \in Seq(Fresh))'
        /\ AsNew(call[w].seen, PageOf(NewestFirst(Fresh), 0, Offset(w)))'
    <2>1. call'[w].seen = <<>> /\ PageOf(NewestFirst(Fresh), 0, Offset(w))' = <<>>
      BY <1>2, <1>3, <1>6, <1>7, <1>8 DEF PageOf
    <2> QED
      BY <2>1 DEF AsNew
  <1>10. 0 \in Nat /\ 0 < ListPages
    BY VideosAssumption
  <1> QED
    BY <1>2, <1>3, <1>4, <1>9, <1>10 DEF SummaryOK

(* The rows are counted with the first page.                               *)
LEMMA SummaryCounted ==
  ASSUME VideosInv, NEW w \in Worker, SummaryOK(w), Count(w),
         Summarises(w)' => steady[w] /\ Fresh' = Fresh
  PROVE  SummaryOK(w)'
  <1> SUFFICES ASSUME Summarises(w)' PROVE SummaryOK(w)'
    BY DEF SummaryOK
  <1>1. DOMAIN call[w] = Parts /\ DOMAIN call = Worker
    BY DEF VideosInv, CallOK
  <1>2. /\ call[w].pc = "count" /\ Fresh' = Fresh
        /\ call'[w].pc = "select" /\ call'[w].pages = call[w].pages
        /\ call'[w].seen = call[w].seen
        /\ call'[w].op = call[w].op /\ call'[w].ok = call[w].ok
        /\ call'[w].total = IF call[w].pages = 0 THEN Cardinality(Fresh) ELSE call[w].total
    BY <1>1 DEF Count, Parts, Idle
  <1>3. Summarises(w)
    BY <1>2 DEF Summarises
  <1>4. /\ NewestFirst(Fresh)' = NewestFirst(Fresh) /\ Offset(w)' = Offset(w)
        /\ Cardinality(Fresh)' = Cardinality(Fresh)
    BY <1>2 DEF NewestFirst, Offset
  <1> QED
    BY <1>2, <1>3, <1>4 DEF SummaryOK, PageOf, AsNew

(* Another page is read: it follows on those before, and the last one      *)
(* completes the list or reaches the limit.                                *)
LEMMA SummarySelected ==
  ASSUME VideosInv, BasicsOK, NEW w \in Worker, SummaryOK(w), Select(w),
         Summarises(w)' => steady[w] /\ Fresh' = Fresh
  PROVE  SummaryOK(w)'
  <1> SUFFICES ASSUME Summarises(w)' PROVE SummaryOK(w)'
    BY DEF SummaryOK
  <1>1. DOMAIN call[w] = Parts /\ DOMAIN call = Worker
    BY DEF VideosInv, CallOK
  <1> PICK rows \in Orders(Fresh) : PageRead(w, PageOf(rows, Offset(w), ListSize))
    BY DEF Select
  <1> DEFINE F     == NewestFirst(Fresh)
             p     == call[w].pages
             items == PageOf(rows, Offset(w), ListSize)
             all   == call[w].seen \o items
             done  == \/ call[w].op = "list"
                      \/ items = <<>>
                      \/ Len(all) >= call[w].total
                      \/ p + 1 = ListPages
  <1>2. /\ call[w].pc = "select" /\ Fresh' = Fresh
        /\ call'[w].seen = all
        /\ call'[w].pages = IF done THEN 0 ELSE p + 1
        /\ call'[w].pc = IF done THEN "answer" ELSE "count"
        /\ call'[w].op = call[w].op /\ call'[w].ok = call[w].ok
        /\ call'[w].total = call[w].total
    <2>1. /\ call[w].pc = "select"
          /\ call' = [call EXCEPT ![w].seen = all,
                                  ![w].pages = IF done THEN 0 ELSE @ + 1,
                                  ![w].pc = IF done THEN "answer" ELSE "count"]
      BY Zenon DEF Select, PageRead
    <2> HIDE DEF all, done
    <2> QED
      BY <1>1, <2>1 DEF Parts, Idle
  <1>3. Summarises(w)
    BY <1>2 DEF Summarises
  <1>4. /\ p \in Nat /\ p < ListPages /\ call[w].op = "summary"
        /\ call[w].seen \in Seq(Fresh)
        /\ AsNew(call[w].seen, PageOf(F, 0, Offset(w)))
        /\ call[w].total = Cardinality(Fresh)
    BY <1>2, <1>3 DEF SummaryOK, Summarises
  <1>5. F \in Seq(Fresh) /\ Len(F) = Cardinality(Fresh) /\ Len(F) \in Nat
    BY FreshList
  <1>6. F' = F /\ Cardinality(Fresh)' = Cardinality(Fresh)
    BY <1>2 DEF NewestFirst
  <1>7. ListSize \in Nat \ {0} /\ ListPages \in Nat \ {0}
    BY VideosAssumption
  <1> DEFINE k    == Offset(w) + ListSize
             most == ListPages * ListSize
  <1>8. /\ Offset(w) \in Nat /\ k \in Nat /\ most \in Nat
        /\ k = (p + 1) * ListSize /\ k <= most
    <2>1. Offset(w) = p * ListSize
      BY DEF Offset
    <2> HIDE DEF p
    <2>2. p * ListSize \in Nat /\ (p + 1) * ListSize = p * ListSize + ListSize
      BY <1>4, <1>7
    <2>3. (p + 1) * ListSize <= ListPages * ListSize
      BY <1>4, <1>7
    <2> QED
      BY <1>7, <2>1, <2>2, <2>3
  <1> HIDE DEF F
  <1>9. /\ all \in Seq(Fresh) /\ AsNew(all, PageOf(F, 0, k))
        /\ Len(items) = IF k < Len(F) THEN ListSize
                        ELSE IF Offset(w) < Len(F) THEN Len(F) - Offset(w) ELSE 0
    <2> DEFINE before == PageOf(F, 0, Offset(w))
               same   == PageOf(F, Offset(w), ListSize)
    <2>1. /\ 0 \in Nat /\ Offset(w) \in Nat /\ ListSize \in Nat
          /\ rows \in Seq(Fresh) /\ Len(rows) = Len(F) /\ AsNew(rows, F)
      BY <1>5, <1>7, <1>8, OrdersAgree DEF F
    <2>2. items \in Seq(Fresh) /\ before \in Seq(Fresh) /\ same \in Seq(Fresh)
      BY <1>5, <2>1, PageOfIs
    <2>3. AsNew(items, same)
      BY <1>5, <2>1, PagesAsNew
    <2>4. before \o same = PageOf(F, 0, k)
      BY <1>5, <2>1, PagesJoin
    <2>5. Len(items) = IF k < Len(F) THEN ListSize
                       ELSE IF Offset(w) < Len(F) THEN Len(F) - Offset(w) ELSE 0
      BY <2>1, PageOfIs
    <2> HIDE DEF items, before, same
    <2>6. call[w].seen \in Seq(Fresh) /\ AsNew(call[w].seen, before)
      BY <1>4 DEF before
    <2>7. AsNew(all, before \o same)
      BY <2>2, <2>3, <2>6, JoinedAsNew
    <2>8. all \in Seq(Fresh)
      BY <2>2, <2>6, ConcatProperties
    <2> QED
      BY <2>4, <2>5, <2>7, <2>8
  <1>10. Len(all) = IF k < Len(F) THEN k ELSE Len(F)
    <2>1. 0 \in Nat /\ F \in Seq(Fresh) /\ k \in Nat
      BY <1>5, <1>8
    <2>2. Len(PageOf(F, 0, k)) = IF 0 + k < Len(F) THEN k
                                 ELSE IF 0 < Len(F) THEN Len(F) - 0 ELSE 0
      BY Zenon, <2>1, PageOfIs
    <2>3. Len(all) = Len(PageOf(F, 0, k))
      BY <1>9 DEF AsNew
    <2> HIDE DEF k, all
    <2> QED
      BY <1>5, <2>1, <2>2, <2>3
  <1> HIDE DEF k, most, all, items, p
  <1>11. CASE done
    <2>1. k >= Len(F) \/ k = most
      <3>1. CASE items = <<>>
        <4>1. Len(items) = 0
          BY <3>1
        <4> QED
          BY <1>5, <1>7, <1>8, <1>9, <4>1
      <3>2. CASE Len(all) >= call[w].total
        BY <1>4, <1>5, <1>8, <1>10, <3>2
      <3>3. CASE p + 1 = ListPages
        BY <1>8, <3>3 DEF most
      <3> QED
        BY <1>4, <1>11, <3>1, <3>2, <3>3
    <2>2. PageOf(F, 0, k) = PageOf(F, 0, most)
      <3>1. CASE k = most
        BY <3>1
      <3>2. CASE k >= Len(F)
        <4>1. most >= Len(F)
          BY <1>5, <1>8, <3>2
        <4> QED
          BY <1>5, <1>8, <3>2, <4>1, PageWhole
      <3> QED
        BY <2>1, <3>1, <3>2
    <2>3. call'[w].pc = "answer"
      BY <1>2, <1>11
    <2>4. /\ (call[w].seen \in Seq(Fresh))'
          /\ AsNew(call[w].seen, PageOf(NewestFirst(Fresh), 0, ListPages * ListSize))'
      BY <1>2, <1>6, <1>9, <2>2 DEF F, most, PageOf, AsNew
    <2> QED
      BY <1>2, <1>4, <1>6, <2>3, <2>4 DEF SummaryOK
  <1>12. CASE ~done
    <2>1. /\ call'[w].pc = "count" /\ call'[w].pages = p + 1
      BY <1>2, <1>12
    <2>2. p + 1 \in Nat /\ p + 1 < ListPages
      BY <1>4, <1>7, <1>12 DEF p
    <2>3. Offset(w)' = k
      BY <1>8, <2>1 DEF Offset
    <2>4. /\ (call[w].seen \in Seq(Fresh))'
          /\ AsNew(call[w].seen, PageOf(NewestFirst(Fresh), 0, Offset(w)))'
      BY <1>2, <1>6, <1>9, <2>3 DEF F, PageOf, AsNew
    <2> QED
      BY <1>2, <1>4, <1>6, <2>1, <2>2, <2>4 DEF SummaryOK
  <1> QED
    BY <1>11, <1>12

(* A request whose list is said to be steady has the list it had.          *)
LEMMA ListKept ==
  ASSUME BasicsOK, BasicsOK', [Next]_vars, NEW w \in Worker, call'[w].op = call[w].op
  PROVE  /\ Syncs(w)' => steady[w] /\ Own' = Own
         /\ Summarises(w)' => steady[w] /\ Fresh' = Fresh
  <1>1. PathOK(w) /\ PathOK(w)'
    BY DEF BasicsOK
  <1>2. ASSUME call[w].op \in {"sync", "summary"}, steady'[w]
        PROVE  steady[w] /\ Listed(call[w].op)' = Listed(call[w].op)
    <2>1. call[w].pc # "idle" /\ call'[w].pc # "idle"
      BY <1>1, <1>2 DEF PathOK
    <2>2. CASE UNCHANGED vars
      BY <1>2, <2>2 DEF vars, tables, Listed, Own, Existing, Fresh
    <2>3. CASE Watch
      BY <1>2, <2>1, <2>3 DEF Watch
    <2> QED
      BY <2>2, <2>3 DEF Next
  <1>3. ASSUME Syncs(w)' PROVE steady[w] /\ Own' = Own
    <2>1. call[w].op = "sync" /\ call'[w].op = "sync" /\ steady'[w]
      BY <1>3 DEF Syncs
    <2> QED
      BY <1>2, <2>1 DEF Listed
  <1>4. ASSUME Summarises(w)' PROVE steady[w] /\ Fresh' = Fresh
    <2>1. call[w].op = "summary" /\ call'[w].op = "summary" /\ steady'[w]
      BY <1>4 DEF Summarises
    <2> QED
      BY <1>2, <2>1 DEF Listed
  <1> QED
    BY <1>3, <1>4

(* A summary of which a read broke off is not steady.                      *)
LEMMA BrokenReadIsSeen ==
  ASSUME VideosInv, BasicsOK, [Next]_vars, NEW w \in Worker, ReadBreaksOff(w)
  PROVE  ~steady'[w]
  <1>1. DOMAIN call[w] = Parts /\ DOMAIN call = Worker /\ faults \in Nat
    BY DEF VideosInv, CallOK, BasicsOK
  <1>2. faults' # faults
    BY <1>1 DEF ReadBreaksOff, Fault
  <1>3. Watch
    BY <1>2 DEF Next, vars, bounds
  <1>4. call[w].pc = "select" /\ call'[w].pc \in {"answer", "count"}
    BY <1>1, ReadIs DEF Reads
  <1> QED
    BY <1>2, <1>3, <1>4 DEF Watch

(* At first nobody goes through a list.                                    *)
LEMMA InitPaging == Init => Syncing /\ Summarising
  <1> SUFFICES ASSUME Init PROVE Syncing /\ Summarising
    OBVIOUS
  <1>1. \A w \in Worker : call[w].op = "none"
    BY DEF Init, Idle
  <1> QED
    BY <1>1 DEF Syncing, Summarising, SyncOK, SummaryOK, Syncs, Summarises

(* A step for a list stays with its kind of list.                          *)
LEMMA ListStepKeepsOp ==
  ASSUME VideosInv, BasicsOK, NEW w \in Worker,
         Search(w) \/ Details(w) \/ Row(w) \/ Commit(w) \/ Count(w) \/ Reads(w)
  PROVE  /\ call'[w].op = call[w].op
         /\ Count(w) \/ Reads(w) => ~Syncs(w)'
         /\ Search(w) \/ Details(w) \/ Row(w) \/ Commit(w) => ~Summarises(w)'
  <1>1. DOMAIN call[w] = Parts /\ DOMAIN call = Worker /\ PathOK(w)
    BY DEF VideosInv, CallOK, BasicsOK
  <1>2. CASE Search(w)
    <2>1. call'[w].op = call[w].op /\ call[w].pc = "search"
      BY <1>1, <1>2 DEF Search, Parts, Idle
    <2> QED
      BY <1>1, <2>1 DEF PathOK, Summarises, Count, Reads, Select, ReadBreaksOff
  <1>3. CASE Details(w)
    <2>1. call'[w].op = call[w].op /\ call[w].pc = "details"
      BY <1>1, <1>3 DEF Details, Parts, Idle
    <2> QED
      BY <1>1, <2>1 DEF PathOK, Summarises, Count, Reads, Select, ReadBreaksOff
  <1>4. CASE Row(w)
    <2>1. call'[w].op = call[w].op /\ call[w].pc = "row"
      BY <1>1, <1>4 DEF Row, Parts, Idle
    <2> QED
      BY <1>1, <2>1 DEF PathOK, Summarises, Count, Reads, Select, ReadBreaksOff
  <1>5. CASE Commit(w)
    <2>1. TurnPage(w).op = call[w].op /\ call[w].pc = "row"
      BY <1>1, <1>5 DEF TurnPage, Commit, Parts, Idle
    <2>2. call'[w].op = call[w].op
      BY <1>5, <2>1, NewCall DEF Commit
    <2> QED
      BY <1>1, <2>1, <2>2 DEF PathOK, Summarises, Count, Reads, Select, ReadBreaksOff
  <1>6. CASE Count(w) \/ Reads(w)
    <2>1. call'[w].op = call[w].op /\ call[w].pc \in {"count", "select"}
      BY <1>1, <1>6, ReadIs DEF Count, Parts, Idle
    <2> QED
      BY <1>1, <2>1 DEF PathOK, Syncs, Search, Details, Row, Commit
  <1> QED
    BY <1>2, <1>3, <1>4, <1>5, <1>6

(* The sync that acts goes on as it should, if the pages it gets at most   *)
(* (1000) have room for the channel.                                       *)
LEMMA ActsSync ==
  ASSUME VideosInv, BasicsOK, BasicsOK', [Next]_vars, NEW w \in Worker, Acts(w),
         SyncOK(w), Cardinality(Video) <= MaxPages * PageSize
  PROVE  SyncOK(w)'
  <1>1. CASE \E r \in Request : Accept(w, r)
    BY <1>1, SyncAccepted
  <1>2. CASE Search(w) \/ Details(w) \/ Row(w) \/ Commit(w)
    <2>1. Syncs(w)' => steady[w] /\ Own' = Own
      BY <1>2, ListStepKeepsOp, ListKept
    <2> QED
      BY <1>2, <2>1, SyncSearched, SyncDetailed, SyncRow, SyncCommitted
  <1>3. CASE ~Syncs(w)'
    BY <1>3 DEF SyncOK
  <1>4. Count(w) \/ Reads(w) => ~Syncs(w)'
    BY ListStepKeepsOp
  <1>5. Syncs(w)' => call'[w].op \in {"sync", "summary"} /\ call'[w].ok
    BY DEF Syncs
  <1> QED
    BY <1>1, <1>2, <1>3, <1>4, <1>5, ListSteps

(* So does the summary that acts.                                          *)
LEMMA ActsSummary ==
  ASSUME VideosInv, BasicsOK, BasicsOK', [Next]_vars, NEW w \in Worker, Acts(w),
         SummaryOK(w)
  PROVE  SummaryOK(w)'
  <1>1. CASE \E r \in Request : Accept(w, r)
    BY <1>1, SummaryAccepted
  <1>2. CASE Count(w) \/ Reads(w)
    <2>1. Summarises(w)' => steady[w] /\ Fresh' = Fresh
      BY <1>2, ListStepKeepsOp, ListKept
    <2> QED
      <3>1. CASE ReadBreaksOff(w)
        BY <3>1, BrokenReadIsSeen DEF Summarises, SummaryOK
      <3> QED
        BY <1>2, <2>1, <3>1, SummaryCounted, SummarySelected DEF Reads
  <1>3. CASE ~Summarises(w)'
    BY <1>3 DEF SummaryOK
  <1>4. Search(w) \/ Details(w) \/ Row(w) \/ Commit(w) => ~Summarises(w)'
    BY ListStepKeepsOp
  <1>5. Summarises(w)' => call'[w].op \in {"sync", "summary"} /\ call'[w].ok
    BY DEF Summarises
  <1> QED
    BY <1>1, <1>2, <1>3, <1>4, <1>5, ListSteps

(* Every step of the system keeps the syncs in order,                      *)
LEMMA NextSyncing ==
  ASSUME VideosInv, BasicsOK, Syncing, [Next]_vars,
         Cardinality(Video) <= MaxPages * PageSize
  PROVE  Syncing'
  <1>1. BasicsOK' /\ DOMAIN cache \subseteq DOMAIN cache'
    BY NextBasics
  <1>2. ASSUME NEW x \in Worker, call'[x] = call[x] PROVE SyncOK(x)'
    <2>1. Syncs(x)' => steady[x] /\ Own' = Own
      BY <1>1, <1>2, ListKept
    <2> QED
      BY <1>1, <1>2, <2>1, SyncStays DEF Syncing
  <1>3. ASSUME NEW w \in Worker, Acts(w) PROVE Syncing'
    <2>1. OthersWait(w) /\ SyncOK(w)'
      BY <1>1, <1>3, ActsPath, ActsSync DEF BasicsOK, Syncing
    <2>2. \A x \in Worker \ {w} : SyncOK(x)'
      BY <1>2, <2>1 DEF OthersWait
    <2> QED
      BY <2>1, <2>2 DEF Syncing
  <1>4. CASE call' = call
    BY <1>2, <1>4 DEF Syncing
  <1> QED
    BY <1>3, <1>4, StepIs

(* and the summaries.                                                      *)
LEMMA NextSummarising ==
  ASSUME VideosInv, BasicsOK, Summarising, [Next]_vars
  PROVE  Summarising'
  <1>1. BasicsOK'
    BY NextBasics
  <1>2. ASSUME NEW x \in Worker, call'[x] = call[x] PROVE SummaryOK(x)'
    <2>1. Summarises(x)' => steady[x] /\ Fresh' = Fresh
      BY <1>1, <1>2, ListKept
    <2> QED
      BY <1>2, <2>1, SummaryStays DEF Summarising
  <1>3. ASSUME NEW w \in Worker, Acts(w) PROVE Summarising'
    <2>1. OthersWait(w) /\ SummaryOK(w)'
      BY <1>1, <1>3, ActsPath, ActsSummary DEF BasicsOK, Summarising
    <2>2. \A x \in Worker \ {w} : SummaryOK(x)'
      BY <1>2, <2>1 DEF OthersWait
    <2> QED
      BY <2>1, <2>2 DEF Summarising
  <1>4. CASE call' = call
    BY <1>2, <1>4 DEF Summarising
  <1> QED
    BY <1>3, <1>4, StepIs

(* A full sync (SyncMyVideos, youtube_usecase.go) of a channel that stays  *)
(* the same while other requests and faults go on stores every video of it *)
(* and answers how many there are, if the pages it gets at most (1000)     *)
(* have room for the channel.                                              *)
THEOREM SyncsAreComplete ==
  ASSUME Cardinality(Video) <= MaxPages * PageSize
  PROVE  Spec => []SyncIsComplete
  <1>1. Init => Syncing
    BY InitPaging
  <1>2. VideosInv /\ BasicsOK /\ Syncing /\ [Next]_vars => Syncing'
    BY NextSyncing
  <1>3. Syncing => SyncIsComplete
    BY DEF Syncing, SyncOK, Syncs, SyncIsComplete
  <1> QED
    BY <1>1, <1>2, <1>3, VideosInvariance, RequestsFollowTheirPath, PTL DEF Spec

(* Of a cache that stays the same and if no read breaks off, the dashboard *)
(* (DashboardSummary in youtube_handler.go) counts as many videos of each  *)
(* time as there are up to its limit, and each exactly once unless several *)
(* were published at the same time.                                        *)
THEOREM SummariesCountOnce == Spec => []SummaryCountsOnce
  <1>1. Init => Summarising
    BY InitPaging
  <1>2. VideosInv /\ BasicsOK /\ Summarising /\ [Next]_vars => Summarising'
    BY NextSummarising
  <1>3. VideosInv /\ BasicsOK /\ Summarising => SummaryCountsOnce
    <2> SUFFICES ASSUME VideosInv, BasicsOK, Summarising,
                        NEW w \in Worker, call[w].pc = "answer", Summarises(w)
                 PROVE  LET first == PageOf(NewestFirst(Fresh), 0, ListPages * ListSize)
                        IN  /\ AsNew(call[w].seen, first)
                            /\ ~Ties(Fresh) => call[w].seen = first
                            /\ call[w].total = Cardinality(Fresh)
      BY DEF SummaryCountsOnce, Summarises
    <2> DEFINE F     == NewestFirst(Fresh)
               most  == ListPages * ListSize
               first == PageOf(F, 0, most)
    <2>1. /\ call[w].seen \in Seq(Fresh) /\ AsNew(call[w].seen, first)
          /\ call[w].total = Cardinality(Fresh)
      BY DEF Summarising, SummaryOK
    <2>2. F \in Seq(Fresh) /\ 0 \in Nat /\ most \in Nat
      BY FreshList, VideosAssumption
    <2> HIDE DEF F, most
    <2>3. first \in Seq(Fresh)
      BY <2>2, PageOfIs
    <2> HIDE DEF first
    <2>4. ~Ties(Fresh) => call[w].seen = first
      BY <2>1, <2>3, NoTiesNoChoice
    <2> QED
      BY <2>1, <2>4 DEF first, F, most
  <1> QED
    BY <1>1, <1>2, <1>3, VideosInvariance, RequestsFollowTheirPath, PTL DEF Spec

-------------------------------------------------------------------------------
(* The cache and the updates.                                              *)

(* Every copy of v that w is about to store says at least n in field f.    *)
Says(w, v, f, n) ==
    /\ call[w].pc \in {"store", "again"} /\ call[w].video = v => call[w].copy[f] >= n
    /\ call[w].pc = "row" =>
           \A i \in DOMAIN call[w].page :
               call[w].page[i].id = v => call[w].page[i].data[f] >= n
    /\ v \in DOMAIN call[w].staged => call[w].staged[v][f] >= n

Undisturbed == Video \ (raced \cup outdated)

(* What is stored, and what is about to be, contains every update that was *)
(* acknowledged,                                                           *)
CacheKnows ==
    \A v \in DOMAIN cache \cap Undisturbed, f \in Field : cache[v].data[f] >= acked[v][f]

HolderKnows(w) == \A v \in Undisturbed, f \in Field : Says(w, v, f, acked[v][f])

(* and those that are going to be.                                         *)
HolderFollows(w, x) ==
    Pending(x) /\ call[x].video \in Undisturbed =>
        Says(w, call[x].video, call[x].field, call[x].total)

(* A request has rows in a transaction only while it upserts.              *)
StagedInRow(w) == call[w].pc # "row" => DOMAIN call[w].staged = {}

CacheInv ==
    faults = 0 =>
        /\ CacheKnows
        /\ \A w \in Worker : HolderKnows(w) /\ StagedInRow(w)
        /\ \A w, x \in Worker : HolderFollows(w, x)

-------------------------------------------------------------------------------
(* What is said of a video is so in the next state, too, when the request  *)
(* that says it does not act.                                              *)
LEMMA SaysStays ==
  ASSUME NEW w, NEW v, NEW f, NEW n, call'[w] = call[w]
  PROVE  Says(w, v, f, n)' <=> Says(w, v, f, n)
  BY DEF Says

(* At first nothing is stored.                                             *)
LEMMA InitCache == Init => CacheInv
  <1> SUFFICES ASSUME Init PROVE CacheInv
    OBVIOUS
  <1>1. \A w \in Worker : call[w] = Idle
    BY DEF Init
  <1>2. Idle.op = "none" /\ Idle.pc = "idle" /\ Idle.staged = NoRows
    BY DEF Idle
  <1>3. DOMAIN NoRows = {}
    BY DEF NoRows
  <1>4. \A w \in Worker : StagedInRow(w) /\ ~Pending(w)
    BY <1>1, <1>2, <1>3 DEF StagedInRow, Pending
  <1>5. \A w \in Worker : \A v, f, n : Says(w, v, f, n)
    BY <1>1, <1>2, <1>3 DEF Says
  <1>6. CacheKnows
    BY <1>3 DEF Init, CacheKnows
  <1> QED
    BY <1>4, <1>5, <1>6 DEF CacheInv, HolderKnows, HolderFollows

(* A step of w that stores nothing and acknowledges nothing, and after     *)
(* which w holds what it held before or what is on YouTube.                *)
Calm(w) ==
    /\ OthersWait(w)
    /\ UNCHANGED <<cache, acked, raced, outdated>>
    /\ Pending(w)' => /\ Pending(w)
                      /\ call'[w].video = call[w].video
                      /\ call'[w].field = call[w].field
                      /\ call'[w].total = call[w].total
    /\ StagedInRow(w)'
    /\ \A v \in Video, f \in Field, n \in Nat :
           Says(w, v, f, n) /\ (v \in Existing => videos[v][f] >= n) => Says(w, v, f, n)'

(* Nobody misses an update after such a step who did not before.           *)
LEMMA CalmKeeps ==
  ASSUME VideosInv, CacheInv, faults = 0, NEW w \in Worker, Calm(w)
  PROVE  CacheInv'
  <1>1. Undisturbed' = Undisturbed /\ Undisturbed \subseteq Video \ raced
    BY DEF Calm, Undisturbed
  <1>2. CacheKnows'
    BY <1>1 DEF Calm, CacheInv, CacheKnows
  <1>3. ASSUME NEW x \in Worker, NEW v \in Undisturbed, NEW f \in Field, NEW n \in Nat,
               Says(x, v, f, n), v \in Existing => videos[v][f] >= n
        PROVE  Says(x, v, f, n)'
    <2>1. CASE x = w
      BY <1>1, <1>3, <2>1 DEF Calm
    <2>2. CASE x # w
      BY <1>3, <2>2, SaysStays DEF Calm, OthersWait
    <2> QED
      BY <2>1, <2>2
  <1>4. ASSUME NEW x \in Worker PROVE HolderKnows(x)'
    <2> SUFFICES ASSUME NEW v \in Undisturbed, NEW f \in Field
                 PROVE  Says(x, v, f, acked[v][f])'
      BY <1>1 DEF HolderKnows
    <2>1. PICK n \in Nat : n = acked[v][f]
      BY <1>1 DEF VideosInv, TablesOK, Copy
    <2>2. Says(x, v, f, n)
      BY <2>1 DEF CacheInv, HolderKnows
    <2>3. v \in Existing => videos[v][f] >= n
      BY <1>1, <2>1 DEF VideosInv, UpdatesStay
    <2>4. Says(x, v, f, n)'
      BY <1>3, <2>2, <2>3
    <2>5. n = acked'[v][f]
      BY <2>1 DEF Calm
    <2> QED
      BY <2>4, <2>5 DEF Says
  <1>5. \A y \in Worker :
            Pending(y)' => /\ Pending(y)
                           /\ call'[y].video = call[y].video
                           /\ call'[y].field = call[y].field
                           /\ call'[y].total = call[y].total
    BY DEF Calm, OthersWait, Pending
  <1>6. ASSUME NEW x \in Worker, NEW y \in Worker PROVE HolderFollows(x, y)'
    <2> SUFFICES ASSUME Pending(y)', call'[y].video \in Undisturbed'
                 PROVE  Says(x, call[y].video, call[y].field, call[y].total)'
      BY DEF HolderFollows
    <2>1. /\ Pending(y) /\ call'[y].video = call[y].video
          /\ call'[y].field = call[y].field /\ call'[y].total = call[y].total
      BY <1>5
    <2>2. PICK v, f, n : v = call[y].video /\ f = call[y].field /\ n = call[y].total
      OBVIOUS
    <2>3. v \in Undisturbed /\ f \in Field /\ n \in Nat
      BY <1>1, <2>1, <2>2 DEF VideosInv, CallOK, Pending
    <2>4. Says(x, v, f, n)
      BY <2>1, <2>2, <2>3 DEF CacheInv, HolderFollows
    <2>5. v \in Existing => videos[v][f] >= n
      BY <1>1, <2>1, <2>2, <2>3 DEF VideosInv, PendingStays
    <2>6. Says(x, v, f, n)'
      BY <1>3, <2>3, <2>4, <2>5
    <2> QED
      BY <2>1, <2>2, <2>6 DEF Says
  <1>7. \A x \in Worker : StagedInRow(x)'
    BY DEF Calm, OthersWait, CacheInv, StagedInRow
  <1> QED
    BY <1>2, <1>4, <1>6, <1>7 DEF CacheInv

(* Whoever holds nothing says nothing wrong.                               *)
LEMMA EmptyHanded ==
  ASSUME NEW w, call'[w].pc \notin {"store", "again", "row"}, DOMAIN call'[w].staged = {}
  PROVE  StagedInRow(w)' /\ \A v, f, n : Says(w, v, f, n)'
  BY DEF StagedInRow, Says

(* A new request holds nothing, and is not about to acknowledge an update. *)
LEMMA AcceptIsCalm ==
  ASSUME VideosInv, NEW w \in Worker, NEW r \in Request, Accept(w, r)
  PROVE  Calm(w)
  <1> DEFINE c == [Idle EXCEPT !.op = r.op, !.pc = FirstCall[r.op],
                      !.video = r.video, !.field = r.field, !.all = r.all,
                      !.newest = r.newest]
  <1>1. /\ call' = [call EXCEPT ![w] = c]
        /\ UNCHANGED <<cache, acked, raced, outdated>>
    BY DEF Accept, tables, history
  <1>2. c.op = r.op /\ c.pc = FirstCall[r.op] /\ c.staged = NoRows
    BY DEF Idle
  <1>3. r.op \in {"details", "force", "update", "sync", "list", "summary", "upload"}
    BY VideosAssumption
  <1> HIDE DEF c
  <1>4. OthersWait(w) /\ call'[w] = c
    BY <1>1, NewCall
  <1>5. c.pc \notin {"store", "again", "row"} /\ (c.pc = "fetch" => c.op = "force")
    BY <1>2, <1>3 DEF FirstCall
  <1>6. ~Pending(w)'
    BY <1>4, <1>5 DEF Pending
  <1>7. DOMAIN call'[w].staged = {}
    BY <1>2, <1>4 DEF NoRows
  <1> QED
    BY <1>1, <1>4, <1>5, <1>6, <1>7, EmptyHanded DEF Calm

(* A request that reads no copy of a video to store it.                    *)
LEMMA ReadIsCalm ==
  ASSUME VideosInv, BasicsOK, CacheInv, faults = 0, NEW w \in Worker,
         \/ Answer(w) \/ Lookup(w) \/ FetchExisting(w) \/ WriteRefused(w) \/ Insert(w)
         \/ Search(w) \/ DeadlockVictim(w) \/ Count(w) \/ Select(w)
  PROVE  Calm(w)
  <1>1. /\ DOMAIN call[w] = Parts /\ DOMAIN call = Worker /\ DOMAIN NoRows = {}
        /\ PathOK(w) /\ StagedInRow(w)
    BY DEF VideosInv, CallOK, NoRows, BasicsOK, CacheInv
  <1>2. UNCHANGED <<cache, acked, raced, outdated>>
    BY DEF Answer, Lookup, FetchExisting, WriteRefused, Insert, Search, DeadlockVictim,
       Count, Select, tables, history
  <1>3. ASSUME OthersWait(w), ~Pending(w)',
               call'[w].pc \notin {"store", "again", "row"}, DOMAIN call'[w].staged = {}
        PROVE  Calm(w)
    BY <1>2, <1>3, EmptyHanded DEF Calm
  <1>4. CASE Answer(w)
    <2>1. OthersWait(w) /\ call'[w] = Idle
      BY <1>4, NewCall DEF Answer
    <2>2. Idle.pc = "idle" /\ Idle.staged = NoRows
      BY DEF Idle
    <2> QED
      BY <1>1, <1>3, <2>1, <2>2 DEF Pending
  <1>5. CASE Lookup(w)
    <2>1. /\ OthersWait(w) /\ call'[w].pc \in {"answer", "fetch"}
          /\ call'[w].op = call[w].op /\ call[w].pc = "lookup"
          /\ call'[w].staged = call[w].staged
      BY <1>1, <1>5 DEF Lookup, Goto, Parts, Idle, OthersWait
    <2>2. call[w].op # "update"
      BY <1>1, <2>1 DEF PathOK
    <2> QED
      BY <1>1, <1>3, <2>1, <2>2 DEF Pending, StagedInRow
  <1>6. CASE FetchExisting(w) \/ WriteRefused(w) \/ Insert(w)
    <2>1. /\ OthersWait(w) /\ call'[w].pc \in {"write", "answer"}
          /\ call'[w].staged = call[w].staged /\ call[w].pc # "row"
      BY <1>1, <1>6 DEF FetchExisting, WriteRefused, Insert, Goto, Fail, Parts, Idle, OthersWait
    <2> QED
      BY <1>1, <1>3, <2>1 DEF Pending, StagedInRow
  <1>7. CASE Search(w) \/ Count(w) \/ Select(w)
    <2>1. /\ OthersWait(w) /\ call'[w].pc \in {"details", "answer", "select", "count"}
          /\ call'[w].staged = call[w].staged /\ call[w].pc # "row"
      <3>1. CASE Search(w)
        BY <1>1, <3>1 DEF Search, Parts, Idle, OthersWait
      <3>2. CASE Count(w)
        BY <1>1, <3>2 DEF Count, Parts, Idle, OthersWait
      <3>3. CASE Select(w)
        BY <1>1, <3>3, ReadIs DEF Reads
      <3> QED
        BY <1>7, <3>1, <3>2, <3>3
    <2> QED
      BY <1>1, <1>3, <2>1 DEF Pending, StagedInRow
  <1>8. CASE DeadlockVictim(w)
    <2>1. /\ OthersWait(w) /\ call'[w].pc = "answer" /\ call'[w].staged = NoRows
      BY <1>1, <1>8 DEF DeadlockVictim, Parts, Idle, OthersWait
    <2> QED
      BY <1>1, <1>3, <2>1 DEF Pending
  <1> QED
    BY <1>4, <1>5, <1>6, <1>7, <1>8

(* What a request has just fetched is what is on YouTube.                  *)
LEMMA FetchIsCalm ==
  ASSUME VideosInv, CacheInv, faults = 0, NEW w \in Worker, Fetch(w)
  PROVE  Calm(w)
  <1>1. /\ DOMAIN call[w] = Parts /\ DOMAIN call = Worker /\ StagedInRow(w)
        /\ call[w].pc = "fetch" /\ UNCHANGED <<cache, acked, raced, outdated>>
    BY DEF VideosInv, CallOK, CacheInv, Fetch, tables, history
  <1>2. /\ OthersWait(w) /\ call'[w].op = call[w].op /\ call'[w].video = call[w].video
        /\ call'[w].field = call[w].field /\ call'[w].total = call[w].total
        /\ call'[w].staged = call[w].staged
        /\ \/ call'[w].pc = "answer"
           \/ /\ call'[w].pc = "store" /\ call'[w].copy = videos[call[w].video]
              /\ call[w].video \in Existing
    BY <1>1 DEF Fetch, Fail, Parts, Idle, OthersWait
  <1>3. StagedInRow(w)' /\ DOMAIN call'[w].staged = {}
    BY <1>1, <1>2 DEF StagedInRow
  <1>4. \A v \in Video, f \in Field, n \in Nat :
            (v \in Existing => videos[v][f] >= n) => Says(w, v, f, n)'
    BY <1>2, <1>3 DEF Says
  <1> QED
    BY <1>1, <1>2, <1>3, <1>4 DEF Calm, Pending

(* So is what a sync has just got the details of.                          *)
LEMMA DetailsIsCalm ==
  ASSUME VideosInv, CacheInv, faults = 0, NEW w \in Worker, Details(w)
  PROVE  Calm(w)
  <1>1. /\ DOMAIN call[w] = Parts /\ DOMAIN call = Worker /\ StagedInRow(w)
        /\ call[w].pc = "details" /\ UNCHANGED <<cache, acked, raced, outdated>>
    BY DEF VideosInv, CallOK, CacheInv, Details, tables, history
  <1>2. /\ OthersWait(w) /\ call'[w].pc \in {"answer", "row"}
        /\ call'[w].staged = call[w].staged
    BY <1>1 DEF Details, Parts, Idle, OthersWait
  <1>3. StagedInRow(w)' /\ DOMAIN call'[w].staged = {}
    BY <1>1, <1>2 DEF StagedInRow
  <1> DEFINE found == StillThere(w)
             page == call'[w].page
  <1>4. /\ found \in Seq(Existing) /\ DOMAIN page = 1..Len(found)
        /\ \A i \in 1..Len(found) : page[i] = [id |-> found[i], data |-> videos[found[i]]]
    BY DetailsRows
  <1> HIDE DEF found, page
  <1>5. \A i \in DOMAIN page : page[i].id \in Existing /\ page[i].data = videos[page[i].id]
    <2> TAKE i \in DOMAIN page
    <2>1. i \in 1..Len(found) /\ found[i] \in Existing
      BY <1>4
    <2>2. page[i] = [id |-> found[i], data |-> videos[found[i]]]
      BY <1>4, <2>1
    <2> QED
      BY <2>1, <2>2
  <1>6. \A v \in Video, f \in Field, n \in Nat :
            (v \in Existing => videos[v][f] >= n) => Says(w, v, f, n)'
    BY <1>2, <1>3, <1>5 DEF Says, page
  <1> QED
    BY <1>1, <1>2, <1>3, <1>6 DEF Calm, Pending

(* A row goes from the page into the transaction as it is.                 *)
LEMMA RowIsCalm ==
  ASSUME VideosInv, BasicsOK, NEW w \in Worker, Row(w)
  PROVE  Calm(w)
  <1>1. DOMAIN call[w] = Parts /\ DOMAIN call = Worker
    BY DEF VideosInv, CallOK
  <1> DEFINE r == Head(call[w].page)
             new == [v \in {r.id} |-> r.data]
             page == call[w].page
  <1>2. /\ call[w].pc = "row" /\ page # <<>> /\ UNCHANGED <<cache, acked, raced, outdated>>
        /\ OthersWait(w) /\ call'[w].page = Tail(page) /\ call'[w].pc = "row"
        /\ call'[w].staged = Upsert(call[w].staged, new)
    BY <1>1 DEF Row, tables, history, Parts, Idle, OthersWait
  <1>3. page \in Seq(VideoRow)
    BY <1>2 DEF BasicsOK, RowsOK
  <1>4. /\ r = page[1] /\ 1 \in DOMAIN page
        /\ \A i \in DOMAIN Tail(page) : i + 1 \in DOMAIN page /\ Tail(page)[i] = page[i + 1]
    <2>1. /\ r = page[1] /\ Len(page) \in Nat \ {0}
      BY <1>2, <1>3
    <2>2. /\ Tail(page) \in Seq(VideoRow) /\ Len(Tail(page)) = Len(page) - 1
          /\ \A i \in 1..Len(Tail(page)) : Tail(page)[i] = page[i + 1]
      BY <1>2, <1>3, HeadTailProperties
    <2>3. \A i \in 1..Len(Tail(page)) : i + 1 \in 1..Len(page)
      BY <2>1, <2>2
    <2>4. DOMAIN page = 1..Len(page) /\ DOMAIN Tail(page) = 1..Len(Tail(page))
      BY <1>3, <2>2
    <2> QED
      BY <2>1, <2>2, <2>3, <2>4
  <1>5. /\ DOMAIN call'[w].staged = DOMAIN call[w].staged \cup {r.id}
        /\ \A v \in DOMAIN call'[w].staged :
               call'[w].staged[v] = IF v = r.id THEN r.data ELSE call[w].staged[v]
    BY <1>2 DEF Upsert
  <1> HIDE DEF r, new, page
  <1>6. ASSUME NEW v, NEW f, NEW n, Says(w, v, f, n) PROVE Says(w, v, f, n)'
    <2>1. /\ \A i \in DOMAIN page : page[i].id = v => page[i].data[f] >= n
          /\ v \in DOMAIN call[w].staged => call[w].staged[v][f] >= n
      BY <1>2, <1>6 DEF Says, page
    <2>2. \A i \in DOMAIN Tail(page) : Tail(page)[i].id = v => Tail(page)[i].data[f] >= n
      BY <1>4, <2>1
    <2>3. v \in DOMAIN call'[w].staged => call'[w].staged[v][f] >= n
      BY <1>4, <1>5, <2>1
    <2> QED
      BY <1>2, <2>2, <2>3 DEF Says
  <1>7. StagedInRow(w)' /\ ~Pending(w)'
    BY <1>2 DEF StagedInRow, Pending
  <1> QED
    BY <1>2, <1>6, <1>7 DEF Calm

(* What is stored is what the request held, and with it the update that it *)
(* acknowledges.                                                           *)
LEMMA StoreKeepsCache ==
  ASSUME VideosInv, BasicsOK, CacheInv, faults = 0, NEW w \in Worker, Store(w)
  PROVE  CacheInv'
  <1> DEFINE v == call[w].video
             g == call[w].field
             t == call[w].total
  <1>1. /\ DOMAIN call[w] = Parts /\ DOMAIN call = Worker /\ CallOK(w) /\ PathOK(w)
        /\ acked \in [Video -> Copy]
    BY DEF VideosInv, TablesOK, CallOK, BasicsOK
  <1>2. /\ call[w].pc \in {"store", "again"} /\ UNCHANGED <<raced, outdated>>
        /\ cache' = Upsert(cache, Fetched(w)) /\ Goto(w, AfterStore(w)) /\ Acknowledge(w)
    BY DEF Store
  <1>3. v \in Video /\ g \in Field
    BY <1>1, <1>2 DEF CallOK
  <1>4. /\ OthersWait(w) /\ call'[w].pc = AfterStore(w)
        /\ call'[w].op = call[w].op /\ call'[w].video = call[w].video
        /\ call'[w].copy = call[w].copy /\ call'[w].staged = call[w].staged
    BY <1>1, <1>2 DEF Goto, Parts, Idle, OthersWait
  <1>5. /\ call'[w].pc = "answer" \/ (call'[w].pc = "again" /\ call[w].op = "force")
    BY <1>4 DEF AfterStore
  <1>6. Undisturbed' = Undisturbed /\ Undisturbed \subseteq Video
    BY <1>2 DEF Undisturbed
  <1>7. DOMAIN cache' = DOMAIN cache \cup {v} /\ cache'[v].data = call[w].copy
        /\ \A u \in DOMAIN cache \ {v} : cache'[u] = cache[u]
    BY <1>2 DEF Upsert, Fetched
  <1>8. \A u \in Video, f \in Field :
            acked'[u][f] = IF call[w].op = "update" /\ u = v /\ f = g THEN t ELSE acked[u][f]
    BY <1>1, <1>2, <1>3 DEF Acknowledge, Copy
  <1>9. call[w].op = "update" => Pending(w)
    BY <1>2 DEF Pending
  <1> HIDE DEF v, g, t
  <1>10. ASSUME NEW x \in Worker, NEW u, NEW f, NEW n, Says(x, u, f, n)
         PROVE  Says(x, u, f, n)'
    <2>1. CASE x = w
      BY <1>2, <1>4, <1>5, <1>10, <2>1 DEF Says
    <2>2. CASE x # w
      BY <1>4, <1>10, <2>2, SaysStays DEF OthersWait
    <2> QED
      BY <2>1, <2>2
  <1>11. ASSUME NEW x \in Worker, NEW u \in Undisturbed, NEW f \in Field
         PROVE  Says(x, u, f, acked'[u][f])
    <2>1. CASE call[w].op = "update" /\ u = v /\ f = g
      <3>1. Says(x, v, g, t)
        BY <1>9, <2>1 DEF CacheInv, HolderFollows, v, g, t
      <3> QED
        BY <1>6, <1>8, <2>1, <3>1
    <2>2. CASE ~(call[w].op = "update" /\ u = v /\ f = g)
      <3>1. Says(x, u, f, acked[u][f])
        BY DEF CacheInv, HolderKnows
      <3> QED
        BY <1>6, <1>8, <2>2, <3>1
    <2> QED
      BY <2>1, <2>2
  <1>12. CacheKnows'
    <2> SUFFICES ASSUME NEW u \in DOMAIN cache' \cap Undisturbed, NEW f \in Field
                 PROVE  cache'[u].data[f] >= acked'[u][f]
      BY <1>6 DEF CacheKnows
    <2>1. CASE u = v
      <3>1. Says(w, v, f, acked'[u][f])
        BY <1>11, <2>1
      <3> QED
        BY <1>2, <1>7, <2>1, <3>1 DEF Says, v
    <2>2. CASE u # v
      <3>1. u \in DOMAIN cache /\ cache'[u] = cache[u] /\ acked'[u][f] = acked[u][f]
        BY <1>6, <1>7, <1>8, <2>2
      <3> QED
        BY <3>1 DEF CacheInv, CacheKnows
    <2> QED
      BY <2>1, <2>2
  <1>13. ASSUME NEW x \in Worker PROVE HolderKnows(x)'
    <2> SUFFICES ASSUME NEW u \in Undisturbed, NEW f \in Field
                 PROVE  Says(x, u, f, acked[u][f])'
      BY <1>6 DEF HolderKnows
    <2>1. PICK n : n = acked'[u][f]
      OBVIOUS
    <2>2. Says(x, u, f, n)'
      BY <1>10, <1>11, <2>1
    <2> QED
      BY <2>1, <2>2 DEF Says
  <1>14. ASSUME NEW x \in Worker, NEW y \in Worker PROVE HolderFollows(x, y)'
    <2> SUFFICES ASSUME Pending(y)', call'[y].video \in Undisturbed
                 PROVE  Says(x, call[y].video, call[y].field, call[y].total)'
      BY <1>6 DEF HolderFollows
    <2>1. y # w
      BY <1>4, <1>5 DEF Pending
    <2>2. call'[y] = call[y] /\ Pending(y)
      BY <1>4, <2>1, SameCall DEF OthersWait
    <2>3. PICK u, f, n : u = call[y].video /\ f = call[y].field /\ n = call[y].total
      OBVIOUS
    <2>4. Says(x, u, f, n)
      BY <2>2, <2>3 DEF CacheInv, HolderFollows
    <2>5. Says(x, u, f, n)'
      BY <1>10, <2>4
    <2> QED
      BY <2>2, <2>3, <2>5 DEF Says
  <1>15. \A x \in Worker : StagedInRow(x)'
    BY <1>2, <1>4 DEF OthersWait, CacheInv, StagedInRow
  <1> QED
    BY <1>12, <1>13, <1>14, <1>15 DEF CacheInv

(* When a request changes a video, what others were about to store of it   *)
(* is outdated.                                                            *)
LEMMA WriteKeepsCache ==
  ASSUME VideosInv, CacheInv, faults = 0, NEW w \in Worker, Write(w)
  PROVE  CacheInv'
  <1>1. DOMAIN call[w] = Parts /\ DOMAIN call = Worker /\ StagedInRow(w)
    BY DEF VideosInv, CallOK, CacheInv
  <1>2. /\ call[w].pc = "write" /\ UNCHANGED <<cache, acked>> /\ Overwrite(w)
        /\ OthersWait(w) /\ call'[w].pc = "fetch" /\ call'[w].video = call[w].video
        /\ call'[w].staged = call[w].staged
    BY <1>1 DEF Write, Parts, Idle, OthersWait
  <1>3. Undisturbed' \subseteq Undisturbed
    BY <1>2 DEF Overwrite, Undisturbed
  <1>4. StagedInRow(w)' /\ \A u, f, n : Says(w, u, f, n)'
    <2>1. DOMAIN call'[w].staged = {}
      BY <1>1, <1>2 DEF StagedInRow
    <2> QED
      BY <1>2, <2>1, EmptyHanded
  <1>5. ASSUME NEW x \in Worker, NEW u, NEW f, NEW n, Says(x, u, f, n)
        PROVE  Says(x, u, f, n)'
    BY <1>2, <1>4, <1>5, SaysStays DEF OthersWait
  <1>6. CacheKnows'
    BY <1>2, <1>3 DEF CacheInv, CacheKnows
  <1>7. ASSUME NEW x \in Worker PROVE HolderKnows(x)'
    <2> SUFFICES ASSUME NEW u \in Undisturbed, NEW f \in Field
                 PROVE  Says(x, u, f, acked[u][f])'
      BY <1>3 DEF HolderKnows
    <2>1. PICK n : n = acked[u][f]
      OBVIOUS
    <2>2. Says(x, u, f, n)'
      BY <1>5, <2>1 DEF CacheInv, HolderKnows
    <2> QED
      BY <1>2, <2>1, <2>2 DEF Says
  <1>8. ASSUME NEW x \in Worker, NEW y \in Worker PROVE HolderFollows(x, y)'
    <2> SUFFICES ASSUME Pending(y)', call'[y].video \in Undisturbed'
                 PROVE  Says(x, call[y].video, call[y].field, call[y].total)'
      BY DEF HolderFollows
    <2>1. CASE y # w
      <3>2. call'[y] = call[y] /\ Pending(y)
        BY <1>2, <2>1, SameCall DEF OthersWait
      <3>3. PICK u, f, n : u = call[y].video /\ f = call[y].field /\ n = call[y].total
        OBVIOUS
      <3>4. Says(x, u, f, n)
        BY <1>3, <3>2, <3>3 DEF CacheInv, HolderFollows
      <3>5. Says(x, u, f, n)'
        BY <1>5, <3>4
      <3> QED
        BY <3>2, <3>3, <3>5 DEF Says
    <2>2. CASE y = w /\ x = w
      <3>1. PICK u, f, n : u = call'[y].video /\ f = call'[y].field /\ n = call'[y].total
        OBVIOUS
      <3>2. Says(w, u, f, n)'
        BY <1>4
      <3> QED
        BY <2>2, <3>1, <3>2 DEF Says
    <2>3. CASE y = w /\ x # w
      <3>1. ~Holds(x, call[w].video)
        BY <1>2, <2>3 DEF Overwrite, Undisturbed
      <3>2. call'[x] = call[x]
        BY <1>2, <2>3 DEF OthersWait
      <3> QED
        BY <1>2, <2>3, <3>1, <3>2 DEF Holds, Says
    <2> QED
      BY <2>1, <2>2, <2>3
  <1>9. \A x \in Worker : StagedInRow(x)'
    BY <1>2, <1>4 DEF OthersWait, CacheInv, StagedInRow
  <1> QED
    BY <1>6, <1>7, <1>8, <1>9 DEF CacheInv

(* A transaction puts into the cache what its request said.                *)
LEMMA CommitKeepsCache ==
  ASSUME VideosInv, BasicsOK, CacheInv, faults = 0, NEW w \in Worker, Commit(w)
  PROVE  CacheInv'
  <1>1. DOMAIN call[w] = Parts /\ DOMAIN call = Worker /\ DOMAIN NoRows = {}
    BY DEF VideosInv, CallOK, NoRows
  <1>2. /\ UNCHANGED <<acked, raced, outdated>> /\ cache' = Committed(w)
        /\ OthersWait(w) /\ call'[w] = TurnPage(w) /\ call[w].pc = "row"
    BY NewCall DEF Commit, history
  <1>3. /\ TurnPage(w).pc \in {"search", "answer"} /\ TurnPage(w).staged = NoRows
    BY <1>1 DEF TurnPage, Parts, Idle
  <1>4. Undisturbed' = Undisturbed
    BY <1>2 DEF Undisturbed
  <1>5. StagedInRow(w)' /\ ~Pending(w)' /\ \A u, f, n : Says(w, u, f, n)'
    BY <1>1, <1>2, <1>3, EmptyHanded DEF Pending
  <1>6. ASSUME NEW x \in Worker, NEW u, NEW f, NEW n, Says(x, u, f, n)
        PROVE  Says(x, u, f, n)'
    BY <1>2, <1>5, <1>6, SaysStays DEF OthersWait
  <1>7. CacheKnows'
    <2>1. /\ DOMAIN cache' = DOMAIN cache \cup DOMAIN call[w].staged
          /\ \A u \in DOMAIN cache' :
                 cache'[u] = IF u \in DOMAIN call[w].staged
                             THEN [data |-> call[w].staged[u], fresh |-> TRUE] ELSE cache[u]
      BY <1>2 DEF Committed, Upsert
    <2> SUFFICES ASSUME NEW u \in DOMAIN cache' \cap Undisturbed, NEW f \in Field
                 PROVE  cache'[u].data[f] >= acked[u][f]
      BY <1>2, <1>4 DEF CacheKnows
    <2>2. CASE u \in DOMAIN call[w].staged
      <3>1. Says(w, u, f, acked[u][f])
        BY DEF CacheInv, HolderKnows
      <3>2. call[w].staged[u][f] >= acked[u][f]
        BY <2>2, <3>1 DEF Says
      <3>3. cache'[u] = [data |-> call[w].staged[u], fresh |-> TRUE]
        BY <2>1, <2>2
      <3>4. cache'[u].data = call[w].staged[u]
        BY ONLY <3>3
      <3> QED
        BY Zenon, <3>2, <3>4
    <2>3. CASE u \notin DOMAIN call[w].staged
      BY <2>1, <2>3 DEF CacheInv, CacheKnows
    <2> QED
      BY <2>2, <2>3
  <1>8. ASSUME NEW x \in Worker PROVE HolderKnows(x)'
    <2> SUFFICES ASSUME NEW u \in Undisturbed, NEW f \in Field
                 PROVE  Says(x, u, f, acked[u][f])'
      BY <1>4 DEF HolderKnows
    <2>1. PICK n : n = acked[u][f]
      OBVIOUS
    <2>2. Says(x, u, f, n)'
      BY <1>6, <2>1 DEF CacheInv, HolderKnows
    <2> QED
      BY <1>2, <2>1, <2>2 DEF Says
  <1>9. ASSUME NEW x \in Worker, NEW y \in Worker PROVE HolderFollows(x, y)'
    <2> SUFFICES ASSUME Pending(y)', call'[y].video \in Undisturbed
                 PROVE  Says(x, call[y].video, call[y].field, call[y].total)'
      BY <1>4 DEF HolderFollows
    <2>1. y # w
      BY <1>5
    <2>2. call'[y] = call[y] /\ Pending(y)
      BY <1>2, <2>1, SameCall DEF OthersWait
    <2>3. PICK u, f, n : u = call[y].video /\ f = call[y].field /\ n = call[y].total
      OBVIOUS
    <2>4. Says(x, u, f, n)
      BY <2>2, <2>3 DEF CacheInv, HolderFollows
    <2>5. Says(x, u, f, n)'
      BY <1>6, <2>4
    <2> QED
      BY <2>2, <2>3, <2>5 DEF Says
  <1>10. \A x \in Worker : StagedInRow(x)'
    BY <1>2, <1>5 DEF OthersWait, CacheInv, StagedInRow
  <1> QED
    BY <1>7, <1>8, <1>9, <1>10 DEF CacheInv

(* Every step of the system keeps the cache up with the updates.           *)
LEMMA NextCache ==
  ASSUME VideosInv, BasicsOK, CacheInv, [Next]_vars
  PROVE  CacheInv'
  <1>1. ASSUME NEW w \in Worker, Acts(w) PROVE CacheInv'
    <2> SUFFICES ASSUME faults' = 0 PROVE CacheInv'
      BY DEF CacheInv
    <2>1. /\ faults = 0
          /\ ~CallFails(w) /\ ~ReadBreaksOff(w)
          /\ ~WriteUnanswered(w) /\ ~CommitUnanswered(w)
      BY <1>1, FaultsGrow DEF BasicsOK
    <2>2. CASE \E r \in Request : Accept(w, r)
      BY <2>1, <2>2, AcceptIsCalm, CalmKeeps
    <2>3. CASE \/ Answer(w) \/ Lookup(w) \/ FetchExisting(w) \/ WriteRefused(w) \/ Insert(w)
               \/ Search(w) \/ DeadlockVictim(w) \/ Count(w) \/ Select(w)
      BY <2>1, <2>3, ReadIsCalm, CalmKeeps
    <2>4. CASE Fetch(w)
      BY <2>1, <2>4, FetchIsCalm, CalmKeeps
    <2>5. CASE Details(w)
      BY <2>1, <2>5, DetailsIsCalm, CalmKeeps
    <2>6. CASE Row(w)
      BY <2>1, <2>6, RowIsCalm, CalmKeeps
    <2>7. CASE Store(w)
      BY <2>1, <2>7, StoreKeepsCache
    <2>8. CASE Write(w)
      BY <2>1, <2>8, WriteKeepsCache
    <2>9. CASE Commit(w)
      BY <2>1, <2>9, CommitKeepsCache
    <2> QED
      BY <1>1, <2>1, <2>2, <2>3, <2>4, <2>5, <2>6, <2>7, <2>8, <2>9 DEF Acts, Serve
  <1>2. ASSUME call' = call, DOMAIN cache' = DOMAIN cache,
               UNCHANGED <<acked, raced, outdated, faults>>,
               \A v \in DOMAIN cache : cache'[v].data = cache[v].data
        PROVE  CacheInv'
    <2>1. Undisturbed' = Undisturbed
      BY <1>2 DEF Undisturbed
    <2> QED
      BY <1>2, <2>1
      DEF CacheInv, CacheKnows, HolderKnows, HolderFollows, StagedInRow, Says, Pending
  <1> QED
    BY <1>1, <1>2, StepIs

(* As long as no call fails, what the cache answers contains every update  *)
(* of the video that was acknowledged (GetVideoDetails and UpdateVideo in  *)
(* youtube_usecase.go), unless two requests were updating the video or one *)
(* was about to store it when it changed.                                  *)
THEOREM CacheShowsUpdates == Spec => []CacheFollowsUpdates
  <1>1. Init => CacheInv
    BY InitCache
  <1>2. VideosInv /\ BasicsOK /\ CacheInv /\ [Next]_vars => CacheInv'
    BY NextCache
  <1>3. BasicsOK /\ CacheInv => CacheFollowsUpdates
    BY DEF BasicsOK, CacheInv, CacheKnows, Undisturbed, Fresh, CacheFollowsUpdates
  <1> QED
    BY <1>1, <1>2, <1>3, VideosInvariance, RequestsFollowTheirPath, PTL DEF Spec

-------------------------------------------------------------------------------
(* Row locks.                                                              *)

(* Rows are locked by transactions that are upserting or whose request is  *)
(* about to end, and a row by one of them.                                 *)
LocksOK ==
    /\ \A w \in Worker :
           DOMAIN call[w].staged # {} => call[w].pc \in {"row", "answer"}
    /\ \A w, x \in Worker :
           DOMAIN call[w].staged \cap DOMAIN call[x].staged # {} => w = x

(* The row w needs next.                                                   *)
Needs(w, v) ==
    \/ call[w].pc \in {"store", "again"} /\ v = call[w].video
    \/ call[w].pc = "row" /\ call[w].page # <<>> /\ v = Head(call[w].page).id

WaitsFor(w, x) == \E v \in DOMAIN call[x].staged : x # w /\ Needs(w, v)

(* The guards of Serve: only a locked row keeps a request, and PostgreSQL  *)
(* takes one out of a circle.                                              *)
Circle(S) == \A x \in S : \E y \in S \ {x} : Waits(x, y)

CanGoOn(w) ==
    /\ call[w].pc # "idle"
    /\ \/ \A x \in Worker : ~WaitsFor(w, x)
       \/ \E S \in SUBSET Worker : w \in S /\ Circle(S)

(* Among requests that wait for no others than themselves, one can go on.  *)
EveryWaitEnds ==
    \A S \in SUBSET Worker :
        /\ S # {}
        /\ \A w \in S : call[w].pc # "idle"
        /\ \A w \in S, x \in Worker : WaitsFor(w, x) => x \in S
        => \E w \in S : CanGoOn(w)

(* A request keeps the locks it has, or gives them all back, and a step    *)
(* that takes one is of an upsert and finds the row unlocked.              *)
LEMMA LockSteps ==
  ASSUME VideosInv, BasicsOK, LocksOK, NEW w \in Worker, Acts(w)
  PROVE  \/ DOMAIN call'[w].staged = {}
         \/ /\ DOMAIN call'[w].staged = DOMAIN call[w].staged
            /\ call'[w].pc \in {"row", "answer"}
         \/ /\ call'[w].pc = "row"
            /\ \E v : /\ DOMAIN call'[w].staged = DOMAIN call[w].staged \cup {v}
                      /\ ~Locked(w, v)
  <1>1. /\ DOMAIN call[w] = Parts /\ DOMAIN call = Worker /\ DOMAIN NoRows = {}
        /\ call[w].pc \notin {"row", "answer"} => DOMAIN call[w].staged = {}
    BY DEF VideosInv, CallOK, NoRows, LocksOK
  <1>2. CASE \E r \in Request : Accept(w, r)
    <2> PICK r \in Request : Accept(w, r)
      BY <1>2
    <2> DEFINE c == [Idle EXCEPT !.op = r.op, !.pc = FirstCall[r.op],
                        !.video = r.video, !.field = r.field, !.all = r.all,
                        !.newest = r.newest]
    <2>1. call' = [call EXCEPT ![w] = c]
      BY DEF Accept
    <2>2. c.staged = NoRows
      BY DEF Idle
    <2> HIDE DEF c
    <2>3. call'[w] = c
      BY <2>1, NewCall
    <2> QED
      BY <1>1, <2>2, <2>3
  <1>3. CASE Answer(w)
    <2>1. call'[w].staged = NoRows
      BY <1>1, <1>3 DEF Answer, Idle
    <2> QED
      BY <1>1, <2>1
  <1>4. CASE \/ Lookup(w) \/ Fetch(w) \/ FetchExisting(w) \/ Write(w) \/ WriteRefused(w)
             \/ Insert(w) \/ Search(w) \/ Details(w) \/ Count(w) \/ Reads(w)
             \/ WriteUnanswered(w)
    <2>1. call[w].pc \in {"lookup", "fetch", "existing", "write", "insert", "search",
                          "details", "count", "select"}
      BY <1>4
      DEF Lookup, Fetch, FetchExisting, Write, WriteRefused, Insert, Search, Details,
          Count, Reads, Select, ReadBreaksOff, WriteUnanswered
    <2>2. CASE \/ Lookup(w) \/ Fetch(w) \/ FetchExisting(w) \/ Write(w) \/ WriteRefused(w)
               \/ Insert(w)
      <3>1. call'[w].staged = call[w].staged
        BY <1>1, <2>2
        DEF Lookup, Fetch, FetchExisting, Write, WriteRefused, Insert, Goto, Fail, Parts, Idle
      <3> QED
        BY <1>1, <2>1, <3>1
    <2>3. CASE Search(w) \/ Count(w) \/ Reads(w)
      <3>1. call'[w].staged = call[w].staged
        <4>1. CASE Search(w)
          BY <1>1, <4>1 DEF Search, Parts, Idle
        <4>2. CASE Count(w)
          BY <1>1, <4>2 DEF Count, Parts, Idle
        <4>3. CASE Reads(w)
          BY <1>1, <4>3, ReadIs
        <4> QED
          BY <2>3, <4>1, <4>2, <4>3
      <3> QED
        BY <1>1, <2>1, <3>1
    <2>4. CASE Details(w) \/ WriteUnanswered(w)
      <3>1. call'[w].staged = call[w].staged
        <4>1. CASE Details(w)
          BY <1>1, <4>1 DEF Details, Parts, Idle
        <4>2. CASE WriteUnanswered(w)
          BY <1>1, <4>2 DEF WriteUnanswered, Fail, Parts, Idle
        <4> QED
          BY <2>4, <4>1, <4>2
      <3> QED
        BY <1>1, <2>1, <3>1
    <2> QED
      BY <1>4, <2>2, <2>3, <2>4
  <1>5. CASE Store(w)
    <2>1. call[w].pc \in {"store", "again"}
      BY <1>5 DEF Store
    <2>2. call'[w].staged = call[w].staged
      BY <1>1, <1>5 DEF Store, Goto, Parts, Idle
    <2> QED
      BY <1>1, <2>1, <2>2
  <1>6. CASE Row(w)
    <2> DEFINE r == Head(call[w].page)
               new == [v \in {r.id} |-> r.data]
    <2>1. /\ call[w].pc = "row" /\ ~Locked(w, r.id)
          /\ call'[w].staged = Upsert(call[w].staged, new) /\ call'[w].pc = "row"
      BY <1>1, <1>6 DEF Row, Parts, Idle
    <2>2. DOMAIN Upsert(call[w].staged, new) = DOMAIN call[w].staged \cup {r.id}
      BY DEF Upsert
    <2> HIDE DEF r, new
    <2> QED
      BY <2>1, <2>2
  <1>7. CASE Commit(w) \/ CommitUnanswered(w) \/ DeadlockVictim(w)
    <2>1. TurnPage(w).staged = NoRows
      BY <1>1 DEF TurnPage, Parts, Idle
    <2>2. CASE Commit(w)
      BY <1>1, <2>1, <2>2, NewCall DEF Commit
    <2>3. CASE CommitUnanswered(w) \/ DeadlockVictim(w)
      <3>1. call'[w].staged = NoRows
        BY <1>1, <2>3 DEF CommitUnanswered, DeadlockVictim, Parts, Idle
      <3> QED
        BY <1>1, <3>1
    <2> QED
      BY <1>7, <2>2, <2>3
  <1>8. CASE CallFails(w)
    <2>1. CASE call[w].pc # "row"
      <3>1. call[w].pc \notin {"row", "answer"}
        BY <1>8, <2>1 DEF CallFails
      <3>2. call'[w].staged = call[w].staged
        BY <1>1, <1>8, <2>1 DEF CallFails, Goto, Fail, Parts, Idle
      <3> QED
        BY <1>1, <3>1, <3>2
    <2>2. CASE call[w].pc = "row"
      <3>1. UpsertFails(w)
        BY <1>8, <2>2 DEF CallFails
      <3>2. /\ call'[w].pc = "answer"
            /\ call'[w].staged = NoRows \/ call'[w].staged = call[w].staged
        BY <1>1, <3>1 DEF UpsertFails, Parts, Idle
      <3> QED
        BY <1>1, <3>2
    <2> QED
      BY <2>1, <2>2
  <1> QED
    BY <1>2, <1>3, <1>4, <1>5, <1>6, <1>7, <1>8 DEF Acts, Serve, Reads

(* Every step leaves a row locked by one transaction at most, that of a    *)
(* request that goes on to end it.                                         *)
LEMMA NextLocks ==
  ASSUME VideosInv, BasicsOK, LocksOK, [Next]_vars
  PROVE  LocksOK'
  <1>1. ASSUME NEW w \in Worker, Acts(w) PROVE LocksOK'
    <2>1. \A x \in Worker \ {w} : call'[x] = call[x]
      BY <1>1, ActsPath DEF BasicsOK, OthersWait
    <2>2. \/ DOMAIN call'[w].staged = {}
          \/ /\ DOMAIN call'[w].staged = DOMAIN call[w].staged
             /\ call'[w].pc \in {"row", "answer"}
          \/ /\ call'[w].pc = "row"
             /\ \E v : /\ DOMAIN call'[w].staged = DOMAIN call[w].staged \cup {v}
                       /\ ~Locked(w, v)
      BY <1>1, LockSteps
    <2>3. /\ DOMAIN call'[w].staged # {} => call'[w].pc \in {"row", "answer"}
          /\ \A x \in Worker \ {w} :
                 DOMAIN call'[w].staged \cap DOMAIN call[x].staged = {}
      BY <2>2 DEF LocksOK, Locked
    <2>4. ASSUME NEW x \in Worker, DOMAIN call'[x].staged # {}
          PROVE  call'[x].pc \in {"row", "answer"}
      <3>1. CASE x = w
        BY <2>3, <2>4, <3>1
      <3>2. CASE x # w
        BY <2>1, <2>4, <3>2 DEF LocksOK
      <3> QED
        BY <3>1, <3>2
    <2>5. ASSUME NEW x \in Worker, NEW y \in Worker, x # y
          PROVE  DOMAIN call'[x].staged \cap DOMAIN call'[y].staged = {}
      <3>1. CASE x = w
        BY <2>1, <2>3, <2>5, <3>1
      <3>2. CASE y = w
        BY <2>1, <2>3, <2>5, <3>2
      <3>3. CASE x # w /\ y # w
        BY <2>1, <2>5, <3>3 DEF LocksOK
      <3> QED
        BY <3>1, <3>2, <3>3
    <2> QED
      BY <2>4, <2>5 DEF LocksOK
  <1>2. ASSUME call' = call PROVE LocksOK'
    BY <1>2 DEF LocksOK
  <1> QED
    BY <1>1, <1>2, StepIs

(* Requests cannot wait for each other's rows for good, however many there *)
(* are, whatever fails and wherever in UpsertVideos it does                *)
(* (youtube_cache_repository.go:140-176): whoever has locked a row is      *)
(* upserting or about to answer, which ends its transaction, and a circle  *)
(* of such requests has a victim.                                          *)
THEOREM WaitsForRowsEnd == Spec => []EveryWaitEnds
  <1>1. Init => LocksOK
    <2> SUFFICES ASSUME Init PROVE LocksOK
      OBVIOUS
    <2>1. \A w \in Worker : call[w].staged = NoRows
      BY DEF Init, Idle
    <2>2. DOMAIN NoRows = {}
      BY DEF NoRows
    <2> QED
      BY <2>1, <2>2 DEF LocksOK
  <1>2. VideosInv /\ BasicsOK /\ LocksOK /\ [Next]_vars => LocksOK'
    BY NextLocks
  <1>3. LocksOK => EveryWaitEnds
    <2> SUFFICES ASSUME LocksOK, NEW S \in SUBSET Worker, S # {},
                        \A w \in S : call[w].pc # "idle",
                        \A w \in S, x \in Worker : WaitsFor(w, x) => x \in S,
                        \A w \in S : ~CanGoOn(w)
                 PROVE  FALSE
      BY DEF EveryWaitEnds
    <2> DEFINE R == {w \in S : call[w].pc = "row"}
    <2>1. ASSUME NEW w \in S PROVE \E x \in R : x # w /\ WaitsFor(w, x)
      <3>1. PICK x \in Worker : WaitsFor(w, x)
        BY DEF CanGoOn
      <3>2. x \in S /\ x # w /\ DOMAIN call[x].staged # {}
        BY <3>1 DEF WaitsFor
      <3>3. call[x].pc \in {"row", "answer"}
        BY <3>2 DEF LocksOK
      <3>4. call[x].pc # "answer"
        BY <3>2 DEF CanGoOn, WaitsFor, Needs
      <3> QED
        BY <3>1, <3>2, <3>3, <3>4
    <2>2. ASSUME NEW x \in R PROVE \E y \in R \ {x} : Waits(x, y)
      <3>1. PICK y \in R : y # x /\ WaitsFor(x, y)
        BY <2>1
      <3>2. Waits(x, y)
        BY <3>1 DEF WaitsFor, Needs, Waits
      <3> QED
        BY <3>1, <3>2
    <2>3. R \in SUBSET Worker /\ Circle(R)
      BY <2>2 DEF Circle
    <2>4. PICK w \in R : TRUE
      BY <2>1
    <2> HIDE DEF R
    <2>5. CanGoOn(w)
      <3>1. w \in S
        BY DEF R
      <3> QED
        BY <2>3, <2>4, <3>1 DEF CanGoOn
    <2> QED
      BY <2>5 DEF R
  <1> QED
    BY <1>1, <1>2, <1>3, VideosInvariance, RequestsFollowTheirPath, PTL DEF Spec
===============================================================================
