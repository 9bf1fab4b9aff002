--------------------------- MODULE PageCacheProofs ---------------------------
(***************************************************************************)
(* Proofs about PageCache, for any pages, threads and bounds: the types,   *)
(* the counting of changed frames, that reads are current, and that the    *)
(* cache implements PageMap.                                               *)
(***************************************************************************)
EXTENDS PageCache, FiniteSetTheorems, TLAPS

-----------------------------------------------------------------------------
(* The inductive invariant                                                 *)

InCall(th) == op[th].at # "idle"
Allocates(th, p) == InCall(th) /\ op[th].kind = "allocate" /\ op[th].page = p
Allocating(p) == \E th \in Thread : Allocates(th, p)

\* No two pages share a frame; a free page is nowhere.
FramesApart ==
    /\ \A p, q \in Page : Resident(p) /\ directory[p] = directory[q] => p = q
    /\ \A p \in free : ~Resident(p) /\ ~Spilled(p)

\* A page has one latest copy: in memory, in the spill, or in the image.
OneLatestCopy == \A p \in Page :
    /\ spill[p].gen <= generation
    /\ Spilled(p) => ~Resident(p) /\ spill[p].val \in Value
    /\ Resident(p) /\ ~dirty[directory[p]] => image[p] = data[directory[p]]
    /\ ~Resident(p) /\ ~Spilled(p) /\ p \notin free /\ ~Allocating(p) => image[p] \in Value

\* A frame in a thread's hands is, if it is registered at all, registered for the thread's
\* own page; while it is latched it stays registered.
Holds(th, c) ==
    /\ IF c.at \in {"frame", "latched"}
       THEN c.frame \in Frame /\ \A q \in Page : directory[q] = c.frame => q = c.page
       ELSE c.frame = NoFrame
    /\ c.at = "latched" => /\ c.kind # "read"
                           /\ directory[c.page] = c.frame /\ latch[c.frame] = {th}

\* What a thread takes to insert_frame: its own content, the image's copy, or the spilled
\* copy of the generation it remembers.
Carries(c) ==
    IF c.at \in {"room", "insert"}
    THEN \/ c.from = "fresh" /\ c.kind \in {"write", "allocate"} /\ c.copy = c.val
         \/ /\ c.from = "image" /\ c.kind \in {"read", "modify"}
            /\ c.copy = image[c.page] /\ c.copy \in Value
         \/ /\ c.from = "spill" /\ c.kind \in {"read", "modify"} /\ c.copy \in Value
            /\ c.gen \in 1..generation
            /\ spill[c.page].gen = c.gen => spill[c.page].val = c.copy
    ELSE c.from = "fresh" /\ c.copy = c.val

CallOK(th, c) ==
    /\ Holds(th, c) /\ Carries(c)
    /\ c.page \notin free
    /\ c.kind = "allocate" => /\ c.at \in {"room", "insert"}
                              /\ ~Resident(c.page) /\ ~Spilled(c.page)
    /\ c.kind # "read" => c.val \in Value
    /\ c.at = "load" => c.kind \in {"read", "modify"} /\ image[c.page] \in Value

CallsOK == \A th \in Thread : InCall(th) => CallOK(th, op[th])

\* A latch belongs to the thread that holds it.
LatchesOwned == \A f \in Frame : \A th \in latch[f] : op[th].at = "latched" /\ op[th].frame = f

\* A page being allocated is in that call alone.
AllocatedAlone == \A th, u \in Thread :
    InCall(u) /\ Allocates(th, op[u].page) => u = th

CacheInv == FramesApart /\ OneLatestCopy /\ CallsOK /\ LatchesOwned /\ AllocatedAlone
StoreInv == TypeOK /\ CacheInv /\ DirtyCounted

\* Each thread has seen what its page holds now, and what the frame in its hands holds.
SeenInv == /\ ~misread
           /\ \A th \in Thread : InCall(th) =>
                /\ Content[op[th].page] \in seen[th]
                /\ op[th].at \in {"frame", "latched"} => data[op[th].frame] \in seen[th]

-----------------------------------------------------------------------------
(* Calls                                                                   *)

\* The thread that moves is at its new step, the others are where they were (Goes).
LEMMA GoesEffect ==
    ASSUME TypeOK, NEW th \in Thread, NEW c \in Calls \cup {Idle}, Goes(th, c)
    PROVE  /\ op' \in [Thread -> Calls \cup {Idle}]
           /\ op'[th] = c
           /\ \A u \in Thread : u # th => op'[u] = op[u]
  BY DEF TypeOK, Goes

\* A thread that is not idle is in a call; an idle one is not.
LEMMA CallOrIdle ==
    ASSUME TypeOK, NEW th \in Thread
    PROVE  /\ InCall(th) => op[th] \in Calls
           /\ ~InCall(th) => op[th] = Idle
           /\ Idle.at = "idle" /\ \A c \in Calls : c.at # "idle" /\ c # Idle
  BY DEF TypeOK, InCall, Idle, Calls

\* A call as it begins, or begins again.
LEMMA BusyCall ==
    ASSUME NEW at \in {"lookup", "room"}, NEW kind \in {"read", "write", "modify", "allocate"},
           NEW p \in Page, NEW v \in Value \cup {NoPage}
    PROVE  /\ Busy(at, kind, p, v) \in Calls
           /\ Busy(at, kind, p, v).at = at /\ Busy(at, kind, p, v).kind = kind
           /\ Busy(at, kind, p, v).page = p /\ Busy(at, kind, p, v).val = v
           /\ Busy(at, kind, p, v).copy = v /\ Busy(at, kind, p, v).frame = NoFrame
           /\ Busy(at, kind, p, v).from = "fresh" /\ Busy(at, kind, p, v).gen = 0
           /\ Busy(at, kind, p, v).victim = {}
  BY DEF Busy, Calls

\* A step inside a call that changes nothing but where the call is keeps the invariant
\* when the call is well-formed there.
LEMMA WithinCall ==
    ASSUME StoreInv, NEW th \in Thread, NEW c \in Calls, UNCHANGED storeVars, Goes(th, c),
           InCall(th), c.kind = op[th].kind, c.page = op[th].page,
           op[th].at # "latched", CallOK(th, c)
    PROVE  CacheInv'
  <1>1. /\ op'[th] = c /\ \A u \in Thread : u # th => op'[u] = op[u]
    BY GoesEffect DEF StoreInv
  <1>2. \A u \in Thread : (InCall(u))' <=> InCall(u)
    BY <1>1, CallOrIdle DEF StoreInv, InCall
  <1>3. \A u \in Thread, p \in Page : Allocates(u, p)' <=> Allocates(u, p)
    BY <1>1, <1>2 DEF Allocates
  <1>4. FramesApart' /\ OneLatestCopy'
    BY <1>3 DEF StoreInv, CacheInv, FramesApart, OneLatestCopy, Allocating, Resident, Spilled,
                storeVars
  <1>5. CallsOK'
    <2> SUFFICES ASSUME NEW u \in Thread, InCall(u)'
                 PROVE  CallOK(u, op[u])'
      BY DEF CallsOK
    <2>1. CallOK(u, op'[u])
      BY <1>1, <1>2 DEF StoreInv, CacheInv, CallsOK
    <2> QED
      BY <2>1 DEF CallOK, Holds, Carries, Resident, Spilled, storeVars
  <1>6. LatchesOwned'
    BY <1>1 DEF StoreInv, CacheInv, LatchesOwned, storeVars, TypeOK
  <1>7. AllocatedAlone'
    BY <1>1, <1>2, <1>3 DEF StoreInv, CacheInv, AllocatedAlone, TypeOK, Allocates
  <1> QED
    BY <1>4, <1>5, <1>6, <1>7 DEF CacheInv

-----------------------------------------------------------------------------
(* The steps that only move a call                                         *)

\* Lookup, loading, choosing a victim and being refused move the call and nothing else
\* (locate, read_page, make_room, insert_frame).
LEMMA MoveKeeps ==
    ASSUME StoreInv, NEW th \in Thread,
           \/ FindFrame(th) \/ FindSpilled(th) \/ FindNothing(th) \/ Load(th) \/ FindNoFrame(th)
           \/ RoomEnds(th) \/ EvictSpillFails(th) \/ InsertRefused(th)
           \/ \E p \in Page : PickVictim(th, p)
    PROVE  /\ CacheInv' /\ op' \in [Thread -> Calls \cup {Idle}]
           /\ InCall(th)' /\ op'[th].page = op[th].page /\ op'[th].kind = op[th].kind
           /\ op'[th].val = op[th].val
           /\ \A u \in Thread : u # th => op'[u] = op[u]
           /\ op'[th].at # "latched"
           /\ op'[th].at = "frame" => /\ op'[th].frame = directory[op[th].page]
                                      /\ Resident(op[th].page)
  <1> USE PageCacheAssumption
  <1> DEFINE Moved(c) == /\ c \in Calls /\ Goes(th, c) /\ UNCHANGED storeVars
                         /\ c.kind = op[th].kind /\ c.page = op[th].page /\ c.val = op[th].val
                         /\ c.at # "latched" /\ CallOK(th, c)
                         /\ c.at = "frame" => c.frame = directory[c.page] /\ Resident(c.page)
  <1>0. InCall(th) /\ op[th].at # "latched"
    BY DEF InCall, FindFrame, FindSpilled, FindNothing, Load, FindNoFrame, RoomEnds,
           EvictSpillFails, InsertRefused, PickVictim
  <1>1. op[th] \in Calls /\ CallOK(th, op[th])
    BY <1>0, CallOrIdle DEF StoreInv, CacheInv, CallsOK
  <1>2. SUFFICES \E c : Moved(c)
    <2>1. PICK c : Moved(c)
      BY <1>2
    <2>2. op' \in [Thread -> Calls \cup {Idle}] /\ op'[th] = c
          /\ \A u \in Thread : u # th => op'[u] = op[u]
      BY <2>1, GoesEffect DEF StoreInv
    <2>3. CacheInv'
      BY <1>0, <2>1, WithinCall
    <2>4. InCall(th)'
      BY <2>1, <2>2 DEF InCall, Calls
    <2> QED
      BY <2>1, <2>2, <2>3, <2>4
  <1>3. CASE FindFrame(th)
    <2> DEFINE c == [op[th] EXCEPT !.at = "frame", !.frame = directory[op[th].page]]
    <2>1. c \in Calls /\ c.kind = op[th].kind /\ c.page = op[th].page /\ c.val = op[th].val
          /\ c.at = "frame" /\ c.frame = directory[c.page] /\ c.from = op[th].from
          /\ c.copy = op[th].copy /\ c.frame \in Frame
      BY <1>1, <1>3 DEF FindFrame, Calls, Resident, StoreInv, TypeOK
    <2>2. CallOK(th, c)
      BY <1>1, <1>3, <2>1 DEF CallOK, Holds, Carries, FindFrame, Resident, StoreInv, CacheInv,
                              FramesApart, Calls, Spilled
    <2> QED
      BY <1>3, <2>1, <2>2 DEF FindFrame
  <1>4. CASE FindSpilled(th)
    <2> DEFINE p == op[th].page
               c == [op[th] EXCEPT !.at = "room", !.from = "spill",
                                   !.gen = spill[p].gen, !.copy = spill[p].val]
    <2>0. p \in Page /\ spill[p].gen \in Nat \cap 1..generation /\ spill[p].val \in Value
      BY <1>1, <1>4 DEF FindSpilled, Calls, Spilled, StoreInv, TypeOK, CacheInv, OneLatestCopy
    <2>1. c \in Calls /\ c.kind = op[th].kind /\ c.page = op[th].page /\ c.val = op[th].val
          /\ c.at = "room" /\ c.frame = op[th].frame /\ c.from = "spill"
          /\ c.gen = spill[p].gen /\ c.copy = spill[p].val
      BY <1>1, <2>0 DEF Calls
    <2>2. CallOK(th, c)
      BY <1>1, <1>4, <2>0, <2>1 DEF CallOK, Holds, Carries, FindSpilled
    <2> QED
      BY <1>4, <2>1, <2>2 DEF FindSpilled
  <1>5. CASE FindNothing(th)
    <2> DEFINE c == [op[th] EXCEPT !.at = "load"]
    <2>1. c \in Calls /\ c.kind = op[th].kind /\ c.page = op[th].page /\ c.val = op[th].val
          /\ c.at = "load" /\ c.frame = op[th].frame /\ c.from = op[th].from
          /\ c.copy = op[th].copy
      BY <1>1, <1>5 DEF FindNothing, Calls
    <2>2. op[th].page \in Page /\ op[th].page \notin free /\ ~Allocating(op[th].page)
      BY <1>0, <1>1, <1>5 DEF FindNothing, StoreInv, CacheInv, AllocatedAlone, Allocating,
                              Allocates, CallOK, Calls
    <2>3. image[op[th].page] \in Value
      BY <2>2, <1>5 DEF FindNothing, StoreInv, CacheInv, OneLatestCopy
    <2>4. CallOK(th, c)
      BY <1>1, <1>5, <2>1, <2>3 DEF CallOK, Holds, Carries, FindNothing
    <2> QED
      BY <1>5, <2>1, <2>4 DEF FindNothing
  <1>6. CASE Load(th)
    <2> DEFINE c == [op[th] EXCEPT !.at = "room", !.from = "image", !.copy = image[op[th].page]]
    <2>1. c \in Calls /\ c.kind = op[th].kind /\ c.page = op[th].page /\ c.val = op[th].val
          /\ c.at = "room" /\ c.frame = op[th].frame /\ c.from = "image"
          /\ c.copy = image[op[th].page]
      BY <1>1, <1>6 DEF Load, Calls, StoreInv, TypeOK
    <2>2. CallOK(th, c)
      BY <1>1, <1>6, <2>1 DEF CallOK, Holds, Carries, Load
    <2> QED
      BY <1>6, <2>1, <2>2 DEF Load
  <1>7. CASE FindNoFrame(th)
    <2> DEFINE c == [op[th] EXCEPT !.at = "room"]
    <2>1. c \in Calls /\ c.kind = op[th].kind /\ c.page = op[th].page /\ c.val = op[th].val
          /\ c.at = "room" /\ c.frame = op[th].frame /\ c.from = op[th].from
          /\ c.copy = op[th].copy
      BY <1>1 DEF Calls
    <2>2. CallOK(th, c)
      BY <1>1, <1>7, <2>1 DEF CallOK, Holds, Carries, FindNoFrame
    <2> QED
      BY <1>7, <2>1, <2>2 DEF FindNoFrame
  <1>8. CASE RoomEnds(th)
    <2> DEFINE c == [op[th] EXCEPT !.at = "insert"]
    <2>1. c \in Calls /\ c.kind = op[th].kind /\ c.page = op[th].page /\ c.val = op[th].val
          /\ c.at = "insert" /\ c.frame = op[th].frame /\ c.from = op[th].from
          /\ c.copy = op[th].copy /\ c.gen = op[th].gen
      BY <1>1 DEF Calls
    <2>2. CallOK(th, c)
      BY <1>1, <1>8, <2>1 DEF CallOK, Holds, Carries, RoomEnds
    <2> QED
      BY <1>8, <2>1, <2>2 DEF RoomEnds
  <1>9. CASE EvictSpillFails(th)
    <2>0. PICK at \in {"room", "insert"} : Goes(th, [op[th] EXCEPT !.victim = {}, !.at = at])
      BY <1>9 DEF EvictSpillFails
    <2> DEFINE c == [op[th] EXCEPT !.victim = {}, !.at = at]
    <2>1. c \in Calls /\ c.kind = op[th].kind /\ c.page = op[th].page /\ c.val = op[th].val
          /\ c.at = at /\ c.frame = op[th].frame /\ c.from = op[th].from
          /\ c.copy = op[th].copy /\ c.gen = op[th].gen
      BY <1>1 DEF Calls
    <2>2. CallOK(th, c)
      BY <1>1, <1>9, <2>1 DEF CallOK, Holds, Carries, EvictSpillFails
    <2> QED
      BY <1>9, <2>0, <2>1, <2>2 DEF EvictSpillFails
  <1>10. CASE InsertRefused(th)
    <2> DEFINE c == Busy("lookup", op[th].kind, op[th].page, op[th].val)
    <2>1. c \in Calls /\ c.kind = op[th].kind /\ c.page = op[th].page /\ c.val = op[th].val
          /\ c.at = "lookup" /\ c.frame = NoFrame /\ c.from = "fresh" /\ c.copy = c.val
      BY <1>1, BusyCall DEF Calls
    <2>2. op[th].kind # "allocate"
      BY <1>1, <1>10 DEF InsertRefused, CallOK, Carries, Admits
    <2>3. CallOK(th, c)
      BY <1>1, <1>10, <2>1, <2>2 DEF CallOK, Holds, Carries
    <2> QED
      BY <1>10, <2>1, <2>3 DEF InsertRefused, Retries
  <1>11. CASE \E p \in Page : PickVictim(th, p)
    <2>0. PICK p \in Page : PickVictim(th, p)
      BY <1>11
    <2> DEFINE v == {[page |-> p, spill |-> dirty[directory[p]]]}
               c == [op[th] EXCEPT !.victim = v]
    <2>1. v \in SUBSET [page : Page, spill : BOOLEAN]
      BY <2>0 DEF PickVictim, Evictable, Resident, StoreInv, TypeOK
    <2>2. c \in Calls /\ c.kind = op[th].kind /\ c.page = op[th].page /\ c.val = op[th].val
          /\ c.at = op[th].at /\ c.frame = op[th].frame /\ c.from = op[th].from
          /\ c.copy = op[th].copy /\ c.gen = op[th].gen
      BY <1>1, <2>1 DEF Calls
    <2>3. CallOK(th, c)
      BY <1>1, <2>2 DEF CallOK, Holds, Carries
    <2> QED
      BY <2>0, <2>2, <2>3 DEF PickVictim
  <1> QED
    BY <1>3, <1>4, <1>5, <1>6, <1>7, <1>8, <1>9, <1>10, <1>11

-----------------------------------------------------------------------------
(* The steps that begin and end calls, and the frame's own path            *)

\* TypeOK, less what is derived from the other parts of the invariant.
StoreType ==
    /\ directory \in [Page -> Frame \cup {NoFrame}]
    /\ data \in [Frame -> Value] /\ dirty \in [Frame -> BOOLEAN]
    /\ latch \in [Frame -> SUBSET Thread]
    /\ spill \in [Page -> [val : Value \cup {NoPage}, gen : Nat]] /\ generation \in Nat
    /\ image \in [Page -> Value \cup {NoPage}] /\ free \in SUBSET Page
    /\ op \in [Thread -> Calls \cup {Idle}]
    /\ writes \in 0..MaxWrite /\ checkpoints \in Nat /\ frees \in Nat

\* No content is the mark of an id that is no one's.
LEMMA NoPageIsNone == NoPage \notin Value /\ Zero \in Value
  BY PageCacheAssumption DEF NoPage, Value, Zero

\* No frame is the mark of a page that has none.
LEMMA NoFrameIsNone == NoFrame \notin Frame
  <1>1. Cardinality(Page) + Cardinality(Thread) \in Nat
    BY PageCacheAssumption, FS_CardinalityType
  <1> QED
    BY <1>1 DEF NoFrame, Frame

\* The page map the store stands for holds a content for exactly the allocated pages.
LEMMA ContentIs ==
    ASSUME StoreInv, NEW p \in Page
    PROVE  /\ Content[p] = IF p \in free \/ Allocating(p) THEN NoPage ELSE Copy(p)
           /\ p \notin free /\ ~Allocating(p) => Content[p] \in Value
  <1>1. Content[p] = IF p \in free \/ Allocating(p) THEN NoPage ELSE Copy(p)
    BY DEF Content, Allocating, Allocates, Calling, InCall
  <1>2. p \notin free /\ ~Allocating(p) => Copy(p) \in Value
    BY DEF Copy, StoreInv, CacheInv, OneLatestCopy, TypeOK, Resident
  <1> QED
    BY <1>1, <1>2

\* A call begins on a page that is someone's, an allocation on one that is no one's
\* (read_page, write_page, modify_page, allocate_page).
LEMMA BeginKeeps ==
    ASSUME StoreInv, NEW th \in Thread, NEW p \in Page,
           \/ BeginRead(th, p)
           \/ \E kind \in {"write", "modify"} : BeginWrite(th, kind, p)
           \/ BeginAllocate(th, p)
    PROVE  CacheInv' /\ StoreType'
  <1> USE PageCacheAssumption, NoPageIsNone
  <1> DEFINE Begun(c) ==
        /\ c \in Calls /\ Goes(th, c) /\ op[th].at = "idle"
        /\ UNCHANGED <<directory, data, dirty, latch, spill, generation, image>>
        /\ c.page = p /\ c.frame = NoFrame /\ c.from = "fresh" /\ c.copy = c.val
        /\ c.kind # "read" => c.val \in Value
        /\ IF c.kind = "allocate"
           THEN c.at = "room" /\ p \in free /\ free' = free \ {p}
           ELSE c.at = "lookup" /\ p \notin free /\ ~Allocating(p) /\ free' = free
        /\ writes' \in 0..MaxWrite /\ UNCHANGED <<checkpoints, frees>>
  <1>1. \E c : Begun(c)
    <2>1. CASE BeginRead(th, p)
      <3> DEFINE c == Busy("lookup", "read", p, NoPage)
      <3>1. p \notin free /\ ~Allocating(p)
        BY <2>1, ContentIs DEF BeginRead
      <3>2. Begun(c)
        BY <2>1, <3>1, BusyCall DEF BeginRead, Begins, storeVars, boundVars, StoreInv, TypeOK
      <3> QED
        BY <3>2
    <2>2. ASSUME NEW kind \in {"write", "modify"}, BeginWrite(th, kind, p)
          PROVE  \E c : Begun(c)
      <3> DEFINE c == Busy("lookup", kind, p, writes + 1)
      <3>1. p \notin free /\ ~Allocating(p)
        BY <2>2, ContentIs DEF BeginWrite
      <3>2. writes + 1 \in Value
        BY <2>2 DEF BeginWrite, Value, StoreInv, TypeOK
      <3>3. Begun(c)
        BY <2>2, <3>1, <3>2, BusyCall DEF BeginWrite, Begins, storeVars, Value
      <3> QED
        BY <3>3
    <2>3. CASE BeginAllocate(th, p)
      <3> DEFINE c == Busy("room", "allocate", p, Zero)
      <3>1. Begun(c)
        BY <2>3, BusyCall DEF BeginAllocate, Begins, boundVars, StoreInv, TypeOK
      <3> QED
        BY <3>1
    <2> QED
      BY <2>1, <2>2, <2>3
  <1>2. PICK c : Begun(c)
    BY <1>1
  <1>3. op' \in [Thread -> Calls \cup {Idle}] /\ op'[th] = c
        /\ \A u \in Thread : u # th => op'[u] = op[u]
    BY <1>2, GoesEffect DEF StoreInv
  <1>4. \A u \in Thread : InCall(u)' <=> u = th \/ InCall(u)
    BY <1>2, <1>3, CallOrIdle DEF StoreInv, InCall
  <1>5. \A u \in Thread, q \in Page :
          Allocates(u, q)' <=> \/ Allocates(u, q)
                               \/ u = th /\ q = p /\ c.kind = "allocate"
    BY <1>2, <1>3, <1>4 DEF Allocates, InCall
  <1>6. \A u \in Thread : InCall(u) /\ op[u].page = p => c.kind # "allocate"
    BY <1>2 DEF StoreInv, CacheInv, CallsOK, CallOK
  <1>7. FramesApart'
    BY <1>2 DEF StoreInv, CacheInv, FramesApart, Resident, Spilled
  <1>8. OneLatestCopy'
    BY <1>2, <1>5 DEF StoreInv, CacheInv, OneLatestCopy, Allocating, Resident, Spilled
  <1>9. CallsOK'
    <2>1. CallOK(th, op[th])'
      BY <1>2, <1>3 DEF CallOK, Holds, Carries, StoreInv, CacheInv, FramesApart, Resident, Spilled
    <2>2. ASSUME NEW u \in Thread, u # th, InCall(u)
          PROVE  CallOK(u, op[u])'
      <3>1. CallOK(u, op[u]) /\ op'[u] = op[u] /\ free' \subseteq free
        BY <1>2, <1>3, <2>2 DEF StoreInv, CacheInv, CallsOK
      <3> QED
        BY <1>2, <3>1 DEF CallOK, Holds, Carries, Resident, Spilled
    <2> QED
      BY <1>4, <2>1, <2>2 DEF CallsOK
  <1>10. LatchesOwned'
    BY <1>2, <1>3 DEF StoreInv, CacheInv, LatchesOwned, TypeOK
  <1>11. AllocatedAlone'
    <2> SUFFICES ASSUME NEW t \in Thread, NEW u \in Thread, InCall(u)',
                        Allocates(t, op[u].page)'
                 PROVE  u = t
      BY DEF AllocatedAlone
    <2>1. op'[u].page \in Page
      BY <1>3, <1>4 DEF InCall, Calls, Idle
    <2>2. CASE u = th
      BY <1>2, <1>3, <1>5, <1>6, <2>1, <2>2 DEF Allocating, Allocates
    <2>3. CASE u # th
      BY <1>3, <1>4, <1>5, <1>6, <2>1, <2>3 DEF StoreInv, CacheInv, AllocatedAlone
    <2> QED
      BY <2>2, <2>3
  <1>12. StoreType'
    BY <1>2, <1>3 DEF StoreType, StoreInv, TypeOK
  <1> QED
    BY <1>7, <1>8, <1>9, <1>10, <1>11, <1>12 DEF CacheInv

\* A read ends under the frame's latch, a writer takes the latch or looks again, and what
\* it writes goes to a frame that is still registered (read_page, write_page, modify_page).
LEMMA FrameKeeps ==
    ASSUME StoreInv, NEW th \in Thread, ReadFrame(th) \/ LatchFrame(th) \/ WriteFrame(th)
    PROVE  CacheInv' /\ StoreType'
  <1> USE PageCacheAssumption, NoPageIsNone
  <1> DEFINE f == op[th].frame
  <1>1. op[th] \in Calls /\ InCall(th) /\ CallOK(th, op[th]) /\ f \in Frame
    BY CallOrIdle DEF InCall, ReadFrame, LatchFrame, WriteFrame, StoreInv, CacheInv, CallsOK,
                      CallOK, Holds
  <1>2. op[th].kind # "allocate"
    BY <1>1 DEF CallOK, ReadFrame, LatchFrame, WriteFrame
  <1>3. CASE LatchFrame(th) /\ ~Registered(op[th].page, f)
    <2> DEFINE c == Busy("lookup", op[th].kind, op[th].page, op[th].val)
    <2>1. c \in Calls /\ c.kind = op[th].kind /\ c.page = op[th].page /\ c.val = op[th].val
          /\ c.at = "lookup" /\ c.frame = NoFrame /\ c.from = "fresh" /\ c.copy = c.val
      BY <1>1, BusyCall DEF Calls
    <2>2. CallOK(th, c)
      BY <1>1, <1>2, <2>1 DEF CallOK, Holds, Carries
    <2>3. Goes(th, c) /\ UNCHANGED <<storeVars, boundVars>> /\ op[th].at = "frame"
      BY <1>3 DEF LatchFrame, Retries, storeVars, boundVars
    <2>4. CacheInv'
      BY <1>1, <2>1, <2>2, <2>3, WithinCall
    <2>5. op' \in [Thread -> Calls \cup {Idle}]
      BY <2>1, <2>3, GoesEffect DEF StoreInv
    <2> QED
      BY <2>3, <2>4, <2>5 DEF StoreType, StoreInv, TypeOK, storeVars, boundVars
  <1>4. CASE LatchFrame(th) /\ Registered(op[th].page, f)
    <2> DEFINE c == [op[th] EXCEPT !.at = "latched"]
    <2>1. c \in Calls /\ c.kind = op[th].kind /\ c.page = op[th].page /\ c.val = op[th].val
          /\ c.at = "latched" /\ c.frame = f /\ c.from = op[th].from /\ c.copy = op[th].copy
      BY <1>1 DEF Calls
    <2>2. op' \in [Thread -> Calls \cup {Idle}] /\ op'[th] = c
          /\ \A u \in Thread : u # th => op'[u] = op[u]
      BY <1>4, <2>1, GoesEffect DEF StoreInv, LatchFrame
    <2>3. /\ latch' = [latch EXCEPT ![f] = {th}] /\ latch[f] = {}
          /\ UNCHANGED <<directory, data, dirty, spill, generation, image, free, boundVars>>
          /\ op[th].kind # "read" /\ directory[op[th].page] = f /\ op[th].at = "frame"
      BY <1>4 DEF LatchFrame, Registered
    <2>4. \A u \in Thread : InCall(u)' <=> InCall(u)
      BY <1>1, <2>1, <2>2 DEF InCall
    <2>5. \A u \in Thread, q \in Page : Allocates(u, q)' <=> Allocates(u, q)
      BY <2>1, <2>2, <2>4 DEF Allocates
    <2>6. FramesApart' /\ OneLatestCopy'
      BY <2>3, <2>5 DEF StoreInv, CacheInv, FramesApart, OneLatestCopy, Allocating, Resident,
                        Spilled
    <2>7. CallsOK'
      <3>1. CallOK(th, op[th])'
        BY <1>1, <1>2, <2>1, <2>2, <2>3 DEF CallOK, Holds, Carries, StoreInv, TypeOK
      <3>2. ASSUME NEW u \in Thread, u # th, InCall(u)
            PROVE  CallOK(u, op[u])'
        <4>1. CallOK(u, op[u]) /\ op'[u] = op[u]
          BY <2>2, <3>2 DEF StoreInv, CacheInv, CallsOK
        <4>2. op[u].at = "latched" => latch'[op[u].frame] = latch[op[u].frame]
          BY <2>3, <4>1 DEF CallOK, Holds, StoreInv, TypeOK
        <4> QED
          BY <2>3, <4>1, <4>2 DEF CallOK, Holds, Carries, Resident, Spilled
      <3> QED
        BY <2>4, <3>1, <3>2 DEF CallsOK
    <2>8. LatchesOwned'
      <3> SUFFICES ASSUME NEW g \in Frame, NEW t \in latch'[g]
                   PROVE  op'[t].at = "latched" /\ op'[t].frame = g
        BY DEF LatchesOwned
      <3>1. CASE g = f
        BY <1>1, <2>1, <2>2, <2>3, <3>1 DEF StoreInv, TypeOK
      <3>2. CASE g # f
        BY <1>1, <2>2, <2>3, <3>2 DEF StoreInv, CacheInv, LatchesOwned, TypeOK
      <3> QED
        BY <3>1, <3>2
    <2>9. AllocatedAlone'
      <3>1. \A u \in Thread : InCall(u) => op'[u].page = op[u].page /\ op[u].page \in Page
        BY <2>1, <2>2, CallOrIdle DEF StoreInv, Calls
      <3> QED
        BY <2>4, <2>5, <3>1 DEF StoreInv, CacheInv, AllocatedAlone
    <2>10. StoreType'
      BY <1>1, <2>2, <2>3 DEF StoreType, StoreInv, TypeOK, boundVars
    <2> QED
      BY <2>6, <2>7, <2>8, <2>9, <2>10 DEF CacheInv
  <1>5. CASE ReadFrame(th) \/ WriteFrame(th)
    <2>1. op' \in [Thread -> Calls \cup {Idle}] /\ op'[th] = Idle
          /\ \A u \in Thread : u # th => op'[u] = op[u]
      BY <1>5, GoesEffect DEF StoreInv, ReadFrame, WriteFrame, Returns
    <2>2. \A u \in Thread : InCall(u)' <=> u # th /\ InCall(u)
      BY <2>1, CallOrIdle DEF StoreInv, InCall
    <2>3. \A u \in Thread, q \in Page : Allocates(u, q)' <=> Allocates(u, q)
      BY <1>2, <2>1, <2>2 DEF Allocates
    <2>4. UNCHANGED <<directory, spill, generation, image, free, boundVars>>
      BY <1>5 DEF ReadFrame, WriteFrame, storeVars
    <2>5. AllocatedAlone'
      BY <2>1, <2>2, <2>3 DEF StoreInv, CacheInv, AllocatedAlone, TypeOK, Allocates
    <2>6. CASE ReadFrame(th)
      <3>1. UNCHANGED <<latch, data, dirty>> /\ op[th].at = "frame"
        BY <2>6 DEF ReadFrame, storeVars
      <3>2. FramesApart' /\ OneLatestCopy'
        BY <2>3, <2>4, <3>1 DEF StoreInv, CacheInv, FramesApart, OneLatestCopy, Allocating,
                                Resident, Spilled
      <3>3. ASSUME NEW u \in Thread, u # th, InCall(u)
            PROVE  CallOK(u, op[u])'
        <4>1. CallOK(u, op[u]) /\ op'[u] = op[u]
          BY <2>1, <3>3 DEF StoreInv, CacheInv, CallsOK
        <4> QED
          BY <2>4, <3>1, <4>1 DEF CallOK, Holds, Carries, Resident, Spilled
      <3>4. CallsOK'
        BY <2>2, <3>3 DEF CallsOK
      <3>5. LatchesOwned'
        BY <2>1, <3>1 DEF StoreInv, CacheInv, LatchesOwned, TypeOK
      <3>6. StoreType'
        BY <2>1, <2>4, <3>1 DEF StoreType, StoreInv, TypeOK, boundVars
      <3> QED
        BY <2>5, <3>2, <3>4, <3>5, <3>6 DEF CacheInv
    <2>7. CASE WriteFrame(th)
      <3>1. /\ latch' = [latch EXCEPT ![f] = {}] /\ op[th].at = "latched"
            /\ data' = [data EXCEPT ![f] = op[th].val] /\ dirty' = [dirty EXCEPT ![f] = TRUE]
        BY <2>7 DEF WriteFrame
      <3>2. latch[f] = {th} /\ op[th].val \in Value
        BY <1>1, <3>1 DEF CallOK, Holds
      <3>3. StoreType'
        BY <1>1, <2>1, <2>4, <3>1, <3>2 DEF StoreType, StoreInv, TypeOK, boundVars
      <3>4. FramesApart'
        BY <2>4 DEF StoreInv, CacheInv, FramesApart, Resident, Spilled
      <3>5. OneLatestCopy'
        BY <1>1, <2>3, <2>4, <3>1 DEF StoreInv, CacheInv, OneLatestCopy, Allocating, Resident,
                                      Spilled, TypeOK
      <3>6. ASSUME NEW u \in Thread, u # th, InCall(u)
            PROVE  CallOK(u, op[u])'
        <4>1. CallOK(u, op[u]) /\ op'[u] = op[u]
          BY <2>1, <3>6 DEF StoreInv, CacheInv, CallsOK
        <4>2. op[u].at = "latched" => latch'[op[u].frame] = latch[op[u].frame]
          BY <3>1, <3>2, <3>6, <4>1 DEF CallOK, Holds, StoreInv, TypeOK
        <4> QED
          BY <2>4, <4>1, <4>2 DEF CallOK, Holds, Carries, Resident, Spilled
      <3>7. CallsOK'
        BY <2>2, <3>6 DEF CallsOK
      <3>8. LatchesOwned'
        BY <1>1, <2>1, <3>1, <3>2 DEF StoreInv, CacheInv, LatchesOwned, TypeOK
      <3> QED
        BY <2>5, <3>3, <3>4, <3>5, <3>7, <3>8 DEF CacheInv
    <2> QED
      BY <1>5, <2>6, <2>7
  <1> QED
    BY <1>3, <1>4, <1>5

-----------------------------------------------------------------------------
(* Frames leave and come in                                                *)

\* A frame leaves only when no latch covers it, and a changed one leaves its content behind
\* under a generation no thread remembers yet (evict, Spill::put).
LEMMA EvictKeeps ==
    ASSUME StoreInv, NEW th \in Thread, Evict(th)
    PROVE  /\ CacheInv' /\ StoreType'
           /\ InCall(th)' /\ op'[th].at = "room" /\ op'[th].page = op[th].page
           /\ op'[th].kind = op[th].kind /\ op'[th].val = op[th].val
           /\ \A u \in Thread : u # th => op'[u] = op[u]
  <1> USE PageCacheAssumption, NoPageIsNone
  <1> DEFINE c == [op[th] EXCEPT !.victim = {}]
  <1>1. op[th] \in Calls /\ InCall(th) /\ CallOK(th, op[th]) /\ op[th].at = "room"
    BY CallOrIdle DEF InCall, Evict, StoreInv, CacheInv, CallsOK
  <1>2. c \in Calls /\ c.kind = op[th].kind /\ c.page = op[th].page /\ c.val = op[th].val
        /\ c.at = "room" /\ c.frame = op[th].frame /\ c.from = op[th].from
        /\ c.copy = op[th].copy /\ c.gen = op[th].gen
    BY <1>1 DEF Calls
  <1>3. op' \in [Thread -> Calls \cup {Idle}] /\ op'[th] = c
        /\ \A u \in Thread : u # th => op'[u] = op[u]
    BY <1>2, GoesEffect DEF StoreInv, Evict
  <1>4. UNCHANGED <<data, dirty, latch, image, free, boundVars>> /\ Goes(th, c)
    BY DEF Evict
  <1>5. PICK v \in op[th].victim :
          IF Evictable(v.page) /\ (dirty[directory[v.page]] => v.spill)
          THEN SpillOut(v.page) /\ directory' = [directory EXCEPT ![v.page] = NoFrame]
          ELSE UNCHANGED <<directory, spill, generation, dirtyFrames>>
    BY DEF Evict
  <1> DEFINE q == v.page
  <1>6. q \in Page
    BY <1>1 DEF Calls
  <1>7. CallOK(th, c)
    BY <1>1, <1>2 DEF CallOK, Holds, Carries
  <1>8. CASE UNCHANGED <<directory, spill, generation, dirtyFrames>>
    <2>1. UNCHANGED storeVars
      BY <1>4, <1>8 DEF storeVars
    <2>2. CacheInv'
      BY <1>1, <1>2, <1>4, <1>7, <2>1, WithinCall
    <2>3. StoreType'
      BY <1>3, <1>4, <1>8 DEF StoreType, StoreInv, TypeOK, boundVars
    <2> QED
      BY <1>2, <1>3, <2>2, <2>3 DEF InCall
  <1>9. CASE Evictable(q) /\ SpillOut(q) /\ directory' = [directory EXCEPT ![q] = NoFrame]
    <2>1. Resident(q) /\ directory[q] \in Frame /\ latch[directory[q]] = {}
          /\ directory'[q] = NoFrame /\ \A p \in Page : p # q => directory'[p] = directory[p]
      BY <1>6, <1>9 DEF Evictable, Resident, StoreInv, TypeOK
    <2>2. /\ generation \in Nat /\ generation' \in Nat /\ generation <= generation'
          /\ \A p \in Page : p # q => spill'[p] = spill[p]
          /\ IF dirty[directory[q]]
             THEN /\ spill'[q].gen = generation + 1 /\ spill'[q].val = data[directory[q]]
                  /\ generation' = generation + 1
             ELSE spill' = spill /\ generation' = generation
      BY <1>6, <1>9 DEF SpillOut, StoreInv, TypeOK
    <2>3. data[directory[q]] \in Value /\ spill' \in [Page -> [val : Value \cup {NoPage}, gen : Nat]]
      BY <1>6, <1>9, <2>1 DEF SpillOut, StoreInv, TypeOK
    <2>4. StoreType'
      BY <1>3, <1>4, <1>6, <1>9, <2>2, <2>3 DEF StoreType, StoreInv, TypeOK, boundVars
    <2>5. \A u \in Thread : InCall(u)' <=> InCall(u)
      BY <1>1, <1>2, <1>3 DEF InCall
    <2>6. \A u \in Thread, p \in Page : Allocates(u, p)' <=> Allocates(u, p)
      BY <1>2, <1>3, <2>5 DEF Allocates
    <2>7. FramesApart'
      BY <1>4, <1>6, <2>1, <2>2 DEF StoreInv, CacheInv, FramesApart, Resident, Spilled, TypeOK
    <2>8. OneLatestCopy'
      <3> SUFFICES ASSUME NEW p \in Page
                   PROVE  OneLatestCopy!(p)'
        BY DEF OneLatestCopy
      <3>1. OneLatestCopy!(p)
        BY DEF StoreInv, CacheInv, OneLatestCopy
      <3>2. CASE p = q
        BY <1>4, <2>1, <2>2, <2>3, <3>1, <3>2 DEF Resident, Spilled
      <3>3. CASE p # q
        BY <1>4, <2>1, <2>2, <2>6, <3>1, <3>3 DEF Allocating, Resident, Spilled, StoreInv, TypeOK
      <3> QED
        BY <3>2, <3>3
    <2>9. ASSUME NEW u \in Thread, InCall(u)
          PROVE  CallOK(u, op[u])'
      <3>1. PICK d \in Calls : d = op'[u] /\ CallOK(u, d)
        BY <1>2, <1>3, <1>7, <2>9, CallOrIdle DEF StoreInv, CacheInv, CallsOK
      <3>2. d.page \in Page
        BY <3>1 DEF Calls
      <3>3. d.kind = "allocate" \/ d.at = "latched" => d.page # q
        BY <2>1, <3>1 DEF CallOK, Holds
      <3>4. Holds(u, d)'
        BY <1>4, <2>1, <3>1, <3>2, <3>3, NoFrameIsNone DEF CallOK, Holds
      <3>5. Carries(d)'
        BY <1>4, <2>2, <3>1, <3>2 DEF CallOK, Carries
      <3> QED
        BY <1>4, <2>1, <2>2, <3>1, <3>2, <3>3, <3>4, <3>5 DEF CallOK, Resident, Spilled
    <2>10. CallsOK'
      BY <2>5, <2>9 DEF CallsOK
    <2>11. LatchesOwned'
      BY <1>1, <1>3, <1>4 DEF StoreInv, CacheInv, LatchesOwned, TypeOK
    <2>12. AllocatedAlone'
      <3>1. \A u \in Thread : InCall(u) => op'[u].page = op[u].page /\ op[u].page \in Page
        BY <1>2, <1>3, CallOrIdle DEF StoreInv, Calls
      <3> QED
        BY <2>5, <2>6, <3>1 DEF StoreInv, CacheInv, AllocatedAlone
    <2> QED
      BY <1>2, <1>3, <2>4, <2>7, <2>8, <2>10, <2>11, <2>12 DEF CacheInv, InCall
  <1> QED
    BY <1>5, <1>8, <1>9

\* There is a frame for a page that has none: the pages and the threads hold fewer frames
\* than there are, so a load never waits for one.
LEMMA FrameToSpare ==
    ASSUME StoreInv, NEW p \in Page, ~Resident(p)
    PROVE  NewFrame \in Unused
  <1> DEFINE P == Page \ {p}
             D == {directory[q] : q \in P}
             H == {op[th].frame : th \in Thread}
  <1>1. IsFiniteSet(P) /\ Cardinality(P) = Cardinality(Page) - 1
    BY PageCacheAssumption, FS_RemoveElement
  <1>2. /\ Cardinality(Page) \in Nat /\ Cardinality(Thread) \in Nat /\ Cardinality(P) \in Nat
        /\ IsFiniteSet(Frame) /\ Cardinality(Frame) = Cardinality(Page) + Cardinality(Thread)
    <2>1. Cardinality(Page) \in Nat /\ Cardinality(Thread) \in Nat /\ Cardinality(P) \in Nat
      BY <1>1, PageCacheAssumption, FS_CardinalityType
    <2> DEFINE n == Cardinality(Page) + Cardinality(Thread)
    <2>2. n \in Nat /\ Frame = 1..n
      BY <2>1 DEF Frame
    <2>3. IsFiniteSet(1..n) /\ Cardinality(1..n) = IF 1 > n THEN 0 ELSE n - 1 + 1
      <3> HIDE DEF n
      <3> QED
        BY <2>2, FS_Interval
    <2> QED
      BY <2>1, <2>2, <2>3
  <1>3. IsFiniteSet(D) /\ Cardinality(D) <= Cardinality(P)
    <2>1. [q \in P |-> directory[q]] \in Surjection(P, D)
      BY DEF Surjection
    <2> QED
      BY <1>1, <2>1, FS_Surjection
  <1>4. IsFiniteSet(H) /\ Cardinality(H) <= Cardinality(Thread)
    <2>1. [th \in Thread |-> op[th].frame] \in Surjection(Thread, H)
      BY DEF Surjection
    <2> QED
      BY <2>1, FS_Surjection, PageCacheAssumption
  <1>5. IsFiniteSet(D \cup H) /\ Cardinality(D \cup H) < Cardinality(Frame)
    <2>1. Cardinality(D) \in Nat /\ Cardinality(H) \in Nat /\ Cardinality(D \cap H) \in Nat
      BY <1>3, <1>4, FS_CardinalityType, FS_Intersection
    <2>2. /\ IsFiniteSet(D \cup H)
          /\ Cardinality(D \cup H) = Cardinality(D) + Cardinality(H) - Cardinality(D \cap H)
      BY <1>3, <1>4, FS_Union
    <2> QED
      BY <1>1, <1>2, <1>3, <1>4, <2>1, <2>2
  <1>6. PICK f \in Frame : f \notin D \cup H
    <2>1. Frame \in SUBSET (D \cup H) => Cardinality(Frame) <= Cardinality(D \cup H)
      BY <1>5, FS_Subset
    <2>2. Cardinality(Frame) \in Nat /\ Cardinality(D \cup H) \in Nat
      BY <1>2, <1>5, FS_CardinalityType
    <2> QED
      BY <1>5, <2>1, <2>2
  <1>7. f \in Unused
    BY <1>6, NoFrameIsNone DEF Unused, Resident
  <1> QED
    BY <1>7 DEF NewFrame

\* insert_frame registers a new frame for the page with the latest copy of it, or with the
\* content the caller brings.
LEMMA InsertKeeps ==
    ASSUME StoreInv, NEW th \in Thread, InsertFrame(th)
    PROVE  /\ CacheInv' /\ StoreType'
           /\ op[th].from # "fresh" => op[th].copy = Copy(op[th].page)
           /\ \A u \in Thread : u # th => op'[u] = op[u]
           /\ IF op[th].kind = "modify"
              THEN /\ InCall(th)' /\ op'[th].at = "lookup" /\ op'[th].page = op[th].page
                   /\ op'[th].kind = "modify" /\ op'[th].val = op[th].val
              ELSE op'[th] = Idle
  <1> USE PageCacheAssumption, NoPageIsNone, NoFrameIsNone
  <1> DEFINE p == op[th].page
             f == NewFrame
             c == Busy("lookup", op[th].kind, p, op[th].val)
  <1>1. op[th] \in Calls /\ InCall(th) /\ CallOK(th, op[th]) /\ op[th].at = "insert"
    BY CallOrIdle DEF InCall, InsertFrame, StoreInv, CacheInv, CallsOK
  <1>2. p \in Page /\ ~Resident(p) /\ p \notin free /\ op[th].copy \in Value
    BY <1>1 DEF InsertFrame, CallOK, Carries, Calls
  <1>3. op[th].from # "fresh" => op[th].copy = Copy(p)
    <2>1. Admits(p, op[th].from, op[th].gen)
      BY DEF InsertFrame
    <2>2. CASE op[th].from = "image"
      BY <1>1, <1>2, <2>1, <2>2 DEF Admits, CallOK, Carries, Copy
    <2>3. CASE op[th].from = "spill"
      <3>1. spill[p].gen = op[th].gen /\ spill[p].val = op[th].copy /\ op[th].gen \in 1..generation
        BY <1>1, <2>1, <2>3 DEF Admits, CallOK, Carries
      <3> QED
        BY <1>2, <3>1 DEF Copy, Spilled
    <2> QED
      BY <1>1, <2>2, <2>3 DEF Calls
  <1>4. /\ f \in Frame /\ \A q \in Page : directory[q] # f
        /\ \A u \in Thread : InCall(u) => op[u].frame # f
    BY <1>2, FrameToSpare DEF Unused, InCall
  <1>5. /\ directory' = [directory EXCEPT ![p] = f]
        /\ spill' = [spill EXCEPT ![p] = NoCopy]
        /\ UNCHANGED <<latch, generation, image, free, boundVars>>
        /\ data' \in [Frame -> Value] /\ data'[f] = op[th].copy
        /\ dirty' \in [Frame -> BOOLEAN] /\ dirty'[f] = (op[th].from # "image")
        /\ \A q \in Page : Resident(q) => /\ data'[directory[q]] = data[directory[q]]
                                          /\ dirty'[directory[q]] = dirty[directory[q]]
    <2>1. \A q \in Page : Resident(q) => directory[q] \in Frame \ Unused /\ directory[q] # f
      BY <1>4 DEF StoreInv, TypeOK, Unused, Resident
    <2>2. /\ data' = [g \in Frame |-> IF g = f THEN op[th].copy
                                      ELSE IF g \in Unused THEN Zero ELSE data[g]]
          /\ dirty' = [g \in Frame |-> IF g = f THEN op[th].from # "image"
                                       ELSE dirty[g] /\ g \notin Unused]
      BY DEF InsertFrame
    <2>3. data' \in [Frame -> Value] /\ dirty' \in [Frame -> BOOLEAN]
      BY <1>2, <2>2 DEF StoreInv, TypeOK
    <2> QED
      BY <1>4, <2>1, <2>2, <2>3 DEF InsertFrame, StoreInv, TypeOK
  <1>6. /\ op' \in [Thread -> Calls \cup {Idle}]
        /\ \A u \in Thread : u # th => op'[u] = op[u]
        /\ IF op[th].kind = "modify"
           THEN op'[th] \in Calls /\ op'[th].at = "lookup" /\ op'[th].page = p
                /\ op'[th].kind = "modify" /\ op'[th].val = op[th].val
                /\ op'[th].frame = NoFrame /\ op'[th].from = "fresh"
                /\ op'[th].copy = op[th].val
           ELSE op'[th] = Idle
    <2>1. c \in Calls /\ c.kind = op[th].kind /\ c.page = p /\ c.val = op[th].val
          /\ c.at = "lookup" /\ c.frame = NoFrame /\ c.from = "fresh" /\ c.copy = op[th].val
      BY <1>1, BusyCall DEF Calls
    <2>2. IF op[th].kind = "modify" THEN Goes(th, c) ELSE Goes(th, Idle)
      BY DEF InsertFrame, Retries, Returns
    <2>3. CASE op[th].kind = "modify"
      BY <2>1, <2>2, <2>3, GoesEffect DEF StoreInv
    <2>4. CASE op[th].kind # "modify"
      BY <2>2, <2>4, GoesEffect DEF StoreInv
    <2> QED
      BY <2>3, <2>4
  <1>7. \A u \in Thread : InCall(u)' => InCall(u)
    BY <1>1, <1>6 DEF InCall
  <1>8. \A q \in Page : q # p => /\ directory'[q] = directory[q] /\ spill'[q] = spill[q]
                                 /\ Allocating(q) => Allocating(q)'
    BY <1>2, <1>5, <1>6 DEF Allocating, Allocates, InCall, StoreInv, TypeOK
  <1>9. directory'[p] = f /\ spill'[p] = NoCopy /\ NoCopy.gen = 0
    BY <1>2, <1>5 DEF StoreInv, TypeOK, NoCopy
  <1>10. FramesApart'
    BY <1>2, <1>4, <1>5, <1>8, <1>9 DEF StoreInv, CacheInv, FramesApart, Resident, Spilled, TypeOK
  <1>11. OneLatestCopy'
    <2> SUFFICES ASSUME NEW q \in Page
                 PROVE  OneLatestCopy!(q)'
      BY DEF OneLatestCopy
    <2>1. OneLatestCopy!(q)
      BY DEF StoreInv, CacheInv, OneLatestCopy
    <2>2. CASE q = p
      <3>1. op[th].from = "image" => image[p] = op[th].copy
        BY <1>1 DEF CallOK, Carries
      <3> QED
        BY <1>4, <1>5, <1>9, <2>2, <3>1 DEF Resident, Spilled, StoreInv, TypeOK
    <2>3. CASE q # p
      BY <1>5, <1>8, <2>1, <2>3 DEF Resident, Spilled
    <2> QED
      BY <2>2, <2>3
  <1>12. ASSUME NEW u \in Thread, InCall(u)'
         PROVE  CallOK(u, op[u])'
    <2>1. CASE u = th
      <3>1. PICK d \in Calls : /\ d = op'[th] /\ d.at = "lookup" /\ d.page = p
                               /\ d.kind = "modify" /\ d.val = op[th].val
                               /\ d.frame = NoFrame /\ d.from = "fresh" /\ d.copy = d.val
        BY <1>6, <1>12, <2>1 DEF InCall, Idle
      <3>2. d.val \in Value
        BY <1>1, <1>6, <1>12, <2>1, <3>1 DEF CallOK, InCall, Idle
      <3> QED
        BY <1>2, <1>5, <2>1, <3>1, <3>2 DEF CallOK, Holds, Carries
    <2>2. CASE u # th
      <3>1. PICK d \in Calls : d = op'[u] /\ d = op[u] /\ CallOK(u, d)
        BY <1>6, <1>7, <1>12, <2>2, CallOrIdle DEF StoreInv, CacheInv, CallsOK
      <3>2. d.page \in Page /\ d.frame # f
        BY <1>4, <1>7, <1>12, <3>1 DEF Calls
      <3>3. d.kind = "allocate" \/ d.at = "latched" => d.page # p
        <4>1. CASE d.kind = "allocate"
          BY <1>1, <1>7, <1>12, <2>2, <3>1, <4>1 DEF StoreInv, CacheInv, AllocatedAlone, Allocates
        <4>2. CASE d.at = "latched"
          BY <1>2, <3>1, <4>2 DEF CallOK, Holds, Resident
        <4> QED
          BY <4>1, <4>2
      <3>4. Holds(u, d)'
        BY <1>5, <1>8, <1>9, <3>1, <3>2, <3>3 DEF CallOK, Holds
      <3>5. Carries(d)'
        BY <1>5, <1>8, <1>9, <3>1, <3>2 DEF CallOK, Carries, StoreInv, TypeOK
      <3> QED
        BY <1>5, <1>8, <3>1, <3>2, <3>3, <3>4, <3>5 DEF CallOK, Resident, Spilled
    <2> QED
      BY <2>1, <2>2
  <1>13. CallsOK'
    BY <1>12 DEF CallsOK
  <1>14. LatchesOwned'
    BY <1>1, <1>5, <1>6 DEF StoreInv, CacheInv, LatchesOwned, TypeOK
  <1>15. AllocatedAlone'
    BY <1>1, <1>6, <1>7 DEF StoreInv, CacheInv, AllocatedAlone, Allocates, Idle, InCall
  <1>16. StoreType'
    BY <1>2, <1>4, <1>5, <1>6 DEF StoreType, StoreInv, TypeOK, NoCopy, boundVars
  <1> QED
    BY <1>3, <1>6, <1>10, <1>11, <1>13, <1>14, <1>15, <1>16 DEF CacheInv, InCall

\* A page is freed when no one is calling for it, and leaves memory and the spill
\* (deallocate_page).
LEMMA DeallocateKeeps ==
    ASSUME StoreInv, NEW p \in Page, Deallocate(p)
    PROVE  CacheInv' /\ StoreType' /\ p \notin free /\ ~Allocating(p)
  <1> USE PageCacheAssumption, NoPageIsNone, NoFrameIsNone
  <1>1. p \notin free /\ ~Allocating(p)
    BY ContentIs DEF Deallocate
  <1>2. /\ UNCHANGED <<data, dirty, latch, generation, image, op>>
        /\ directory' = [directory EXCEPT ![p] = NoFrame]
        /\ spill' = [spill EXCEPT ![p] = NoCopy] /\ free' = free \cup {p}
        /\ NoCopy.gen = 0 /\ NoCopy \in [val : Value \cup {NoPage}, gen : Nat]
    BY DEF Deallocate, NoCopy
  <1>3. \A u \in Thread : InCall(u) => op[u].page # p
    BY DEF Deallocate, Calling, InCall
  <1>4. StoreType'
    BY <1>2 DEF Deallocate, StoreType, StoreInv, TypeOK
  <1>5. /\ directory'[p] = NoFrame /\ spill'[p] = NoCopy
        /\ \A q \in Page : q # p => directory'[q] = directory[q] /\ spill'[q] = spill[q]
    BY <1>2 DEF StoreInv, TypeOK
  <1>6. \A u \in Thread, q \in Page : Allocates(u, q)' <=> Allocates(u, q)
    BY <1>2 DEF Allocates, InCall
  <1>7. FramesApart'
    BY <1>2, <1>5 DEF StoreInv, CacheInv, FramesApart, Resident, Spilled, TypeOK
  <1>8. OneLatestCopy'
    BY <1>2, <1>5, <1>6 DEF StoreInv, CacheInv, OneLatestCopy, Resident, Spilled, TypeOK,
                            Allocating
  <1>9. ASSUME NEW u \in Thread, InCall(u)
        PROVE  CallOK(u, op[u])'
    <2>1. PICK d \in Calls : d = op'[u] /\ CallOK(u, d) /\ d.page # p
      BY <1>2, <1>3, <1>9, CallOrIdle DEF StoreInv, CacheInv, CallsOK
    <2>2. d.page \in Page
      BY <2>1 DEF Calls
    <2>3. Holds(u, d)' /\ Carries(d)'
      BY <1>2, <1>5, <2>1, <2>2 DEF CallOK, Holds, Carries
    <2> QED
      BY <1>2, <1>5, <2>1, <2>2, <2>3 DEF CallOK, Resident, Spilled
  <1>10. CallsOK'
    BY <1>2, <1>9 DEF CallsOK, InCall
  <1>11. LatchesOwned' /\ AllocatedAlone'
    BY <1>2 DEF StoreInv, CacheInv, LatchesOwned, AllocatedAlone, Allocates, InCall
  <1> QED
    BY <1>1, <1>4, <1>7, <1>8, <1>10, <1>11 DEF CacheInv

\* The checkpoint's image holds every page as it was, whichever frames stay (plan_segments,
\* each_page, attach).
LEMMA CheckpointKeeps ==
    ASSUME StoreInv, NEW stay \in SUBSET Page, Checkpoint(stay)
    PROVE  /\ CacheInv' /\ StoreType' /\ op' = op
           /\ \A p \in Page : ~Allocating(p) /\ ~Allocating(p)'
           /\ free' = free
           /\ \A p \in Page : p \notin free => Copy(p)' = Copy(p)
           /\ \A p \in Page : ~(Resident(p) /\ dirty[directory[p]])'
  <1> USE PageCacheAssumption, NoPageIsNone, NoFrameIsNone
  <1>1. \A u \in Thread : ~InCall(u) /\ ~InCall(u)'
    BY DEF Checkpoint, Quiet, InCall
  <1>2. \A p \in Page : ~Allocating(p) /\ ~Allocating(p)'
    BY <1>1 DEF Allocating, Allocates
  <1>3. /\ UNCHANGED <<data, latch, generation, op>>
        /\ dirty' = [f \in Frame |-> FALSE] /\ spill' = [p \in Page |-> NoCopy]
        /\ directory' = [p \in Page |-> IF p \in stay THEN directory[p] ELSE NoFrame]
        /\ NoCopy.gen = 0 /\ NoCopy \in [val : Value \cup {NoPage}, gen : Nat]
    BY DEF Checkpoint, NoCopy
  <1>4. \A p \in Page : p \notin free => /\ image'[p] = Copy(p) /\ image'[p] \in Value
    <2> SUFFICES ASSUME NEW p \in Page, p \notin free
                 PROVE  image'[p] = Copy(p) /\ image'[p] \in Value
      OBVIOUS
    <2>1. Copy(p) \in Value
      BY <1>2, ContentIs
    <2>2. Unchanged(p) => Copy(p) = image[p]
      BY DEF Unchanged, Copy, StoreInv, CacheInv, OneLatestCopy
    <2>3. image'[p] = IF Unchanged(p) THEN image[p] ELSE Copy(p)
      BY DEF Checkpoint
    <2> QED
      BY <2>1, <2>2, <2>3
  <1>5. \A p \in free : image'[p] = NoPage /\ p \in Page
    BY DEF Checkpoint, StoreInv, TypeOK
  <1>6. free' = free
    <2>1. free' = free \cup {p \in Page : image'[p] = NoPage /\ ~Resident(p)}
      BY DEF Checkpoint
    <2> QED
      BY <1>4, <2>1
  <1>7. image' \in [Page -> Value \cup {NoPage}]
    <2>1. image' = [p \in Page |-> image'[p]]
      BY DEF Checkpoint
    <2> QED
      BY <1>4, <1>5, <2>1
  <1>8. StoreType'
    BY <1>3, <1>6, <1>7 DEF StoreType, StoreInv, TypeOK, Checkpoint
  <1>9. \A p \in Page : ~Spilled(p)' /\ (Resident(p)' => Resident(p) /\ directory'[p] = directory[p])
    BY <1>3 DEF Resident, Spilled
  <1>10. \A p \in Page : p \notin free => Copy(p)' = Copy(p)
    <2>1. \A p \in Page : Resident(p)' => Copy(p)' = Copy(p)
      BY <1>3, <1>9 DEF Copy
    <2>2. \A p \in Page : ~Resident(p)' => Copy(p)' = image'[p]
      BY <1>9 DEF Copy
    <2> QED
      BY <1>4, <2>1, <2>2
  <1>11. \A p \in Page : ~(Resident(p) /\ dirty[directory[p]])'
    BY <1>3, <1>9 DEF Resident, StoreInv, TypeOK
  <1>12. FramesApart'
    <2>1. \A p, q \in Page : Resident(p)' /\ directory'[p] = directory'[q] => p = q
      BY <1>9 DEF StoreInv, CacheInv, FramesApart, Resident
    <2>2. \A p \in free' : ~Resident(p)' /\ ~Spilled(p)'
      BY <1>5, <1>6, <1>9 DEF StoreInv, CacheInv, FramesApart
    <2> QED
      BY <2>1, <2>2 DEF FramesApart
  <1>13. OneLatestCopy'
    <2> SUFFICES ASSUME NEW p \in Page
                 PROVE  OneLatestCopy!(p)'
      BY DEF OneLatestCopy
    <2>1. spill'[p].gen <= generation'
      BY <1>3 DEF StoreInv, TypeOK
    <2>2. Resident(p)' => p \notin free
      BY <1>9 DEF StoreInv, CacheInv, FramesApart
    <2>3. Resident(p)' => image'[p] = data'[directory'[p]]
      BY <1>3, <1>4, <1>9, <2>2 DEF Copy
    <2> QED
      BY <1>4, <1>6, <1>9, <2>1, <2>3
  <1>14. CallsOK'
    BY <1>1 DEF CallsOK
  <1>15. LatchesOwned' /\ AllocatedAlone'
    BY <1>1, <1>3 DEF StoreInv, CacheInv, LatchesOwned, AllocatedAlone
  <1> QED
    BY <1>2, <1>3, <1>6, <1>8, <1>10, <1>11, <1>12, <1>13, <1>14, <1>15 DEF CacheInv

-----------------------------------------------------------------------------
(* Counting the changed frames                                             *)

Dirty(p) == Resident(p) /\ dirty[directory[p]]
DirtyPages == {p \in Page : Dirty(p)}

\* One page more or less among the changed ones: the count follows by one.
LEMMA CountMoves ==
    ASSUME StoreInv, NEW p \in Page
    PROVE  /\ dirtyFrames = Cardinality(DirtyPages) /\ Cardinality(DirtyPages) \in Nat
           /\ Cardinality(DirtyPages \cup {p}) =
                IF p \in DirtyPages THEN dirtyFrames ELSE dirtyFrames + 1
           /\ Cardinality(DirtyPages \ {p}) =
                IF p \in DirtyPages THEN dirtyFrames - 1 ELSE dirtyFrames
  <1>1. IsFiniteSet(DirtyPages)
    BY PageCacheAssumption, FS_Subset DEF DirtyPages
  <1>2. dirtyFrames = Cardinality(DirtyPages)
    BY DEF StoreInv, DirtyCounted, DirtyPages, Dirty
  <1> HIDE DEF DirtyPages
  <1>3. Cardinality(DirtyPages) \in Nat
    BY <1>1, FS_CardinalityType
  <1>4. /\ Cardinality(DirtyPages \cup {p}) =
             IF p \in DirtyPages THEN Cardinality(DirtyPages) ELSE Cardinality(DirtyPages) + 1
        /\ Cardinality(DirtyPages \ {p}) =
             IF p \in DirtyPages THEN Cardinality(DirtyPages) - 1 ELSE Cardinality(DirtyPages)
    BY <1>1, FS_AddElement, FS_RemoveElement
  <1> QED
    BY <1>2, <1>3, <1>4

\* dirty_frames follows the set of changed pages through every step.
LEMMA CountStep ==
    ASSUME StoreInv, Step
    PROVE  dirtyFrames' = Cardinality(DirtyPages')
  <1> USE PageCacheAssumption, NoPageIsNone, NoFrameIsNone
  <1>1. CASE UNCHANGED <<directory, dirty, dirtyFrames>>
    <2>1. DirtyPages' = DirtyPages
      BY <1>1 DEF DirtyPages, Dirty, Resident
    <2>2. dirtyFrames = Cardinality(DirtyPages)
      BY DEF StoreInv, DirtyCounted, DirtyPages, Dirty
    <2> QED
      BY <1>1, <2>1, <2>2
  <1>2. ASSUME NEW th \in Thread, NEW p \in Page,
               \/ BeginRead(th, p)
               \/ \E kind \in {"write", "modify"} : BeginWrite(th, kind, p)
               \/ BeginAllocate(th, p)
               \/ PickVictim(th, p)
        PROVE  UNCHANGED <<directory, dirty, dirtyFrames>>
    BY <1>2 DEF BeginRead, BeginWrite, BeginAllocate, PickVictim, storeVars
  <1>3. ASSUME NEW p \in Page, Deallocate(p)
        PROVE  dirtyFrames' = Cardinality(DirtyPages')
    <2>1. DirtyPages' = DirtyPages \ {p}
      BY <1>3 DEF DirtyPages, Dirty, Resident, Deallocate, StoreInv, TypeOK
    <2>2. dirtyFrames' = IF p \in DirtyPages THEN dirtyFrames - 1 ELSE dirtyFrames
      BY <1>3 DEF DirtyPages, Dirty, Deallocate
    <2> QED
      BY <2>1, <2>2, CountMoves
  <1>4. ASSUME NEW th \in Thread,
               \/ FindFrame(th) \/ FindSpilled(th) \/ FindNothing(th) \/ Load(th)
               \/ FindNoFrame(th) \/ ReadFrame(th) \/ LatchFrame(th)
               \/ RoomEnds(th) \/ EvictSpillFails(th) \/ InsertRefused(th)
        PROVE  UNCHANGED <<directory, dirty, dirtyFrames>>
    BY <1>4 DEF FindFrame, FindSpilled, FindNothing, Load, FindNoFrame, ReadFrame, LatchFrame,
                RoomEnds, EvictSpillFails, InsertRefused, storeVars
  <1>5. ASSUME NEW th \in Thread, WriteFrame(th)
        PROVE  dirtyFrames' = Cardinality(DirtyPages')
    <2> DEFINE p == op[th].page
    <2>1. p \in Page /\ op[th].frame = directory[p] /\ directory[p] \in Frame /\ Resident(p)
      BY <1>5, CallOrIdle DEF WriteFrame, StoreInv, CacheInv, CallsOK, CallOK, Holds, Calls,
                              InCall, Resident
    <2>2. DirtyPages' = DirtyPages \cup {p}
      BY <1>5, <2>1 DEF DirtyPages, Dirty, Resident, WriteFrame, StoreInv, TypeOK, CacheInv,
                        FramesApart
    <2>3. dirtyFrames' = IF p \in DirtyPages THEN dirtyFrames ELSE dirtyFrames + 1
      BY <1>5, <2>1 DEF DirtyPages, Dirty, WriteFrame
    <2> QED
      BY <2>1, <2>2, <2>3, CountMoves
  <1>6. ASSUME NEW th \in Thread, Evict(th)
        PROVE  dirtyFrames' = Cardinality(DirtyPages')
    <2>1. PICK v \in op[th].victim :
            IF Evictable(v.page) /\ (dirty[directory[v.page]] => v.spill)
            THEN SpillOut(v.page) /\ directory' = [directory EXCEPT ![v.page] = NoFrame]
            ELSE UNCHANGED <<directory, spill, generation, dirtyFrames>>
      BY <1>6 DEF Evict
    <2> DEFINE p == v.page
    <2>2. p \in Page /\ dirty' = dirty
      BY <1>6, <2>1, CallOrIdle DEF Evict, InCall, Calls, StoreInv
    <2>3. CASE UNCHANGED <<directory, spill, generation, dirtyFrames>>
      BY <1>1, <2>2, <2>3
    <2>4. CASE Evictable(p) /\ SpillOut(p) /\ directory' = [directory EXCEPT ![p] = NoFrame]
      <3>1. DirtyPages' = DirtyPages \ {p}
        BY <2>2, <2>4 DEF DirtyPages, Dirty, Resident, StoreInv, TypeOK
      <3>2. dirtyFrames' = IF p \in DirtyPages THEN dirtyFrames - 1 ELSE dirtyFrames
        BY <2>2, <2>4 DEF DirtyPages, Dirty, SpillOut, Evictable
      <3> QED
        BY <2>2, <3>1, <3>2, CountMoves
    <2> QED
      BY <2>1, <2>3, <2>4
  <1>7. ASSUME NEW th \in Thread, InsertFrame(th)
        PROVE  dirtyFrames' = Cardinality(DirtyPages')
    <2> DEFINE changed == op[th].from # "image"
    <2>1. PICK p \in Page : p = op[th].page /\ ~Resident(p)
      BY <1>7, CallOrIdle DEF InsertFrame, InCall, Calls, StoreInv
    <2>2. NewFrame \in Frame /\ \A q \in Page : directory[q] # NewFrame
      BY <2>1, FrameToSpare DEF Unused
    <2>3. \A q \in Page : q # p => (Dirty(q)' <=> Dirty(q))
      <3>1. \A q \in Page : Resident(q) => directory[q] \in Frame \ Unused
        BY DEF StoreInv, TypeOK, Unused, Resident
      <3>2. \A q \in Page : q # p => directory'[q] = directory[q]
        BY <1>7, <2>1 DEF InsertFrame, StoreInv, TypeOK
      <3>3. \A g \in Frame \ Unused : g # NewFrame => dirty'[g] = dirty[g]
        BY <1>7 DEF InsertFrame, StoreInv, TypeOK
      <3> QED
        BY <2>2, <3>1, <3>2, <3>3 DEF Dirty, Resident
    <2>4. Dirty(p)' <=> changed
      <3>1. directory'[p] = NewFrame
        BY <1>7, <2>1 DEF InsertFrame, StoreInv, TypeOK
      <3>2. dirty'[NewFrame] = changed
        BY <1>7, <2>2 DEF InsertFrame
      <3> QED
        BY <2>2, <3>1, <3>2 DEF Dirty, Resident
    <2>5. DirtyPages' = IF changed THEN DirtyPages \cup {p} ELSE DirtyPages
      <3>1. ~Dirty(p)
        BY <2>1 DEF Dirty
      <3> QED
        BY <2>1, <2>3, <2>4, <3>1 DEF DirtyPages
    <2>6. p \notin DirtyPages
      BY <2>1 DEF DirtyPages, Dirty
    <2>7. dirtyFrames' = IF changed THEN dirtyFrames + 1 ELSE dirtyFrames
      BY <1>7 DEF InsertFrame
    <2> HIDE DEF changed
    <2> QED
      BY <2>1, <2>5, <2>6, <2>7, CountMoves
  <1>8. ASSUME NEW stay \in SUBSET Page, Checkpoint(stay)
        PROVE  dirtyFrames' = Cardinality(DirtyPages')
    <2>1. DirtyPages' = {} /\ dirtyFrames' = 0
      BY <1>8, CheckpointKeeps DEF DirtyPages, Dirty, Checkpoint
    <2> QED
      BY <2>1, FS_EmptySet
  <1> QED
    BY <1>1, <1>2, <1>3, <1>4, <1>5, <1>6, <1>7, <1>8 DEF Step

-----------------------------------------------------------------------------
(* The page map                                                            *)

NoOnes(p) == p \in free \/ Allocating(p)

\* The page map, by who owns the page and where its latest copy is.
LEMMA ContentMap ==
    /\ Content = [p \in Page |-> IF NoOnes(p) THEN NoPage ELSE Copy(p)]
    /\ Content' = [p \in Page |-> IF NoOnes(p)' THEN NoPage ELSE Copy(p)']
  BY DEF Content, NoOnes, Allocating, Allocates, Calling, InCall

\* The page map stays when every page keeps its owner and its latest copy.
LEMMA SameContent ==
    ASSUME \A p \in Page : /\ NoOnes(p)' <=> NoOnes(p)
                           /\ ~NoOnes(p) => Copy(p)' = Copy(p)
    PROVE  Content' = Content
  BY ContentMap

\* One page changes when the others keep their owner and their latest copy.
LEMMA OneContent ==
    ASSUME NEW p \in Page, NEW v,
           \A q \in Page : q # p => /\ NoOnes(q)' <=> NoOnes(q)
                                    /\ ~NoOnes(q) => Copy(q)' = Copy(q),
           (IF NoOnes(p)' THEN NoPage ELSE Copy(p)') = v
    PROVE  Content' = [Content EXCEPT ![p] = v]
  <1>1. \A q \in Page : Content'[q] = IF q = p THEN v ELSE Content[q]
    BY ContentMap
  <1> QED
    BY <1>1, ContentMap

\* What a call asks for.
Asked(c) == IF c.at = "idle" THEN {}
            ELSE IF c.kind = "read" THEN {}
            ELSE {[page |-> c.page, val |-> c.val, new |-> c.kind = "allocate"]}

\* The change a thread waits for is the one its call asks for.
LEMMA PendingMap ==
    Pending = [th \in Thread |-> Asked(op[th])] /\ Pending' = [th \in Thread |-> Asked(op'[th])]
  BY DEF Pending, Asked

\* Seen from outside, a step inside a call or between calls shows as nothing, and the steps
\* that begin, carry out and free do what the page store's interface says.
LEMMA StepImplements ==
    ASSUME StoreInv, Step
    PROVE  PM!Next \/ UNCHANGED PM!vars
  <1> USE PageCacheAssumption, NoPageIsNone, NoFrameIsNone
  <1>1. ASSUME NEW th \in Thread, NEW p \in Page, BeginRead(th, p)
        PROVE  UNCHANGED PM!vars
    <2> DEFINE c == Busy("lookup", "read", p, NoPage)
    <2>1. c \in Calls /\ c.kind = "read" /\ c.at = "lookup"
      BY BusyCall
    <2>2. op[th].at = "idle" /\ op'[th] = c /\ \A u \in Thread : u # th => op'[u] = op[u]
      BY <1>1, <2>1, GoesEffect DEF BeginRead, Begins, StoreInv
    <2>3. Pending' = Pending
      <3>1. \A u \in Thread : Asked(op'[u]) = Asked(op[u])
        BY <2>1, <2>2 DEF Asked
      <3> QED
        BY <3>1, PendingMap
    <2>4. \A q \in Page : Allocating(q)' <=> Allocating(q)
      BY <2>1, <2>2 DEF Allocating, Allocates, InCall
    <2>5. UNCHANGED storeVars /\ frees' = frees
      BY <1>1 DEF BeginRead, boundVars
    <2>6. Content' = Content
      BY <2>4, <2>5, SameContent DEF NoOnes, Copy, Resident, Spilled, storeVars
    <2> QED
      BY <2>3, <2>5, <2>6 DEF PM!vars
  <1>2. ASSUME NEW th \in Thread, NEW p \in Page, NEW kind \in {"write", "modify"},
               BeginWrite(th, kind, p)
        PROVE  PM!BeginWrite(th, p, writes + 1) /\ writes + 1 \in Value
    <2> DEFINE c == Busy("lookup", kind, p, writes + 1)
    <2>0. writes + 1 \in Value
      BY <1>2 DEF BeginWrite, Value, StoreInv, TypeOK
    <2>1. c \in Calls /\ c.kind = kind /\ c.at = "lookup" /\ c.page = p /\ c.val = writes + 1
      BY <2>0, BusyCall
    <2>2. op[th].at = "idle" /\ op'[th] = c /\ \A u \in Thread : u # th => op'[u] = op[u]
      BY <1>2, <2>1, GoesEffect DEF BeginWrite, Begins, StoreInv
    <2>3. /\ Pending[th] = {}
          /\ Pending' = [Pending EXCEPT ![th] = PM!Change(p, writes + 1, FALSE)]
      <3>1. Asked(op[th]) = {} /\ Asked(c) = {[page |-> p, val |-> writes + 1, new |-> FALSE]}
        BY <2>1, <2>2 DEF Asked
      <3> QED
        BY <2>2, <3>1, PendingMap DEF PM!Change
    <2>4. \A q \in Page : Allocating(q)' <=> Allocating(q)
      BY <2>1, <2>2 DEF Allocating, Allocates, InCall
    <2>5. UNCHANGED storeVars /\ frees' = frees /\ Content[p] # NoPage
      BY <1>2 DEF BeginWrite
    <2>6. Content' = Content
      BY <2>4, <2>5, SameContent DEF NoOnes, Copy, Resident, Spilled, storeVars
    <2> QED
      BY <2>0, <2>3, <2>5, <2>6 DEF PM!BeginWrite
  <1>3. ASSUME NEW th \in Thread, NEW p \in Page, BeginAllocate(th, p)
        PROVE  PM!BeginAllocate(th, p)
    <2> DEFINE c == Busy("room", "allocate", p, Zero)
    <2>1. c \in Calls /\ c.kind = "allocate" /\ c.at = "room" /\ c.page = p /\ c.val = Zero
      BY BusyCall
    <2>2. op[th].at = "idle" /\ op'[th] = c /\ \A u \in Thread : u # th => op'[u] = op[u]
      BY <1>3, <2>1, GoesEffect DEF BeginAllocate, Begins, StoreInv
    <2>3. /\ Pending[th] = {}
          /\ Pending' = [Pending EXCEPT ![th] = PM!Change(p, Zero, TRUE)]
      <3>1. Asked(op[th]) = {} /\ Asked(c) = {[page |-> p, val |-> Zero, new |-> TRUE]}
        BY <2>1, <2>2 DEF Asked
      <3> QED
        BY <2>2, <3>1, PendingMap DEF PM!Change
    <2>4. \A q \in Page : Allocating(q)' <=> Allocating(q) \/ q = p
      BY <2>1, <2>2 DEF Allocating, Allocates, InCall
    <2>5. /\ UNCHANGED <<directory, data, spill, image, frees>>
          /\ p \in free /\ free' = free \ {p}
      BY <1>3 DEF BeginAllocate, boundVars
    <2>6. Content' = Content
      BY <2>4, <2>5, SameContent DEF NoOnes, Copy, Resident, Spilled
    <2>7. Content[p] = NoPage
      BY <2>5, ContentMap DEF NoOnes
    <2> QED
      BY <2>3, <2>5, <2>6, <2>7 DEF PM!BeginAllocate
  <1>4. ASSUME NEW p \in Page, Deallocate(p)
        PROVE  PM!Deallocate(p)
    <2>1. \A q \in Page : Allocating(q)' <=> Allocating(q)
      BY <1>4 DEF Deallocate, Allocating, Allocates, InCall
    <2>2. /\ UNCHANGED <<data, image, op>> /\ frees' = frees + 1 /\ free' = free \cup {p}
          /\ \A q \in Page : q # p => directory'[q] = directory[q] /\ spill'[q] = spill[q]
      BY <1>4 DEF Deallocate, StoreInv, TypeOK
    <2>3. Content' = [Content EXCEPT ![p] = NoPage]
      BY <2>1, <2>2, OneContent DEF NoOnes, Copy, Resident, Spilled
    <2>4. Pending' = Pending
      BY <2>2, PendingMap
    <2>5. Content[p] # NoPage
      BY <1>4 DEF Deallocate
    <2> QED
      BY <2>2, <2>3, <2>4, <2>5 DEF PM!Deallocate
  <1>5. ASSUME NEW th \in Thread,
               \/ FindFrame(th) \/ FindSpilled(th) \/ FindNothing(th) \/ Load(th)
               \/ FindNoFrame(th) \/ RoomEnds(th) \/ EvictSpillFails(th) \/ InsertRefused(th)
               \/ \E p \in Page : PickVictim(th, p)
        PROVE  UNCHANGED PM!vars
    <2>1. /\ InCall(th)' /\ op'[th].page = op[th].page /\ op'[th].kind = op[th].kind
          /\ op'[th].val = op[th].val /\ \A u \in Thread : u # th => op'[u] = op[u]
      BY <1>5, MoveKeeps
    <2>2. InCall(th) /\ UNCHANGED storeVars /\ frees' = frees
      BY <1>5 DEF InCall, FindFrame, FindSpilled, FindNothing, Load, FindNoFrame, RoomEnds,
                  EvictSpillFails, InsertRefused, PickVictim, boundVars
    <2>3. Pending' = Pending
      <3>1. \A u \in Thread : Asked(op'[u]) = Asked(op[u])
        BY <2>1, <2>2 DEF Asked, InCall
      <3> QED
        BY <3>1, PendingMap
    <2>4. \A q \in Page : Allocating(q)' <=> Allocating(q)
      BY <2>1, <2>2 DEF Allocating, Allocates, InCall
    <2>5. Content' = Content
      BY <2>2, <2>4, SameContent DEF NoOnes, Copy, Resident, Spilled, storeVars
    <2> QED
      BY <2>2, <2>3, <2>5 DEF PM!vars
  <1>6. ASSUME NEW th \in Thread, ReadFrame(th)
        PROVE  UNCHANGED PM!vars
    <2>1. op'[th] = Idle /\ \A u \in Thread : u # th => op'[u] = op[u]
      BY <1>6, GoesEffect DEF StoreInv, ReadFrame, Returns
    <2>2. op[th].kind = "read" /\ UNCHANGED storeVars /\ frees' = frees
      BY <1>6 DEF ReadFrame, boundVars
    <2>3. Pending' = Pending
      <3>1. \A u \in Thread : Asked(op'[u]) = Asked(op[u])
        BY <2>1, <2>2 DEF Asked, Idle
      <3> QED
        BY <3>1, PendingMap
    <2>4. \A q \in Page : Allocating(q)' <=> Allocating(q)
      BY <2>1, <2>2 DEF Allocating, Allocates, InCall, Idle
    <2>5. Content' = Content
      BY <2>2, <2>4, SameContent DEF NoOnes, Copy, Resident, Spilled, storeVars
    <2> QED
      BY <2>2, <2>3, <2>5 DEF PM!vars
  <1>7. ASSUME NEW th \in Thread, LatchFrame(th)
        PROVE  UNCHANGED PM!vars
    <2>0. op[th] \in Calls /\ InCall(th)
      BY <1>7, CallOrIdle DEF LatchFrame, InCall, StoreInv
    <2>1. /\ InCall(th)' /\ op'[th].page = op[th].page /\ op'[th].kind = op[th].kind
          /\ op'[th].val = op[th].val /\ \A u \in Thread : u # th => op'[u] = op[u]
      <3> DEFINE c == [op[th] EXCEPT !.at = "latched"]
                 d == Busy("lookup", op[th].kind, op[th].page, op[th].val)
      <3>1. /\ c \in Calls /\ c.page = op[th].page /\ c.kind = op[th].kind
            /\ c.val = op[th].val /\ c.at = "latched"
        BY <2>0 DEF Calls
      <3>2. /\ d \in Calls /\ d.page = op[th].page /\ d.kind = op[th].kind
            /\ d.val = op[th].val /\ d.at = "lookup"
        BY <2>0, BusyCall DEF Calls
      <3>3. Goes(th, c) \/ Goes(th, d)
        BY <1>7 DEF LatchFrame, Retries
      <3>4. \E e \in {c, d} : op'[th] = e /\ \A u \in Thread : u # th => op'[u] = op[u]
        BY <3>1, <3>2, <3>3, GoesEffect DEF StoreInv
      <3> QED
        BY <3>1, <3>2, <3>4 DEF InCall
    <2>2. UNCHANGED <<directory, data, spill, image, free, frees>>
      BY <1>7 DEF LatchFrame, boundVars
    <2>3. Pending' = Pending
      <3>1. \A u \in Thread : Asked(op'[u]) = Asked(op[u])
        BY <2>0, <2>1 DEF Asked, InCall
      <3> QED
        BY <3>1, PendingMap
    <2>4. \A q \in Page : Allocating(q)' <=> Allocating(q)
      BY <2>0, <2>1 DEF Allocating, Allocates, InCall
    <2>5. Content' = Content
      BY <2>2, <2>4, SameContent DEF NoOnes, Copy, Resident, Spilled
    <2> QED
      BY <2>2, <2>3, <2>5 DEF PM!vars
  <1>8. ASSUME NEW th \in Thread, WriteFrame(th)
        PROVE  PM!Take(th)
    <2>1. op[th] \in Calls /\ InCall(th) /\ CallOK(th, op[th]) /\ op[th].at = "latched"
      BY <1>8, CallOrIdle DEF WriteFrame, InCall, StoreInv, CacheInv, CallsOK
    <2>2. PICK p \in Page, v \in Value :
            /\ p = op[th].page /\ v = op[th].val /\ Resident(p) /\ directory[p] \in Frame
            /\ directory[p] = op[th].frame /\ p \notin free
            /\ op[th].kind \notin {"read", "allocate"}
      BY <2>1 DEF CallOK, Holds, Calls, Resident
    <2>3. op'[th] = Idle /\ \A u \in Thread : u # th => op'[u] = op[u]
      BY <1>8, GoesEffect DEF StoreInv, WriteFrame, Returns
    <2>4. /\ UNCHANGED <<directory, spill, image, free, frees>>
          /\ data' = [data EXCEPT ![directory[p]] = v]
      BY <1>8, <2>2 DEF WriteFrame, boundVars
    <2>5. /\ Pending[th] = {[page |-> p, val |-> v, new |-> FALSE]}
          /\ Pending' = [Pending EXCEPT ![th] = {}]
      <3>1. /\ Asked(op[th]) = {[page |-> p, val |-> v, new |-> FALSE]}
            /\ Asked(op'[th]) = {}
        <4>1. PICK new \in BOOLEAN : new = (op[th].kind = "allocate") /\ new = FALSE
          BY <2>2
        <4>2. /\ Asked(op[th]) = {[page |-> p, val |-> v, new |-> new]}
              /\ Asked(op'[th]) = {}
          BY <2>1, <2>2, <2>3, <4>1 DEF Asked, InCall, Idle
        <4> QED
          BY <4>1, <4>2
      <3> QED
        BY <2>3, <3>1, PendingMap
    <2>6. \A q \in Page : Allocating(q)' <=> Allocating(q)
      BY <2>2, <2>3 DEF Allocating, Allocates, InCall, Idle
    <2>7. ~Allocating(p)
      BY <2>1, <2>2 DEF Allocating, Allocates, StoreInv, CacheInv, AllocatedAlone
    <2>8. \A q \in Page : q # p => Copy(q)' = Copy(q)
      BY <2>2, <2>4 DEF Copy, Resident, Spilled, StoreInv, TypeOK, CacheInv, FramesApart
    <2>9. Copy(p)' = v
      BY <2>2, <2>4 DEF Copy, Resident, StoreInv, TypeOK
    <2>10. Content' = [Content EXCEPT ![p] = v]
      BY <2>2, <2>4, <2>6, <2>7, <2>8, <2>9, OneContent DEF NoOnes
    <2>11. Content[p] # NoPage
      BY <2>2, <2>7, ContentIs
    <2> QED
      BY <2>4, <2>5, <2>10, <2>11 DEF PM!Take
  <1>9. ASSUME NEW th \in Thread, Evict(th)
        PROVE  UNCHANGED PM!vars
    <2>1. /\ InCall(th)' /\ op'[th].page = op[th].page /\ op'[th].kind = op[th].kind
          /\ op'[th].val = op[th].val /\ \A u \in Thread : u # th => op'[u] = op[u]
      BY <1>9, EvictKeeps DEF InCall
    <2>2. InCall(th) /\ UNCHANGED <<data, image, free, frees>> /\ op[th] \in Calls
      BY <1>9, CallOrIdle DEF Evict, InCall, boundVars, StoreInv
    <2>3. Pending' = Pending
      <3>1. \A u \in Thread : Asked(op'[u]) = Asked(op[u])
        BY <2>1, <2>2 DEF Asked, InCall
      <3> QED
        BY <3>1, PendingMap
    <2>4. \A q \in Page : Allocating(q)' <=> Allocating(q)
      BY <2>1, <2>2 DEF Allocating, Allocates, InCall
    <2>5. \A q \in Page : Copy(q)' = Copy(q)
      <3>1. PICK v \in op[th].victim :
              IF Evictable(v.page) /\ (dirty[directory[v.page]] => v.spill)
              THEN SpillOut(v.page) /\ directory' = [directory EXCEPT ![v.page] = NoFrame]
              ELSE UNCHANGED <<directory, spill, generation, dirtyFrames>>
        BY <1>9 DEF Evict
      <3>2. CASE UNCHANGED <<directory, spill, generation, dirtyFrames>>
        BY <2>2, <3>2 DEF Copy, Resident, Spilled
      <3>3. CASE /\ Evictable(v.page) /\ SpillOut(v.page)
                 /\ directory' = [directory EXCEPT ![v.page] = NoFrame]
        <4>1. PICK p \in Page : p = v.page
          BY <2>2 DEF Calls
        <4>2. /\ Resident(p) /\ ~Resident(p)' /\ ~Spilled(p)
              /\ \A q \in Page : q # p => directory'[q] = directory[q]
          BY <3>3, <4>1 DEF Evictable, Resident, StoreInv, TypeOK, CacheInv, OneLatestCopy
        <4>3. CASE dirty[directory[p]]
          <5>1. /\ spill'[p].val = data[directory[p]] /\ spill'[p].gen = generation + 1
                /\ \A q \in Page : q # p => spill'[q] = spill[q]
            BY <3>3, <4>1, <4>3 DEF SpillOut, StoreInv, TypeOK
          <5>2. Spilled(p)'
            BY <5>1 DEF Spilled, StoreInv, TypeOK
          <5> QED
            BY <2>2, <4>2, <5>1, <5>2 DEF Copy, Resident, Spilled
        <4>4. CASE ~dirty[directory[p]]
          <5>1. spill' = spill /\ image[p] = data[directory[p]]
            BY <3>3, <4>1, <4>2, <4>4 DEF SpillOut, StoreInv, CacheInv, OneLatestCopy
          <5> QED
            BY <2>2, <4>2, <5>1 DEF Copy, Resident, Spilled
        <4> QED
          BY <4>3, <4>4
      <3> QED
        BY <3>1, <3>2, <3>3
    <2>6. Content' = Content
      BY <2>2, <2>4, <2>5, SameContent DEF NoOnes
    <2> QED
      BY <2>2, <2>3, <2>6 DEF PM!vars
  <1>10. ASSUME NEW th \in Thread, InsertFrame(th)
         PROVE  PM!Take(th) \/ UNCHANGED PM!vars
    <2>1. op[th] \in Calls /\ InCall(th) /\ CallOK(th, op[th]) /\ op[th].at = "insert"
      BY <1>10, CallOrIdle DEF InsertFrame, InCall, StoreInv, CacheInv, CallsOK
    <2>2. PICK p \in Page : p = op[th].page /\ ~Resident(p) /\ p \notin free
      BY <1>10, <2>1 DEF InsertFrame, CallOK, Calls
    <2>3. /\ UNCHANGED <<image, free, frees>> /\ directory' = [directory EXCEPT ![p] = NewFrame]
          /\ spill' = [spill EXCEPT ![p] = NoCopy] /\ data'[NewFrame] = op[th].copy
          /\ NewFrame \in Frame
          /\ \A q \in Page : Resident(q) => data'[directory[q]] = data[directory[q]]
      <3>1. /\ NewFrame \in Frame
            /\ \A q \in Page : Resident(q) => /\ directory[q] \in Frame \ Unused
                                              /\ directory[q] # NewFrame
        BY <2>2, FrameToSpare DEF Unused, StoreInv, TypeOK, Resident
      <3>2. data' = [g \in Frame |-> IF g = NewFrame THEN op[th].copy
                                     ELSE IF g \in Unused THEN Zero ELSE data[g]]
        BY <1>10 DEF InsertFrame
      <3> QED
        BY <1>10, <2>2, <3>1, <3>2 DEF InsertFrame, boundVars
    <2>4. \A q \in Page : q # p => Copy(q)' = Copy(q)
      BY <2>2, <2>3 DEF Copy, Resident, Spilled, StoreInv, TypeOK
    <2>5. Copy(p)' = op[th].copy
      BY <2>2, <2>3 DEF Copy, Resident, StoreInv, TypeOK
    <2>6. /\ \A u \in Thread : u # th => op'[u] = op[u]
          /\ op[th].from # "fresh" => op[th].copy = Copy(p)
          /\ IF op[th].kind = "modify"
             THEN /\ InCall(th)' /\ op'[th].page = p /\ op'[th].kind = "modify"
                  /\ op'[th].val = op[th].val
             ELSE op'[th] = Idle
      BY <1>10, <2>2, InsertKeeps
    <2>7. \A q \in Page : q # p => (Allocating(q)' <=> Allocating(q))
      BY <2>2, <2>6 DEF Allocating, Allocates, InCall, Idle
    <2>8. ~Allocating(p)'
      <3> SUFFICES ASSUME NEW u \in Thread, Allocates(u, p)' PROVE FALSE
        BY DEF Allocating
      <3>1. CASE u = th
        BY <2>6, <3>1 DEF Allocates, InCall, Idle
      <3>2. CASE u # th
        <4>1. Allocates(u, p)
          BY <2>6, <3>2 DEF Allocates, InCall
        <4> QED
          BY <2>1, <2>2, <3>2, <4>1 DEF StoreInv, CacheInv, AllocatedAlone
      <3> QED
        BY <3>1, <3>2
    <2>9. CASE op[th].kind \in {"read", "modify"}
      <3>1. op[th].copy = Copy(p)
        BY <2>1, <2>6, <2>9 DEF CallOK, Carries
      <3>2. ~Allocating(p)
        BY <2>1, <2>2, <2>9 DEF Allocating, Allocates, StoreInv, CacheInv, AllocatedAlone
      <3>3. Content' = Content
        BY <2>3, <2>4, <2>5, <2>7, <2>8, <3>1, <3>2, SameContent DEF NoOnes
      <3>4. \A u \in Thread : Asked(op'[u]) = Asked(op[u])
        BY <2>1, <2>2, <2>6, <2>9 DEF Asked, InCall, Idle
      <3> QED
        BY <2>3, <3>3, <3>4, PendingMap DEF PM!vars
    <2>10. CASE op[th].kind \in {"write", "allocate"}
      <3>1. PICK v \in Value : v = op[th].val /\ v = op[th].copy
        BY <2>1, <2>10 DEF CallOK, Carries
      <3>2. Content' = [Content EXCEPT ![p] = v]
        BY <2>2, <2>3, <2>4, <2>5, <2>7, <2>8, <3>1, OneContent DEF NoOnes
      <3>3. PICK new \in BOOLEAN : new = (op[th].kind = "allocate")
        OBVIOUS
      <3>4. new <=> Content[p] = NoPage
        <4>1. CASE op[th].kind = "allocate"
          BY <2>1, <2>2, <3>3, <4>1, ContentMap DEF NoOnes, Allocating, Allocates
        <4>2. CASE op[th].kind = "write"
          <5>1. ~Allocating(p)
            BY <2>1, <2>2, <4>2 DEF Allocating, Allocates, StoreInv, CacheInv, AllocatedAlone
          <5> QED
            BY <2>2, <3>3, <4>2, <5>1, ContentIs
        <4> QED
          BY <2>10, <4>1, <4>2
      <3>5. /\ Asked(op[th]) = {[page |-> p, val |-> v, new |-> new]}
            /\ Asked(op'[th]) = {}
        BY <2>1, <2>2, <2>6, <2>10, <3>1, <3>3 DEF Asked, InCall, Idle
      <3>6. /\ Pending[th] = {[page |-> p, val |-> v, new |-> new]}
            /\ Pending' = [Pending EXCEPT ![th] = {}]
        BY <2>6, <3>5, PendingMap
      <3>7. PM!Take(th)
        BY <2>3, <3>2, <3>4, <3>6 DEF PM!Take
      <3> QED
        BY <3>7
    <2> QED
      BY <2>1, <2>9, <2>10 DEF Calls
  <1>11. ASSUME NEW stay \in SUBSET Page, Checkpoint(stay)
         PROVE  UNCHANGED PM!vars
    <2>1. op' = op /\ frees' = frees
      BY <1>11, CheckpointKeeps DEF Checkpoint
    <2>2. Content' = Content
      BY <1>11, CheckpointKeeps, SameContent DEF NoOnes
    <2> QED
      BY <2>1, <2>2, PendingMap DEF PM!vars
  <1> QED
    BY <1>1, <1>2, <1>3, <1>4, <1>5, <1>6, <1>7, <1>8, <1>9, <1>10, <1>11 DEF Step, PM!Next

-----------------------------------------------------------------------------
(* The theorems                                                            *)

\* Every step keeps the store's part of the invariant.
LEMMA StoreStep ==
    ASSUME StoreInv, [Next]_vars
    PROVE  StoreInv'
  <1> USE PageCacheAssumption, NoPageIsNone, NoFrameIsNone
  <1>1. CASE UNCHANGED vars
    BY <1>1 DEF vars, storeVars, boundVars, StoreInv, TypeOK, CacheInv, FramesApart, OneLatestCopy,
        CallsOK, CallOK, Holds, Carries, LatchesOwned, AllocatedAlone, Allocates, Allocating,
        InCall, DirtyCounted, Resident, Spilled
  <1>2. CASE Next
    <2>1. CacheInv' /\ StoreType'
      <3>1. ASSUME NEW th \in Thread,
                   \/ FindFrame(th) \/ FindSpilled(th) \/ FindNothing(th) \/ Load(th)
                   \/ FindNoFrame(th) \/ RoomEnds(th) \/ EvictSpillFails(th)
                   \/ InsertRefused(th) \/ \E p \in Page : PickVictim(th, p)
            PROVE  CacheInv' /\ StoreType'
        <4>1. CacheInv' /\ op' \in [Thread -> Calls \cup {Idle}]
          BY <3>1, MoveKeeps
        <4>2. UNCHANGED <<storeVars, boundVars>>
          BY <3>1 DEF FindFrame, FindSpilled, FindNothing, Load, FindNoFrame, RoomEnds,
                      EvictSpillFails, InsertRefused, PickVictim
        <4> QED
          BY <4>1, <4>2 DEF StoreType, StoreInv, TypeOK, storeVars, boundVars
      <3> QED
        BY <1>2, <3>1, BeginKeeps, DeallocateKeeps, FrameKeeps, EvictKeeps, InsertKeeps,
           CheckpointKeeps DEF Next, Step
    <2>2. dirtyFrames' = Cardinality(DirtyPages') /\ dirtyFrames' \in Nat
      <3>1. IsFiniteSet(DirtyPages')
        BY FS_Subset DEF DirtyPages
      <3> QED
        BY <1>2, <3>1, CountStep, FS_CardinalityType DEF Next
    <2>3. DirtyCounted'
      BY <2>1, <2>2 DEF DirtyCounted, DirtyPages, Dirty, CacheInv, OneLatestCopy
    <2>4. Content' \in [Page -> Value \cup {NoPage}]
      BY <2>1, ContentMap DEF StoreType, Copy, Resident
    <2>5. seen' \in [Thread -> SUBSET (Value \cup {NoPage})]
      <3>1. \A th \in Thread : op'[th].at # "idle" => op'[th].page \in Page
        BY <2>1 DEF StoreType, Calls, Idle
      <3> QED
        BY <1>2, <2>4, <3>1 DEF Next, Watch, StoreInv, TypeOK
    <2>6. misread' \in BOOLEAN
      <3>1. misread' = misread \/ \E th \in Thread, v \in Value : Answers(th, v)
        <4>1. ASSUME NEW th \in Thread, ReadFrame(th)
              PROVE  \E v \in Value : Answers(th, v)
          <5>1. op[th].frame \in Frame
            BY <4>1 DEF ReadFrame, StoreInv, CacheInv, CallsOK, CallOK, Holds, InCall
          <5> QED
            BY <4>1, <5>1 DEF ReadFrame, StoreInv, TypeOK
        <4>2. ASSUME NEW th \in Thread, InsertFrame(th), op[th].kind = "read"
              PROVE  \E v \in Value : Answers(th, v)
          <5>1. op[th].copy \in Value
            BY <4>2 DEF InsertFrame, StoreInv, CacheInv, CallsOK, CallOK, Carries, InCall
          <5> QED
            BY <4>2, <5>1 DEF InsertFrame
        <4>3. ASSUME NEW th \in Thread, InsertFrame(th), op[th].kind # "read"
              PROVE  misread' = misread
          BY <4>3 DEF InsertFrame
        <4> QED
          BY <1>2, <4>1, <4>2, <4>3
             DEF Next, Step, BeginRead, BeginWrite, BeginAllocate, Begins, PickVictim, Deallocate,
                 FindFrame, FindSpilled, FindNothing, Load, FindNoFrame, LatchFrame, WriteFrame,
                 RoomEnds, Evict, EvictSpillFails, InsertRefused, Checkpoint
      <3> QED
        BY <3>1 DEF Answers, StoreInv, TypeOK
    <2>7. TypeOK'
      BY <2>1, <2>2, <2>5, <2>6 DEF TypeOK, StoreType
    <2> QED
      BY <2>1, <2>3, <2>7 DEF StoreInv
  <1> QED
    BY <1>1, <1>2

\* Every step keeps what the threads have seen: a frame that has left the directory keeps
\* the content it left with, and one that is written is still registered.
LEMMA SeenStep ==
    ASSUME StoreInv, StoreInv', SeenInv, [Next]_vars
    PROVE  SeenInv'
  <1> USE PageCacheAssumption, NoPageIsNone, NoFrameIsNone
  <1>1. CASE UNCHANGED vars
    <2>1. Content' = Content
      BY <1>1 DEF vars, storeVars, Content, Calling, Copy, Resident, Spilled
    <2> QED
      BY <1>1, <2>1 DEF vars, storeVars, SeenInv, InCall
  <1>2. CASE Next
    <2>1. \A th \in Thread : InCall(th)' =>
            /\ Content'[op'[th].page] \in seen'[th] /\ seen[th] \subseteq seen'[th]
      BY <1>2 DEF Next, Watch, InCall
    <2>2. \A th \in Thread : InCall(th) /\ op[th].kind # "allocate" => ~NoOnes(op[th].page)
      BY DEF NoOnes, Allocating, Allocates, StoreInv, CacheInv, AllocatedAlone, CallsOK, CallOK
    <2>4. ASSUME NEW th \in Thread, InCall(th)', op'[th].at \in {"frame", "latched"}
          PROVE  data'[op'[th].frame] \in seen'[th]
      <3>0. ~NoOnes(op[th].page)' => Content'[op'[th].page] = Copy(op[th].page)'
        <4>1. op'[th].page \in Page
          BY <2>4 DEF InCall, StoreInv, TypeOK, Calls, Idle
        <4> QED
          BY <4>1, ContentMap
      <3>1. op'[th].kind # "allocate"
        BY <2>4 DEF StoreInv, CacheInv, CallsOK, CallOK
      <3>2. ~NoOnes(op[th].page)'
        BY <2>4, <3>1 DEF NoOnes, Allocating, Allocates, StoreInv, CacheInv, AllocatedAlone,
                          CallsOK, CallOK
      <3>3. directory'[op'[th].page] = op'[th].frame => data'[op'[th].frame] \in seen'[th]
        <4>1. op'[th].frame \in Frame
          BY <2>4 DEF StoreInv, CacheInv, CallsOK, CallOK, Holds
        <4> QED
          BY <2>1, <2>4, <3>0, <3>2, <4>1 DEF Copy, Resident
      <3>4. directory'[op'[th].page] # op'[th].frame =>
              /\ InCall(th) /\ op'[th].frame = op[th].frame
              /\ op[th].at \in {"frame", "latched"} /\ data'[op[th].frame] = data[op[th].frame]
        <4> SUFFICES ASSUME directory'[op'[th].page] # op'[th].frame
                     PROVE  /\ InCall(th) /\ op'[th].frame = op[th].frame
                            /\ op[th].at \in {"frame", "latched"}
                            /\ data'[op[th].frame] = data[op[th].frame]
          OBVIOUS
        <4> DEFINE Kept == op'[th] = op[th] /\ data'[op[th].frame] = data[op[th].frame]
        <4>1. SUFFICES Kept \/ LatchFrame(th)
          <5>1. CASE Kept
            BY <2>4, <5>1 DEF InCall
          <5>2. CASE LatchFrame(th)
            <6>1. op[th] \in Calls /\ op[th].at = "frame"
              BY <5>2, CallOrIdle DEF LatchFrame, InCall, StoreInv
            <6>2. op'[th].at = "latched" => op'[th].frame = op[th].frame
              BY <5>2, <6>1 DEF LatchFrame, Goes, Retries, Busy, Calls, StoreInv, TypeOK
            <6>3. op'[th].at # "frame"
              BY <5>2, <6>1 DEF LatchFrame, Goes, Retries, Busy, Calls, StoreInv, TypeOK
            <6> QED
              BY <2>4, <5>2, <6>1, <6>2, <6>3 DEF LatchFrame, InCall
          <5> QED
            BY <4>1, <5>1, <5>2
        <4>2. ASSUME NEW u \in Thread, NEW p \in Page,
                     \/ BeginRead(u, p)
                     \/ \E kind \in {"write", "modify"} : BeginWrite(u, kind, p)
                     \/ BeginAllocate(u, p)
              PROVE  Kept
          <5>1. data' = data
            BY <4>2 DEF BeginRead, BeginWrite, BeginAllocate, storeVars
          <5>2. u = th => op'[th].at \in {"lookup", "room"}
            BY <4>2 DEF BeginRead, BeginWrite, BeginAllocate, Begins, Goes, Busy, StoreInv, TypeOK
          <5>3. u # th => op'[th] = op[th]
            BY <4>2 DEF BeginRead, BeginWrite, BeginAllocate, Begins, Goes, StoreInv, TypeOK
          <5> QED
            BY <2>4, <5>1, <5>2, <5>3
        <4>3. ASSUME NEW u \in Thread,
                     \/ FindFrame(u) \/ FindSpilled(u) \/ FindNothing(u) \/ Load(u)
                     \/ FindNoFrame(u) \/ RoomEnds(u) \/ EvictSpillFails(u)
                     \/ InsertRefused(u) \/ \E p \in Page : PickVictim(u, p)
              PROVE  Kept
          <5>1. data' = data /\ directory' = directory
            BY <4>3 DEF FindFrame, FindSpilled, FindNothing, Load, FindNoFrame, RoomEnds,
                        EvictSpillFails, InsertRefused, PickVictim, storeVars
          <5>2. /\ u # th => op'[th] = op[th]
                /\ u = th => /\ op'[th].at # "latched" /\ op'[th].page = op[th].page
                             /\ op'[th].at = "frame" => op'[th].frame = directory[op[th].page]
            BY <4>3, MoveKeeps
          <5> QED
            BY <2>4, <5>1, <5>2
        <4>4. ASSUME NEW u \in Thread, ReadFrame(u)
              PROVE  Kept
          <5>1. op'[u] = Idle /\ data' = data /\ \A t \in Thread : t # u => op'[t] = op[t]
            BY <4>4, GoesEffect DEF ReadFrame, Returns, storeVars, StoreInv
          <5> QED
            BY <2>4, <5>1 DEF InCall, Idle
        <4>5. ASSUME NEW u \in Thread, LatchFrame(u), u # th
              PROVE  Kept
          BY <4>5 DEF LatchFrame, Goes, Retries, StoreInv, TypeOK
        <4>6. ASSUME NEW u \in Thread, WriteFrame(u)
              PROVE  Kept
          <5>1. op'[u] = Idle /\ \A t \in Thread : t # u => op'[t] = op[t]
            BY <4>6, GoesEffect DEF WriteFrame, Returns, StoreInv
          <5>2. u # th /\ op'[th] = op[th] /\ InCall(th)
            BY <2>4, <5>1 DEF InCall, Idle
          <5>3. op[u] \in Calls /\ directory[op[u].page] = op[u].frame
            BY <4>6, CallOrIdle DEF WriteFrame, InCall, StoreInv, CacheInv, CallsOK, CallOK, Holds
          <5>4. op[th].frame # op[u].frame
            <6>1. \A q \in Page : directory[q] = op[th].frame => q = op[th].page
              BY <2>4, <5>2 DEF StoreInv, CacheInv, CallsOK, CallOK, Holds
            <6>2. directory' = directory /\ op[u].page \in Page
              BY <4>6, <5>3 DEF WriteFrame, Calls
            <6> QED
              BY <5>2, <5>3, <6>1, <6>2
          <5> QED
            BY <4>6, <5>2, <5>4 DEF WriteFrame, StoreInv, TypeOK
        <4>7. ASSUME NEW u \in Thread, Evict(u)
              PROVE  Kept
          <5>1. op'[u].at = "room" /\ data' = data /\ \A t \in Thread : t # u => op'[t] = op[t]
            BY <4>7, EvictKeeps DEF Evict
          <5> QED
            BY <2>4, <5>1
        <4>8. ASSUME NEW u \in Thread, InsertFrame(u)
              PROVE  Kept
          <5>1. u # th /\ op'[th] = op[th] /\ InCall(th)
            BY <2>4, <4>8, InsertKeeps DEF InCall, Idle
          <5>2. op[th].frame \in Frame \ Unused
            BY <2>4, <5>1 DEF StoreInv, CacheInv, CallsOK, CallOK, Holds, Unused, InCall
          <5>3. NewFrame \in Unused
            <6>1. op[u].page \in Page /\ ~Resident(op[u].page)
              BY <4>8, CallOrIdle DEF InsertFrame, InCall, Calls, StoreInv
            <6> QED
              BY <6>1, FrameToSpare
          <5> QED
            BY <4>8, <5>1, <5>2, <5>3 DEF InsertFrame
        <4>9. ASSUME \/ \E p \in Page : Deallocate(p)
                     \/ \E stay \in SUBSET Page : Checkpoint(stay)
              PROVE  Kept
          BY <4>9 DEF Deallocate, Checkpoint
        <4> HIDE DEF Kept
        <4> QED
          BY <1>2, <4>2, <4>3, <4>4, <4>5, <4>6, <4>7, <4>8, <4>9 DEF Next, Step
      <3> QED
        BY <2>1, <2>4, <3>3, <3>4 DEF SeenInv
    <2>5. ~misread'
      <3>1. ASSUME NEW th \in Thread, ReadFrame(th)
            PROVE  ~misread'
        BY <3>1 DEF ReadFrame, Answers, SeenInv, InCall
      <3>2. ASSUME NEW th \in Thread, InsertFrame(th), op[th].kind = "read"
            PROVE  ~misread'
        <4>1. op[th] \in Calls /\ InCall(th) /\ CallOK(th, op[th]) /\ op[th].at = "insert"
          BY <3>2, CallOrIdle DEF InsertFrame, InCall, StoreInv, CacheInv, CallsOK
        <4>2. op[th].copy = Copy(op[th].page)
          BY <3>2, <4>1, InsertKeeps DEF CallOK, Carries
        <4>3. op[th].copy = Content[op[th].page]
          BY <2>2, <3>2, <4>1, <4>2, ContentMap DEF Calls
        <4> QED
          BY <3>2, <4>1, <4>3 DEF InsertFrame, Answers, SeenInv
      <3>3. ASSUME NEW th \in Thread, InsertFrame(th), op[th].kind # "read"
            PROVE  misread' = misread
        BY <3>3 DEF InsertFrame
      <3> QED
        BY <1>2, <3>1, <3>2, <3>3
           DEF SeenInv, Next, Step, BeginRead, BeginWrite, BeginAllocate, Begins, PickVictim,
               Deallocate, FindFrame, FindSpilled, FindNothing, Load, FindNoFrame, LatchFrame,
               WriteFrame, RoomEnds, Evict, EvictSpillFails, InsertRefused, Checkpoint
    <2> QED
      BY <2>1, <2>4, <2>5 DEF SeenInv
  <1> QED
    BY <1>1, <1>2

\* The invariant holds of an empty store.
LEMMA StoreInit == Init => StoreInv /\ SeenInv
  <1> SUFFICES ASSUME Init PROVE StoreInv /\ SeenInv
    OBVIOUS
  <1> USE PageCacheAssumption, NoPageIsNone, NoFrameIsNone
  <1>1. \A th \in Thread : ~InCall(th)
    BY DEF Init, InCall, Idle
  <1>2. \A p \in Page : ~Resident(p) /\ ~Spilled(p) /\ spill[p].gen = 0
    BY DEF Init, Resident, Spilled, NoCopy
  <1>3. TypeOK
    <2>1. NoCopy \in [val : Value \cup {NoPage}, gen : Nat]
      BY DEF NoCopy
    <2>2. writes \in 0..MaxWrite /\ op \in [Thread -> Calls \cup {Idle}]
      BY DEF Init
    <2> QED
      BY <2>1, <2>2 DEF Init, TypeOK
  <1>4. CacheInv
    BY <1>1, <1>2 DEF Init, CacheInv, FramesApart, OneLatestCopy, CallsOK, LatchesOwned,
                      AllocatedAlone
  <1>5. DirtyCounted
    <2>1. {p \in Page : Resident(p) /\ dirty[directory[p]]} = {}
      BY <1>2
    <2> QED
      BY <1>2, <2>1, FS_EmptySet DEF DirtyCounted, Init
  <1>6. SeenInv
    BY <1>1 DEF SeenInv, Init
  <1> QED
    BY <1>3, <1>4, <1>5, <1>6 DEF StoreInv

\* The page cache keeps its types, counts the changed frames that are registered, and keeps
\* one latest copy of every page, for any number of threads and pages and any capacity.
THEOREM StoreIsSound == Spec => []StoreInv
  <1>1. Init => StoreInv
    BY StoreInit
  <1>2. StoreInv /\ [Next]_vars => StoreInv'
    BY StoreStep
  <1> QED
    BY <1>1, <1>2, PTL DEF Spec

\* dirty_frames, from which a sweep decides whether it may spill, never drifts from the
\* frames it counts, whatever evictions, refused inserts and checkpoints come between.
THEOREM DirtyCountExact == Spec => []DirtyCounted
  <1>1. StoreInv => DirtyCounted
    BY DEF StoreInv
  <1> QED
    BY <1>1, StoreIsSound, PTL

\* The store's types.
THEOREM StoreTyped == Spec => []TypeOK
  <1>1. StoreInv => TypeOK
    BY DEF StoreInv
  <1> QED
    BY <1>1, StoreIsSound, PTL

\* A read returns a content its page had at some moment of the call, through any number of
\* evictions, spills and reloads in between (read_page, locate, insert_frame).
THEOREM ReadsCurrent == Spec => []ReadsAreCurrent
  <1>1. Init => SeenInv
    BY StoreInit
  <1>2. StoreInv /\ StoreInv' /\ SeenInv /\ [Next]_vars => SeenInv'
    BY SeenStep
  <1>3. SeenInv => ReadsAreCurrent
    BY DEF SeenInv, ReadsAreCurrent
  <1> QED
    BY <1>1, <1>2, <1>3, StoreIsSound, PTL DEF Spec

\* Whatever is loaded, evicted, spilled, reloaded and checkpointed underneath, callers see a
\* map of pages in which every change is one they asked for, made once (the PageStore trait).
THEOREM CacheImplementsPageMap == Spec => ImplementsPageMap
  <1>1. Init => PM!Init
    <2> SUFFICES ASSUME Init PROVE PM!Init
      OBVIOUS
    <2>1. Content = [p \in Page |-> NoPage]
      BY ContentMap DEF Init, NoOnes
    <2>2. Pending = [th \in Thread |-> {}]
      BY PendingMap DEF Init, Asked, Idle
    <2> QED
      BY <2>1, <2>2 DEF Init, PM!Init
  <1>2. StoreInv /\ [Next]_vars => [PM!Next]_PM!vars
    <2> SUFFICES ASSUME StoreInv, [Next]_vars PROVE PM!Next \/ UNCHANGED PM!vars
      OBVIOUS
    <2>1. CASE Next
      BY <2>1, StepImplements DEF Next
    <2>2. CASE UNCHANGED vars
      <3>1. Content' = Content /\ Pending' = Pending /\ frees' = frees
        BY <2>2 DEF vars, storeVars, boundVars, Content, Pending, Calling, Copy, Resident, Spilled
      <3> QED
        BY <3>1 DEF PM!vars
    <2> QED
      BY <2>1, <2>2
  <1> QED
    BY <1>1, <1>2, StoreIsSound, PTL DEF Spec, ImplementsPageMap, PM!Spec
=============================================================================
