------------------------------ MODULE PageCache ------------------------------
(***************************************************************************)
(* The page cache (nusadb-btree/src/store.rs, PagedStore): pages live in a *)
(* bounded set of frames over the last checkpoint image; a clean page      *)
(* simply leaves, a changed one leaves by way of a scratch file.  Threads  *)
(* look up, load, latch, insert and evict in steps of their own; a frame   *)
(* that has left the directory may still be in a thread's hands.           *)
(*                                                                         *)
(* The clock decides which of the frames that may leave does leave; here   *)
(* it is any of them.  The engine frees a page once no reader can reach it *)
(* (tree.rs, Retired), so a call and the freeing of its page never meet.   *)
(***************************************************************************)
EXTENDS Naturals, FiniteSets

CONSTANTS
    Page,           \* page ids
    Thread,
    Capacity,       \* capacity_frames
    MaxWrite,       \* bound: contents written, each new
    MaxImage,       \* bound: checkpoints
    MaxFree,        \* bound: deallocations
    MaxSpill        \* bound: pages written to the spill

ASSUME PageCacheAssumption ==
    /\ Capacity \in Nat \ {0} /\ MaxWrite \in Nat /\ MaxImage \in Nat /\ MaxFree \in Nat
    /\ MaxSpill \in Nat /\ IsFiniteSet(Page) /\ IsFiniteSet(Thread)

Zero == 0
Value == 0..MaxWrite
NoPage == MaxWrite + 1      \* no such page: free, or not in the image

\* A frame is in the directory or in the hands of at most every thread.
Frame == 1..(Cardinality(Page) + Cardinality(Thread))
NoFrame == 0

VARIABLES
    directory,      \* frames: the frame registered for each page
    data,           \* content of each frame
    dirty,          \* the frame differs from the image
    latch,          \* the thread that has write-latched the frame
    spill,          \* Spill.slots: content and generation of each spilled page
    generation,     \* Spill.next_generation
    image,          \* the image's pages
    free,           \* the free list
    dirtyFrames,    \* dirty_frames
    op,             \* what each thread is doing
    \* History and bounds.
    seen,           \* contents of its page since each thread's call began
    misread,        \* a read returned a content that is not among them
    writes, checkpoints, frees

storeVars == <<directory, data, dirty, latch, spill, generation, image, free, dirtyFrames>>
boundVars == <<writes, checkpoints, frees>>
vars == <<storeVars, op, seen, misread, boundVars>>

-----------------------------------------------------------------------------
(* Where a page is                                                         *)

Idle == [at |-> "idle"]
Busy(at, kind, p, v) == [at |-> at, kind |-> kind, page |-> p, val |-> v, frame |-> NoFrame,
                         copy |-> v, from |-> "fresh", gen |-> 0, victim |-> {}]

Calling(p) == {th \in Thread : op[th].at # "idle" /\ op[th].page = p}

Resident(p) == directory[p] # NoFrame
Spilled(p) == spill[p].gen # 0
NoCopy == [val |-> NoPage, gen |-> 0]

\* locate: the latest copy is in a frame, in the spill, or in the image.
Copy(p) == IF Resident(p) THEN data[directory[p]]
           ELSE IF Spilled(p) THEN spill[p].val ELSE image[p]

\* The page map the store stands for: an id being allocated is no one's yet.
Content == [p \in Page |->
    IF p \in free \/ \E th \in Calling(p) : op[th].kind = "allocate" THEN NoPage ELSE Copy(p)]

\* A frame no one knows of.
Unused == {f \in Frame : /\ \A p \in Page : directory[p] # f
                         /\ \A th \in Thread : op[th].at # "idle" => op[th].frame # f}
NewFrame == CHOOSE f \in Unused : TRUE

InMemory == Cardinality({p \in Page : Resident(p)})

Goes(th, next) == op' = [op EXCEPT ![th] = next]
Returns(th) == Goes(th, Idle)
Retries(th) == Goes(th, Busy("lookup", op[th].kind, op[th].page, op[th].val))
Answers(th, v) == misread' = (misread \/ v \notin seen[th])
Begins(th, at, kind, p, v) == /\ op[th].at = "idle"
                              /\ Goes(th, Busy(at, kind, p, v))
                              /\ UNCHANGED misread

\* Every step: what the threads in a call could have seen of their page.
Watch == seen' = [th \in Thread |->
    IF op'[th].at = "idle" THEN {} ELSE seen[th] \cup {Content'[op'[th].page]}]

-----------------------------------------------------------------------------
(* Calls begin                                                             *)

\* read_page, and with_page.
BeginRead(th, p) ==
    /\ Content[p] # NoPage
    /\ Begins(th, "lookup", "read", p, NoPage)
    /\ UNCHANGED <<storeVars, boundVars>>

\* write_page puts a whole page; modify_page changes it in place.
BeginWrite(th, kind, p) ==
    /\ Content[p] # NoPage /\ writes < MaxWrite
    /\ Begins(th, "lookup", kind, p, writes + 1)
    /\ writes' = writes + 1
    /\ UNCHANGED <<storeVars, checkpoints, frees>>

\* allocate_page: an id off the free list (or a new one), then its frame.
BeginAllocate(th, p) ==
    /\ p \in free
    /\ free' = free \ {p}
    /\ Begins(th, "room", "allocate", p, Zero)
    /\ UNCHANGED <<directory, data, dirty, latch, spill, generation, image, dirtyFrames, boundVars>>

\* deallocate_page, of a page no one can reach any more.
Deallocate(p) ==
    /\ frees < MaxFree /\ frees' = frees + 1
    /\ Content[p] # NoPage /\ Calling(p) = {}
    /\ dirtyFrames' = IF Resident(p) /\ dirty[directory[p]] THEN dirtyFrames - 1 ELSE dirtyFrames
    /\ directory' = [directory EXCEPT ![p] = NoFrame]
    /\ spill' = [spill EXCEPT ![p] = NoCopy]
    /\ free' = free \cup {p}
    /\ UNCHANGED <<data, dirty, latch, generation, image, op, misread, writes, checkpoints>>

-----------------------------------------------------------------------------
(* Lookup, and the frame's own path                                        *)

\* A frame is registered: the thread holds it, whatever happens to it next.
FindFrame(th) ==
    LET p == op[th].page
    IN  /\ op[th].at = "lookup" /\ Resident(p)
        /\ Goes(th, [op[th] EXCEPT !.at = "frame", !.frame = directory[p]])
        /\ UNCHANGED <<storeVars, misread, boundVars>>

\* read_page, for modify_page too: the spilled copy, read under the lookup's lock.
FindSpilled(th) ==
    LET p == op[th].page
    IN  /\ op[th].at = "lookup" /\ op[th].kind \in {"read", "modify"} /\ ~Resident(p) /\ Spilled(p)
        /\ Goes(th, [op[th] EXCEPT !.at = "room", !.from = "spill",
                                   !.gen = spill[p].gen, !.copy = spill[p].val])
        /\ UNCHANGED <<storeVars, misread, boundVars>>

\* Neither: the image's copy is current, and is read next.
FindNothing(th) ==
    /\ op[th].at = "lookup" /\ op[th].kind \in {"read", "modify"}
    /\ ~Resident(op[th].page) /\ ~Spilled(op[th].page)
    /\ Goes(th, [op[th] EXCEPT !.at = "load"])
    /\ UNCHANGED <<storeVars, misread, boundVars>>

Load(th) ==
    /\ op[th].at = "load"
    /\ Goes(th, [op[th] EXCEPT !.at = "room", !.from = "image", !.copy = image[op[th].page]])
    /\ UNCHANGED <<storeVars, misread, boundVars>>

\* write_page, and an allocation whose frame was there already, need no copy.
FindNoFrame(th) ==
    /\ op[th].at = "lookup" /\ op[th].kind \in {"write", "allocate"} /\ ~Resident(op[th].page)
    /\ Goes(th, [op[th] EXCEPT !.at = "room"])
    /\ UNCHANGED <<storeVars, misread, boundVars>>

\* Under the frame's read latch.
ReadFrame(th) ==
    /\ op[th].at = "frame" /\ op[th].kind = "read" /\ latch[op[th].frame] = {}
    /\ Answers(th, data[op[th].frame])
    /\ Returns(th)
    /\ UNCHANGED <<storeVars, boundVars>>

\* is_registered, asked under the write latch.
Registered(p, f) == directory[p] = f

LatchFrame(th) ==
    LET f == op[th].frame
    IN  /\ op[th].at = "frame" /\ op[th].kind # "read" /\ latch[f] = {}
        /\ IF Registered(op[th].page, f)
           THEN /\ latch' = [latch EXCEPT ![f] = {th}]
                /\ Goes(th, [op[th] EXCEPT !.at = "latched"])
           ELSE Retries(th) /\ UNCHANGED latch
        /\ UNCHANGED <<directory, data, dirty, spill, generation, image, free, dirtyFrames,
                       misread, boundVars>>

WriteFrame(th) ==
    LET f == op[th].frame
    IN  /\ op[th].at = "latched"
        /\ data' = [data EXCEPT ![f] = op[th].val]
        /\ dirty' = [dirty EXCEPT ![f] = TRUE]
        /\ dirtyFrames' = IF dirty[f] THEN dirtyFrames ELSE dirtyFrames + 1
        /\ latch' = [latch EXCEPT ![f] = {}]
        /\ Returns(th)
        /\ UNCHANGED <<directory, spill, generation, image, free, misread, boundVars>>

-----------------------------------------------------------------------------
(* Making room and going in                                                *)

\* Mutant: any spilled copy will do.
AdmitsAnySpill(p, from, gen) ==
    CASE from = "fresh" -> TRUE
      [] from = "image" -> ~Spilled(p)
      [] from = "spill" -> Spilled(p)

\* Spill::admits: the copy is still the latest one.
Admits(p, from, gen) ==
    CASE from = "fresh" -> TRUE
      [] from = "image" -> ~Spilled(p)
      [] from = "spill" -> spill[p].gen = gen

Evictable(p) == Resident(p) /\ latch[directory[p]] = {}
Racing(th) == \E u \in Thread \ {th} : op[u].at # "idle"

\* make_room ends: there is room, or nothing can leave, or others are in the way.
RoomEnds(th) ==
    /\ op[th].at = "room" /\ op[th].victim = {}
    /\ InMemory < Capacity \/ Racing(th) \/ ~\E p \in Page : Evictable(p)
       \/ generation = MaxSpill
    /\ Goes(th, [op[th] EXCEPT !.at = "insert"])
    /\ UNCHANGED <<storeVars, misread, boundVars>>

\* pick_victim; the clock's lock is held from here through evict.
PickVictim(th, p) ==
    /\ op[th].at = "room" /\ InMemory >= Capacity
    /\ \A u \in Thread : op[u].at = "room" => op[u].victim = {}
    /\ Evictable(p) /\ (dirty[directory[p]] => generation < MaxSpill)
    /\ Goes(th, [op[th] EXCEPT !.victim = {[page |-> p, spill |-> dirty[directory[p]]]}])
    /\ UNCHANGED <<storeVars, misread, boundVars>>

\* Mutant: every frame that leaves is counted out.
SpillOutAll(p) ==
    /\ dirtyFrames' = dirtyFrames - 1
    /\ IF dirty[directory[p]]
       THEN /\ spill' = [spill EXCEPT ![p] = [val |-> data[directory[p]], gen |-> generation + 1]]
            /\ generation' = generation + 1
       ELSE UNCHANGED <<spill, generation>>

\* Mutant: the count keeps the frame that left.
SpillOutUncounted(p) ==
    IF dirty[directory[p]]
    THEN /\ spill' = [spill EXCEPT ![p] = [val |-> data[directory[p]], gen |-> generation + 1]]
         /\ generation' = generation + 1
         /\ UNCHANGED dirtyFrames
    ELSE UNCHANGED <<spill, generation, dirtyFrames>>

\* Spill::put, for a changed frame: a clean one leaves nothing behind.
SpillOut(p) ==
    IF dirty[directory[p]]
    THEN /\ spill' = [spill EXCEPT ![p] = [val |-> data[directory[p]], gen |-> generation + 1]]
         /\ generation' = generation + 1
         /\ dirtyFrames' = dirtyFrames - 1
    ELSE UNCHANGED <<spill, generation, dirtyFrames>>

\* evict: the victim may have been freed, latched or changed since it was picked.
Evict(th) ==
    /\ op[th].at = "room"
    /\ \E v \in op[th].victim :
         IF Evictable(v.page) /\ (dirty[directory[v.page]] => v.spill)
         THEN SpillOut(v.page) /\ directory' = [directory EXCEPT ![v.page] = NoFrame]
         ELSE UNCHANGED <<directory, spill, generation, dirtyFrames>>
    /\ Goes(th, [op[th] EXCEPT !.victim = {}])
    /\ UNCHANGED <<data, dirty, latch, image, free, misread, boundVars>>

\* The spill's write fails: the page stays, and the sweep looks for a clean one or ends.
EvictSpillFails(th) ==
    /\ op[th].at = "room"
    /\ \E v \in op[th].victim : v.spill /\ Evictable(v.page) /\ dirty[directory[v.page]]
    /\ \E at \in {"room", "insert"} : Goes(th, [op[th] EXCEPT !.victim = {}, !.at = at])
    /\ UNCHANGED <<storeVars, misread, boundVars>>

\* insert_frame under the directory's lock.
InsertFrame(th) ==
    LET p == op[th].page
        f == NewFrame
        changed == op[th].from # "image"
    IN  /\ op[th].at = "insert" /\ ~Resident(p) /\ Admits(p, op[th].from, op[th].gen)
        /\ directory' = [directory EXCEPT ![p] = f]
        \* (what no one knows of is wiped, so that garbage tells no states apart)
        /\ data' = [g \in Frame |-> IF g = f THEN op[th].copy ELSE IF g \in Unused THEN Zero ELSE data[g]]
        /\ dirty' = [g \in Frame |-> IF g = f THEN changed ELSE dirty[g] /\ g \notin Unused]
        /\ dirtyFrames' = IF changed THEN dirtyFrames + 1 ELSE dirtyFrames
        /\ spill' = [spill EXCEPT ![p] = NoCopy]
        /\ IF op[th].kind = "modify" THEN Retries(th) ELSE Returns(th)
        /\ IF op[th].kind = "read" THEN Answers(th, op[th].copy) ELSE UNCHANGED misread
        /\ UNCHANGED <<latch, generation, image, free, boundVars>>

\* A frame got there first, or the copy is stale: the caller looks again.
InsertRefused(th) ==
    /\ op[th].at = "insert"
    /\ Resident(op[th].page) \/ ~Admits(op[th].page, op[th].from, op[th].gen)
    /\ Retries(th)
    /\ UNCHANGED <<storeVars, misread, boundVars>>

-----------------------------------------------------------------------------
(* The checkpoint                                                          *)

\* carried_locations: the image holds the page as it is.
Unchanged(p) == IF Resident(p) THEN ~dirty[directory[p]] ELSE ~Spilled(p)

\* Mutant: a call may be in flight.
QuietOrNot == TRUE

\* No transaction runs and the engine's locks are held: no call is in flight.
Quiet == \A th \in Thread : op[th].at = "idle"

\* plan_segments and each_page write the new image; attach and trim after its rename.
\* A publish that fails puts the old image back (reattach) and changes nothing.
Checkpoint(stay) ==
    /\ checkpoints < MaxImage /\ Quiet
    /\ checkpoints' = checkpoints + 1
    /\ image' = [p \in Page |-> IF p \in free THEN NoPage
                               ELSE IF Unchanged(p) THEN image[p] ELSE Copy(p)]
    /\ free' = free \cup {p \in Page : image'[p] = NoPage /\ ~Resident(p)}
    /\ dirty' = [f \in Frame |-> FALSE] /\ dirtyFrames' = 0
    /\ spill' = [p \in Page |-> NoCopy]
    /\ \A p \in stay : Resident(p)
    /\ Cardinality(stay) = IF InMemory < Capacity THEN InMemory ELSE Capacity - 1
    /\ directory' = [p \in Page |-> IF p \in stay THEN directory[p] ELSE NoFrame]
    /\ UNCHANGED <<data, latch, generation, op, misread, writes, frees>>

-----------------------------------------------------------------------------

Init ==
    /\ directory = [p \in Page |-> NoFrame]
    /\ data = [f \in Frame |-> Zero] /\ dirty = [f \in Frame |-> FALSE]
    /\ latch = [f \in Frame |-> {}]
    /\ spill = [p \in Page |-> NoCopy] /\ generation = 0
    /\ image = [p \in Page |-> NoPage] /\ free = Page /\ dirtyFrames = 0
    /\ op = [th \in Thread |-> Idle]
    /\ seen = [th \in Thread |-> {}] /\ misread = FALSE
    /\ writes = 0 /\ checkpoints = 0 /\ frees = 0

Step ==
    \/ \E th \in Thread, p \in Page :
        \/ BeginRead(th, p)
        \/ \E kind \in {"write", "modify"} : BeginWrite(th, kind, p)
        \/ BeginAllocate(th, p)
        \/ PickVictim(th, p)
    \/ \E p \in Page : Deallocate(p)
    \/ \E th \in Thread :
        \/ FindFrame(th) \/ FindSpilled(th) \/ FindNothing(th) \/ Load(th) \/ FindNoFrame(th)
        \/ ReadFrame(th) \/ LatchFrame(th) \/ WriteFrame(th)
        \/ RoomEnds(th) \/ Evict(th) \/ EvictSpillFails(th)
        \/ InsertFrame(th) \/ InsertRefused(th)
    \/ \E stay \in SUBSET Page : Checkpoint(stay)

Next == Step /\ Watch

Spec == Init /\ [][Next]_vars

-----------------------------------------------------------------------------
(* Properties                                                              *)

Calls == [at : {"lookup", "load", "frame", "latched", "room", "insert"},
          kind : {"read", "write", "modify", "allocate"}, page : Page,
          val : Value \cup {NoPage}, copy : Value \cup {NoPage},
          frame : Frame \cup {NoFrame}, from : {"fresh", "image", "spill"}, gen : Nat,
          victim : SUBSET [page : Page, spill : BOOLEAN]]

\* The store's fields have their types, and every thread is idle or at a step of one call.
TypeOK ==
    /\ directory \in [Page -> Frame \cup {NoFrame}]
    /\ data \in [Frame -> Value] /\ dirty \in [Frame -> BOOLEAN]
    /\ latch \in [Frame -> SUBSET Thread]
    /\ spill \in [Page -> [val : Value \cup {NoPage}, gen : Nat]] /\ generation \in Nat
    /\ image \in [Page -> Value \cup {NoPage}] /\ free \in SUBSET Page /\ dirtyFrames \in Nat
    /\ op \in [Thread -> Calls \cup {Idle}]
    /\ seen \in [Thread -> SUBSET (Value \cup {NoPage})] /\ misread \in BOOLEAN
    /\ writes \in 0..MaxWrite /\ checkpoints \in Nat /\ frees \in Nat

\* A read returns a content its page had at some moment of the call, through any number
\* of evictions, spills and reloads in between (read_page, locate, insert_frame).
ReadsAreCurrent == ~misread

\* dirty_frames, which decides whether a sweep may spill, counts exactly the registered
\* frames that differ from the image, and no page is both in memory and in the spill.
DirtyCounted ==
    /\ dirtyFrames = Cardinality({p \in Page : Resident(p) /\ dirty[directory[p]]})
    /\ \A p \in Page : ~(Resident(p) /\ Spilled(p))

\* The change each thread is waiting for.
Pending == [th \in Thread |->
    IF op[th].at = "idle" THEN {}
    ELSE IF op[th].kind = "read" THEN {}
    ELSE {[page |-> op[th].page, val |-> op[th].val, new |-> op[th].kind = "allocate"]}]

PM == INSTANCE PageMap WITH content <- Content, pending <- Pending, freed <- frees

\* Loads, evictions, spills and checkpoints never change what the store holds: seen from
\* outside, every change of a page is one a caller asked for, made once, as the call returns.
ImplementsPageMap == PM!Spec
=============================================================================
