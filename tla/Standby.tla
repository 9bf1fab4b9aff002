------------------------------- MODULE Standby -------------------------------
(***************************************************************************)
(* Log shipping: a primary archives, at every checkpoint, the image and    *)
(* the log segment it is about to truncate; a standby starts from an       *)
(* archived image and applies the segments that follow                     *)
(* (nusadb-btree/src/engine.rs: apply_shipped_segment, records_past,       *)
(* append_shipped, hold_admission_until_quiet, checkpoint_quiesced on a    *)
(* standby, seed_standby; nusadb-server/src/database_manager.rs:           *)
(* standby_tick).                                                          *)
(*                                                                         *)
(* A position is an index of the primary's history.  The standby keeps the *)
(* primary's positions and refuses gaps, so its own log is a range of      *)
(* them: past its image, up to `position`.                                 *)
(***************************************************************************)
EXTENDS LogReplay

CONSTANTS
    Gid,            \* global transaction identifiers
    Reader,         \* read-only sessions of the standby
    MaxTxn,         \* bound: transaction ids are 1..MaxTxn
    MaxLsn,         \* bound: log positions
    MaxImage,       \* bound: checkpoints of the primary
    MaxUpset,       \* bound: crashes and failed appends
    CutImages       \* a standby takes images while its log ends inside a transaction

ASSUME StandbyAssumption ==
    /\ MaxTxn \in Nat /\ MaxLsn \in Nat /\ MaxImage \in Nat /\ MaxUpset \in Nat
    /\ CutImages \in BOOLEAN /\ IsFiniteSet(Reader)

Txn == 1..MaxTxn
NoSegment == [from |-> 1, to |-> 0]

VARIABLES
    \* The primary.
    history,        \* every record it has logged, by position
    pstate,         \* its transactions
    nextTxn,        \* TxnDomain.next_txn_id
    logFrom,        \* where its log begins
    segments,       \* archived segments: positions from..to, named `to`
    images,         \* archived images: the position covered, the id they carry
    \* The standby's disk.
    kept,           \* its directory holds a database
    image,          \* its image: position covered, id, rows and prepared transactions
    position,       \* the end of its log
    \* The standby's memory.
    up,             \* it runs
    memory,         \* rows and prepared transactions (LogReplay)
    lastTxn,        \* last_applied_txn
    failed,         \* apply_failed
    paused,         \* TxnDomain.admission_paused
    readers,        \* running transactions, all of readers
    \* Its two threads.
    apply,          \* the poll: "idle", "holding" admission, "quiet",
                    \* "replayed" (commit gate held)
    segment,        \* the part of a segment it applies
    fold,           \* the checkpoint scheduler: "idle" or "holding"
    upsets          \* bound

primaryVars == <<history, pstate, nextTxn, logFrom, segments, images>>
diskVars == <<kept, image, position>>
engineVars == <<up, memory, lastTxn, failed, paused, readers>>
threadVars == <<apply, segment, fold>>
vars == <<primaryVars, diskVars, engineVars, threadVars, upsets>>

Upset == upsets < MaxUpset /\ upsets' = upsets + 1

-----------------------------------------------------------------------------
(* The primary                                                             *)

End == Len(history)
Highest(S) == CHOOSE x \in S : \A y \in S : y <= x
OpsOf(t) == {i \in 1..End : history[i].kind = "op" /\ history[i].txn = t}
RowsOf(t) == {history[i].row : i \in OpsOf(t)}
Locks(r) == {t \in Txn : pstate[t] \in {"running", "prepared"} /\ r \in RowsOf(t)}
NamesUsed == {history[i].gid : i \in {j \in 1..End :
                  history[j].kind = "prepare" /\ pstate[history[j].txn] = "prepared"}}

Logs(recs) == End + Len(recs) <= MaxLsn /\ history' = history \o recs
StandbyStays == UNCHANGED <<diskVars, engineVars, threadVars>>

\* A transaction begins with its first write; row r gets a value of its own.
Write(t, r) ==
    /\ \/ pstate[t] = "running"
       \/ pstate[t] = "none" /\ t = nextTxn
    /\ r \notin RowsOf(t) /\ Locks(r) = {}
    /\ Logs(<<Op(t, r, t)>>)
    /\ pstate' = [pstate EXCEPT ![t] = "running"]
    /\ nextTxn' = IF t = nextTxn THEN t + 1 ELSE nextTxn
    /\ UNCHANGED <<logFrom, segments, images, upsets>> /\ StandbyStays

Ends(t, recs, state) ==
    /\ Logs(recs)
    /\ pstate' = [pstate EXCEPT ![t] = state]
    /\ UNCHANGED <<nextTxn, logFrom, segments, images, upsets>> /\ StandbyStays

\* COMMIT and ROLLBACK, of a running transaction or by name; PREPARE TRANSACTION.
Commit(t) == pstate[t] \in {"running", "prepared"} /\ Ends(t, <<CommitTxn(t)>>, "ended")
Abort(t) == pstate[t] \in {"running", "prepared"} /\ Ends(t, <<AbortTxn(t)>>, "ended")
PrepareTxn(t, g) ==
    /\ pstate[t] = "running" /\ g \notin NamesUsed
    /\ Ends(t, PrepareRecords(t, g, RowsOf(t), [r \in RowsOf(t) |-> t]), "prepared")

\* The primary's checkpoint: quiet but for prepared transactions, it archives the
\* log and the image; the log is then truncated, unless it fails just there.
PrimaryCheckpoint ==
    /\ \A t \in Txn : pstate[t] # "running"
    /\ nextTxn <= MaxTxn /\ Cardinality(images) < MaxImage
    /\ segments' = segments \cup (IF logFrom <= End THEN {[from |-> logFrom, to |-> End]} ELSE {})
    /\ images' = images \cup {[at |-> End, stamp |-> nextTxn]}
    /\ nextTxn' = nextTxn + 1
    /\ pstate' = [pstate EXCEPT ![nextTxn] = "ended"]
    /\ logFrom' \in {logFrom, End + 1}
    /\ UNCHANGED <<history, upsets>> /\ StandbyStays

\* A crash of the primary: what no one waited for may be gone; what had begun stays
\* in the log without an end.  Ids no record names are handed out again.
PrimaryCrash ==
    LET must == {i \in 1..End : \/ history[i].kind \in {"commit", "prepare"}
                                \/ history[i].kind = "abort"
                                   /\ history[i].txn \in Named(history, {"prepare"})
                                \/ \E m \in images : i <= m.at}
    IN  /\ Upset
        /\ \E k \in Highest(must \cup {0})..End :
              /\ history' = SubSeq(history, 1, k)
              /\ nextTxn' = 1 + Highest({0} \cup {m.stamp : m \in images}
                                            \cup {history[i].txn : i \in 1..k})
        /\ pstate' = [t \in Txn |-> IF t >= nextTxn' THEN "none"
                                    ELSE IF pstate[t] = "running" THEN "ended" ELSE pstate[t]]
        /\ UNCHANGED <<logFrom, segments, images>> /\ StandbyStays

-----------------------------------------------------------------------------
(* The standby opens, and closes                                           *)

\* The records of an image, and of the log past it.
ImageRecords(img) ==
    LET ts == SetToSeq(DOMAIN img.prepared)
    IN  <<Image(img.stamp, img.rows)>>
        \o Concat([i \in 1..Len(ts) |-> LET p == img.prepared[ts[i]]
                                        IN  PrepareRecords(ts[i], p.gid, p.locks, p.sets)])
OnDisk(to) == ImageRecords(image) \o SubSeq(history, image.at + 1, to)

\* What the records make of an empty memory, without the place of the prepares.
Made(recs) ==
    LET m == Replay(recs, Empty)
    IN  [m EXCEPT !.prepared = [t \in DOMAIN @ |-> [@[t] EXCEPT !.seq = 0]]]
Truth(n) == Made(SubSeq(history, 1, n))

\* highest_ended_txn, of the records at some positions.
Ended(at) == {history[i].txn : i \in {j \in at : history[j].kind \in {"commit", "abort"}}}
HighestEnded(at) == Highest({0} \cup Ended(at))

\* seed_standby, at the first start, into an empty directory: the newest archived image
\* (an older one when that is unreadable).
Seed ==
    /\ ~up /\ ~kept
    /\ kept' = TRUE
    /\ \E m \in images :
          /\ image' = [at |-> m.at, stamp |-> m.stamp, rows |-> Truth(m.at).rows,
                       prepared |-> Truth(m.at).prepared]
          /\ position' = m.at
    /\ UNCHANGED <<primaryVars, engineVars, threadVars, upsets>>

\* open_impl; without an archive the first start makes an empty database.  (An
\* image's records end with the marker of the id it carries.)
Open ==
    /\ ~up /\ (kept \/ images = {})
    /\ up' = TRUE /\ kept' = TRUE
    /\ memory' = Made(OnDisk(position))
    /\ lastTxn' = Highest({image.stamp, HighestEnded((image.at + 1)..position)})
    /\ UNCHANGED <<primaryVars, image, position, failed, paused, readers, threadVars, upsets>>

\* A crash, or a restart (to promote it, or because an apply failed): of what an
\* apply was appending any part may have reached the disk.
Close ==
    /\ up /\ Upset
    /\ position' \in position..(IF apply = "replayed" \/ failed THEN segment.to ELSE position)
    /\ up' = FALSE
    /\ memory' = Empty /\ lastTxn' = 0 /\ failed' = FALSE /\ paused' = 0 /\ readers' = {}
    /\ apply' = "idle" /\ segment' = NoSegment /\ fold' = "idle"
    /\ UNCHANGED <<primaryVars, kept, image>>

-----------------------------------------------------------------------------
(* Readers and the admission pause                                         *)

\* Mutant of ReaderBegin: it does not wait for the pause to end.
ReaderBeginAnyway(r) ==
    /\ up /\ r \notin readers
    /\ readers' = readers \cup {r}
    /\ UNCHANGED <<primaryVars, diskVars, up, memory, lastTxn, failed, paused, threadVars, upsets>>

\* begin waits while a pause is counted.
ReaderBegin(r) ==
    /\ up /\ r \notin readers /\ paused = 0
    /\ readers' = readers \cup {r}
    /\ UNCHANGED <<primaryVars, diskVars, up, memory, lastTxn, failed, paused, threadVars, upsets>>

ReaderEnd(r) ==
    /\ r \in readers
    /\ readers' = readers \ {r}
    /\ UNCHANGED <<primaryVars, diskVars, up, memory, lastTxn, failed, paused, threadVars, upsets>>

\* Mutant of Running: a prepared transaction counts as running.
RunningAll == Cardinality(readers) + Cardinality(DOMAIN memory.prepared)

\* running(): active, less the prepared ones.
Running == Cardinality(readers)

-----------------------------------------------------------------------------
(* The poll                                                                *)

\* standby_tick and apply_shipped_segment up to the pause: a segment named past the
\* position, complete or a copy cut short between two records; nothing new in it, a
\* gap before it, or an earlier failure, and the call returns.
ApplyRead(s, to) ==
    /\ up /\ apply = "idle" /\ ~failed
    /\ s.to > position /\ to > position
    /\ s.from <= position + 1
    /\ apply' = "holding"
    /\ segment' = [from |-> s.from, to |-> to]
    /\ paused' = paused + 1
    /\ UNCHANGED <<primaryVars, diskVars, up, memory, lastTxn, failed, readers, fold, upsets>>

\* Mutant of ApplyBusy: the early return does not count the pause out.
ApplyBusyPaused ==
    /\ apply = "holding" /\ Running > 0
    /\ apply' = "idle" /\ segment' = NoSegment
    /\ UNCHANGED <<primaryVars, diskVars, up, memory, lastTxn, failed, paused, readers, fold,
                   upsets>>

\* The deadline passes with transactions running: StillBusy.
ApplyBusy ==
    /\ apply = "holding" /\ Running > 0
    /\ apply' = "idle" /\ segment' = NoSegment
    /\ paused' = paused - 1
    /\ UNCHANGED <<primaryVars, diskVars, up, memory, lastTxn, failed, readers, fold, upsets>>

\* The positions of the segment at which a transaction's records end.
EndedPast(t, seg, n) ==
    \E i \in seg.from..seg.to : /\ i > n /\ history[i].txn = t
                                /\ history[i].kind \in {"commit", "abort", "prepare"}

\* Mutant of RecordsPast: by the position alone.
RecordsPastAlone(seg, n) == SubSeq(history, n + 1, seg.to)

\* records_past: the markers past position n, and every put of a transaction that ends
\* past it.
PositionsPast(seg, n) ==
    {i \in seg.from..seg.to : IF history[i].kind \in {"commit", "abort"} THEN i > n
                              ELSE EndedPast(history[i].txn, seg, n)}
RecordsPast(seg, n) == Pick(history, PositionsPast(seg, n))

\* No transaction is running, and begin waits: the count is not read again.
ApplyQuiet ==
    /\ apply = "holding" /\ Running = 0
    /\ apply' = "quiet"
    /\ UNCHANGED <<primaryVars, diskVars, engineVars, segment, fold, upsets>>

\* The replay, under the commit gate.  A checkpoint in progress holds the gate
\* from begin to end, so it is one step here.
ApplyReplay ==
    /\ apply = "quiet"
    /\ apply' = "replayed"
    /\ LET m == Replay(RecordsPast(segment, position), memory)
       IN  memory' = [m EXCEPT !.prepared = [t \in DOMAIN @ |-> [@[t] EXCEPT !.seq = 0]]]
    /\ UNCHANGED <<primaryVars, diskVars, up, lastTxn, failed, paused, readers, segment, fold,
                   upsets>>

\* append_shipped: past the position only; then the gate and the pause end.
ApplyAppend ==
    /\ apply = "replayed"
    /\ position' = segment.to
    /\ lastTxn' = Highest({lastTxn, HighestEnded(PositionsPast(segment, position))})
    /\ apply' = "idle" /\ segment' = NoSegment
    /\ paused' = paused - 1
    /\ UNCHANGED <<primaryVars, kept, image, up, memory, failed, readers, fold, upsets>>

\* It fails: memory is ahead of the log until a restart.
ApplyAppendFails ==
    /\ apply = "replayed" /\ Upset
    /\ failed' = TRUE
    /\ apply' = "idle"
    /\ paused' = paused - 1
    /\ UNCHANGED <<primaryVars, diskVars, up, memory, lastTxn, readers, segment, fold>>

-----------------------------------------------------------------------------
(* The standby's checkpoints                                               *)

FoldHold ==
    /\ up /\ fold = "idle" /\ position > image.at
    /\ fold' = "holding"
    /\ paused' = paused + 1
    /\ UNCHANGED <<primaryVars, diskVars, up, memory, lastTxn, failed, readers, apply, segment,
                   upsets>>

\* Busy, or refused because an apply has failed.
FoldGivesUp ==
    /\ fold = "holding" /\ (Running > 0 \/ failed)
    /\ fold' = "idle"
    /\ paused' = paused - 1
    /\ UNCHANGED <<primaryVars, diskVars, up, memory, lastTxn, failed, readers, apply, segment,
                   upsets>>

\* The log ends between a transaction's first record and its end.
EndsInside(n) ==
    \E i \in 1..n : /\ \A j \in i..n : history[j].txn = history[i].txn =>
                                         history[j].kind \in {"op", "begin"}
                    /\ \E j \in (n + 1)..End : /\ history[j].txn = history[i].txn
                                                /\ history[j].kind \in {"commit", "prepare"}

\* Mutant of Stamp: an id of its own.
StampNext == 1 + Highest({0} \cup {history[i].txn : i \in 1..position} \cup {image.stamp})

\* A standby's image carries the last id it applied.
Stamp == lastTxn

\* checkpoint_quiesced: image, then truncation; the log past the image is empty.
FoldWrite ==
    /\ fold = "holding" /\ Running = 0 /\ ~failed
    /\ apply # "replayed"
    /\ CutImages \/ ~EndsInside(position)
    /\ image' = [at |-> position, stamp |-> Stamp, rows |-> memory.rows,
                 prepared |-> memory.prepared]
    /\ fold' = "idle"
    /\ paused' = paused - 1
    /\ UNCHANGED <<primaryVars, kept, position, up, memory, lastTxn, failed, readers, apply, segment,
                   upsets>>

-----------------------------------------------------------------------------
(* The specification                                                       *)

Init ==
    /\ history = <<>> /\ pstate = [t \in Txn |-> "none"] /\ nextTxn = 1
    /\ logFrom = 1 /\ segments = {} /\ images = {}
    /\ image = [at |-> 0, stamp |-> 0, rows |-> Empty.rows, prepared |-> <<>>]
    /\ position = 0 /\ kept = FALSE
    /\ up = FALSE /\ memory = Empty /\ lastTxn = 0 /\ failed = FALSE /\ paused = 0
    /\ readers = {}
    /\ apply = "idle" /\ segment = NoSegment /\ fold = "idle"
    /\ upsets = 0

Primary ==
    \/ \E t \in Txn : \/ Commit(t) \/ Abort(t)
                      \/ \E r \in Row : Write(t, r)
                      \/ \E g \in Gid : PrepareTxn(t, g)
    \/ PrimaryCheckpoint \/ PrimaryCrash

ReadWhole == \E s \in segments : ApplyRead(s, s.to)
ReadCut == \E s \in segments : \E to \in s.from..s.to : ApplyRead(s, to)
Poll == ReadWhole \/ ApplyBusy \/ ApplyQuiet \/ ApplyReplay \/ ApplyAppend
Fold == FoldHold \/ FoldGivesUp \/ FoldWrite

Next ==
    \/ Primary \/ Seed \/ Open \/ Close
    \/ \E r \in Reader : ReaderBegin(r) \/ ReaderEnd(r)
    \/ Poll \/ ReadCut \/ ApplyAppendFails \/ Fold

Spec == Init /\ [][Next]_vars

\* The poll runs on, on a timer, and the whole of every segment arrives.  (Replays is
\* ApplyReplay by the one variable that tells it from every other step.)
Replays == apply = "quiet" /\ apply' = "replayed"
FairSpec == Spec /\ WF_vars(ReadWhole \/ ApplyBusy \/ ApplyQuiet \/ ApplyAppend) /\ WF_apply(Replays)

-----------------------------------------------------------------------------
(* Properties                                                              *)

\* Type correctness of both machines.  Admission is held by exactly the threads that are
\* inside their pause, and a standby is never past what was archived.
TypeOK ==
    /\ \A i \in 1..End : history[i].txn \in Txn
    /\ pstate \in [Txn -> {"none", "running", "prepared", "ended"}]
    /\ nextTxn \in 1..(MaxTxn + 1) /\ logFrom \in 1..(End + 1)
    /\ \A s \in segments : s.from \in 1..s.to /\ s.to <= End
    /\ image.at \in 0..position /\ position \in 0..End
    /\ up \in BOOLEAN /\ kept \in BOOLEAN /\ failed \in BOOLEAN
    /\ readers \subseteq Reader
    /\ paused = (IF apply = "idle" THEN 0 ELSE 1) + (IF fold = "idle" THEN 0 ELSE 1)
    /\ apply \in {"idle", "holding", "quiet", "replayed"} /\ fold \in {"idle", "holding"}
    /\ position <= Highest({0} \cup {m.at : m \in images})

\* What a standby shows is exactly what the primary had at the standby's position:
\* its rows, and its prepared transactions with their writes and locks.  However a
\* segment was cut, whatever part of an append a crash kept, from an image of its
\* own or the primary's, and with segments that overlap.
Follows ==
    up => memory = Truth(IF apply = "replayed" \/ failed THEN segment.to ELSE position)

\* apply_shipped_segment: what was applied is "appended to this engine's own log under
\* their primary positions, so they survive a restart".  It does not hold when the
\* standby has taken an image inside a transaction (CutImages): the puts are gone with
\* the log the image replaced, and only the end of the transaction is appended.
AppliedSurvives == [][~up /\ up' => memory' = Truth(position)]_vars

\* The id a standby's image is filed under never meets an abort in the log that
\* follows: recovery would drop the image.
StampIsSpent ==
    \A i \in (image.at + 1)..End :
        ~(history[i].kind = "abort" /\ history[i].txn = image.stamp /\ image.at > 0)

\* Nothing changes under a reader: the replay, which keeps no versions, waits until
\* every transaction has ended and begins none meanwhile.
ReadersUndisturbed == [][readers # {} /\ up' => memory' = memory]_vars

\* Once its readers are gone, and the primary rests, a standby that runs catches up
\* with the archive, whatever transactions are prepared.
Newest == Highest({0} \cup {s.to : s \in segments})
CatchesUp == <>[](up /\ readers = {} /\ ~failed) => <>[](up => position >= Newest)
=============================================================================
