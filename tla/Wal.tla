-------------------------------- MODULE Wal --------------------------------
(***************************************************************************)
(* The storage of a member (wal/, snap/, etcdserver/storage.go): a log of  *)
(* records cut into segment files, and snapshot files beside it.           *)
(*                                                                         *)
(* The raft goroutine saves the hard state, the entries and the snapshots  *)
(* it receives, the goroutine of EtcdServer.snapshot saves the snapshots   *)
(* the member makes, and PurgeFile removes old files, all at once.  A      *)
(* crash keeps what was synced and any part of the rest; the restart loads *)
(* the newest snapshot that is whole and reads the log from there.         *)
(*                                                                         *)
(* Term and Vote of a hard state are one number, the ballot, that grows    *)
(* whenever either changes; an entry is its index and its term (the ballot *)
(* it was written at).  Checksums and metadata are left out: a record is   *)
(* whole, or it is the torn last one.                                      *)
(***************************************************************************)
EXTENDS Integers, Sequences, FiniteSets, SequencesExt

CONSTANTS
    SegmentSize,    \* records after which a segment is cut (segmentSizeBytes)
    MaxWALFiles,    \* files PurgeFile leaves
    MaxSnapFiles,
    MaxIndex,       \* bound on the indexes of entries and snapshots
    MaxBallot,      \* bound on the ballots
    MaxSaves,       \* bound on the calls of Save
    MaxCrashes      \* bound on the crashes

VARIABLES
    segs,       \* the .wal files: [seq, index, recs], oldest first
    synced,     \* how many records of the last segment are on disk for sure
    torn,       \* a part of a record follows the last whole one
    snaps,      \* the .snap files: [index, term, whole], and by whom (ghost)
    w,          \* the WAL: [state, enti, locks], locks = held on the last files
    raft,       \* raft and its storage: [ballot, commit, log, snap, prev]
    pc,         \* the raft goroutine
    job,        \* SaveSnap under way in each of the two goroutines
    base,       \* what the synced records say, were they one file (ghost)
    agreed,     \* the terms of the committed entries, in the cluster (ghost)
    acked,      \* ballot and log when Save returned last (ghost)
    saves, crashes

vars == <<segs, synced, torn, snaps, w, raft, pc, job, base, agreed, acked, saves, crashes>>

Index == 1..MaxIndex
Saver == {"raft", "snapshot"}
NoLog == [i \in Index |-> 0]
Empty == [ballot |-> 0, commit |-> 0]

EntryRec(i, t) == [type |-> "entry", index |-> i, term |-> t]
StateRec(s)    == [type |-> "state", state |-> s]
SnapRec(i, t)  == [type |-> "snapshot", index |-> i, term |-> t]

Largest(S) == CHOOSE x \in S : \A y \in S : y <= x

LastOf(log) == Largest({0} \cup {i \in Index : log[i] # 0})

SnapFile(p, i, t, whole) == [index |-> i, term |-> t, whole |-> whole, by |-> p]

NoJob == [step |-> "none", index |-> 0, term |-> 0]

-----------------------------------------------------------------------------
(* What a sequence of records says, as if the log had never been cut *)

Cut(log, i, t) == [j \in Index |-> IF j < i THEN log[j] ELSE IF j = i THEN t ELSE 0]

Said(b, rec) ==
    CASE rec.type = "entry" -> [b EXCEPT !.log = Cut(@, rec.index, rec.term)]
      [] rec.type = "state" -> [b EXCEPT !.state = rec.state]
      [] OTHER -> b

Replay(b, recs) == FoldLeft(Said, b, recs)

Current == Last(segs).recs

Unsynced == SubSeq(Current, synced + 1, Len(Current))

-----------------------------------------------------------------------------
(* Restart: Load, Open, ReadAll, Repair, loadState *)

\* Load: the whole file with the greatest name (term, then index).
Newer(s, t) == s.term > t.term \/ (s.term = t.term /\ s.index >= t.index)

Load ==
    LET whole == {s \in snaps : s.whole}
    IN IF whole = {} THEN [index |-> 0, term |-> 0]
       ELSE LET s == CHOOSE s \in whole : \A t \in whole : Newer(s, t)
            IN [index |-> s.index, term |-> s.term]

searchIndex(index) == Largest({0} \cup {k \in DOMAIN segs : segs[k].index <= index})

isValidSeq(k) == \A j \in k..(Len(segs) - 1) : segs[j + 1].seq = segs[j].seq + 1

NewReader(start) == [start |-> start, state |-> Empty, ents |-> <<>>, enti |-> 0,
                     match |-> FALSE, ok |-> TRUE]

\* One record.  ents[:n] of fewer than n entries panics, or makes some up.
ReadRecord(r, rec) ==
    CASE rec.type = "entry" ->
            LET n == rec.index - r.start.index - 1
            IN [r EXCEPT !.enti = rec.index,
                         !.ok = @ /\ (n < 0 \/ n <= Len(r.ents)),
                         !.ents = IF n < 0 \/ n > Len(@) THEN @
                                  ELSE Append(SubSeq(@, 1, n), rec.term)]
      [] rec.type = "state" -> [r EXCEPT !.state = rec.state]
      [] OTHER ->
            IF rec.index # r.start.index THEN r
            ELSE [r EXCEPT !.match = TRUE, !.ok = @ /\ rec.term = r.start.term]

ReadAll(start) ==
    LET k == searchIndex(start.index)
    IN IF k = 0 \/ ~isValidSeq(k) THEN [NewReader(start) EXCEPT !.ok = FALSE]
       ELSE FoldLeft(ReadRecord, NewReader(start),
                     FlattenSeq([j \in 1..(Len(segs) - k + 1) |-> segs[k + j - 1].recs]))

-----------------------------------------------------------------------------
Init ==
    /\ segs = <<[seq |-> 0, index |-> 0, recs |-> <<SnapRec(0, 0)>>]>>
    /\ synced = 1
    /\ torn = FALSE
    /\ snaps = {}
    /\ w = [state |-> Empty, enti |-> 0, locks |-> 1]
    /\ raft = [ballot |-> 0, commit |-> 0, log |-> NoLog, snap |-> 0, prev |-> Empty]
    /\ pc = "idle"
    /\ job = [p \in Saver |-> NoJob]
    /\ base = [state |-> Empty, log |-> NoLog]
    /\ agreed = NoLog
    /\ acked = [ballot |-> 0, log |-> NoLog]
    /\ saves = 0
    /\ crashes = 0

Up == pc \notin {"down", "behind", "fatal"}

Write(recs) == segs' = [segs EXCEPT ![Len(segs)].recs = @ \o recs]

\* flush and Fdatasync of the current file, which holds recs.
Synced(recs) == /\ synced' = Len(recs)
                /\ base' = Replay(base, SubSeq(recs, synced + 1, Len(recs)))

\* Mutant: entries alone are not synced.
mustSyncState(st, prevst, entsnum) == st.ballot # prevst.ballot

mustSync(st, prevst, entsnum) == entsnum # 0 \/ st.ballot # prevst.ballot

HardState(r) == [ballot |-> r.ballot, commit |-> r.commit]

-----------------------------------------------------------------------------
(* WAL.Save, for a Ready of the raft goroutine *)

\* What raft guarantees: a committed entry (i, t) is the cluster's only one at
\* i, and the terms of the committed entries do not decrease.
MayCommit(i, t) ==
    \A j \in Index : agreed[j] # 0 =>
        (j = i => agreed[j] = t) /\ (j < i => agreed[j] <= t) /\ (j > i => agreed[j] >= t)

Committed(log, from, to) ==
    agreed' = [i \in Index |-> IF i \in from..to /\ log[i] # 0 THEN log[i] ELSE agreed[i]]

\* A Ready: a greater ballot or not, at most one entry (the next one, or one
\* that replaces an uncommitted entry of an earlier term; its leader holds the
\* committed entries), a greater commit index or not.
LogsAfter(b) ==
    {raft.log} \cup
    {Cut(raft.log, i, b) : i \in {i \in (raft.commit + 1)..MaxIndex :
        /\ b > 0
        /\ i <= raft.snap + 1 \/ raft.log[i - 1] # 0
        /\ raft.log[i] < b
        /\ MayCommit(i, b)}}

CommitsAfter(log) ==
    {raft.commit} \cup
    {c \in (raft.commit + 1)..MaxIndex :
        \A i \in (raft.commit + 1)..c : log[i] # 0 /\ MayCommit(i, log[i])}

RaftSteps ==
    UNION {UNION {{[raft EXCEPT !.ballot = b, !.log = log, !.commit = c] :
        c \in CommitsAfter(log)} : log \in LogsAfter(b)} :
        b \in {b \in raft.ballot..(raft.ballot + 1) : b <= MaxBallot}}

\* The entries and the state are encoded; Save then syncs, cuts or returns.
\* The state is left out of the Ready when it has not changed since the last
\* one; the first Ready of a process carries it.
Encode(r) ==
    LET st   == HardState(r)
        ents == IF r.log = raft.log THEN <<>>
                ELSE <<EntryRec(LastOf(r.log), r.log[LastOf(r.log)])>>
        recs == ents \o (IF st = raft.prev THEN <<>> ELSE <<StateRec(st)>>)
    IN /\ recs # <<>>
       /\ Write(recs)
       /\ w' = [w EXCEPT !.state = st,
                         !.enti = IF ents = <<>> THEN @ ELSE LastOf(r.log)]
       /\ raft' = [r EXCEPT !.prev = st]
       /\ pc' = IF mustSync(st, w.state, Len(ents)) THEN "sync" ELSE "nosync"

Save ==
    /\ pc = "idle"
    /\ job["raft"] = NoJob
    /\ saves < MaxSaves
    /\ saves' = saves + 1
    /\ \E r \in RaftSteps : /\ Encode(r)
                            /\ Committed(r.log, raft.commit + 1, r.commit)
    /\ UNCHANGED <<synced, torn, snaps, job, base, acked, crashes>>

\* What the file has grown to is what the encoder has flushed so far.
Flushed == synced..Len(Current)

Returned == /\ pc' = "idle"
            /\ acked' = [ballot |-> raft.ballot, log |-> raft.log]

SaveReturns ==
    /\ pc \in {"sync", "nosync"}
    /\ \E n \in Flushed : n < SegmentSize
    /\ IF pc = "sync" THEN Synced(Current) ELSE UNCHANGED <<synced, base>>
    /\ Returned
    /\ UNCHANGED <<segs, torn, snaps, w, raft, job, agreed, saves, crashes>>

\* Mutant: cut does not repeat the hard state.
NewSegmentBare(state) ==
    [seq |-> Last(segs).seq + 1, index |-> w.enti + 1, recs |-> <<>>]

NewSegment(state) ==
    [seq   |-> Last(segs).seq + 1,
     index |-> w.enti + 1,
     recs  |-> IF state = Empty THEN <<>> ELSE <<StateRec(state)>>]

\* The new segment is synced before it gets its name, and the old one before
\* that: a crash in the middle of cut is one before it, or after it.
cut ==
    /\ pc \in {"sync", "nosync"}
    /\ \E n \in Flushed : n >= SegmentSize
    /\ segs' = Append(segs, NewSegment(w.state))
    /\ base' = Replay(base, Unsynced)
    /\ synced' = Len(NewSegment(w.state).recs)
    /\ w' = [w EXCEPT !.locks = @ + 1]
    /\ Returned
    /\ UNCHANGED <<torn, snaps, raft, job, agreed, saves, crashes>>

-----------------------------------------------------------------------------
(* storage.SaveSnap: the record, the file, the locks *)

\* WAL.SaveSnapshot waits for a Save under way to release the lock.  The file
\* is created next (a crash before that leaves what a crash after it does: no
\* file that Load can read).
SaveSnapshot(p, i, t) ==
    LET recs == Append(Current, SnapRec(i, t))
    IN /\ pc = "idle"
       /\ job[p] = NoJob
       /\ segs' = [segs EXCEPT ![Len(segs)].recs = recs]
       /\ Synced(recs)
       /\ w' = [w EXCEPT !.enti = IF @ < i THEN i ELSE @]
       /\ job' = [job EXCEPT ![p] = [step |-> "created", index |-> i, term |-> t]]
       /\ snaps' = snaps \cup {SnapFile(p, i, t, FALSE)}
       /\ UNCHANGED <<torn, pc, acked, saves, crashes>>

\* Mutant: applyAll does not wait for the Ready to be saved.
MakeSnapshotUnsaved ==
    \E i \in (raft.snap + 1)..LastOf(raft.log) :
        /\ SaveSnapshot("snapshot", i, raft.log[i])
        /\ raft' = [raft EXCEPT !.snap = i]
        /\ UNCHANGED agreed

\* EtcdServer.snapshot, at an applied index whose Ready has been saved.
MakeSnapshot ==
    \E i \in (raft.snap + 1)..raft.commit :
        /\ SaveSnapshot("snapshot", i, raft.log[i])
        /\ raft' = [raft EXCEPT !.snap = i]
        /\ UNCHANGED agreed

\* A snapshot that raft has restored; the Ready's hard state is saved next.
RecvSnapshot ==
    \E i \in (raft.commit + 1)..MaxIndex, t \in 1..raft.ballot :
        /\ raft.log[i] # t
        /\ MayCommit(i, t)
        /\ agreed' = [agreed EXCEPT ![i] = t]
        /\ SaveSnapshot("raft", i, t)
        /\ UNCHANGED raft

NextStep(p, step) == job' = [job EXCEPT ![p].step = step]

\* WriteFile returns.  (A file that was purged while it was written stays away.)
WriteSnapFile(p) ==
    /\ Up
    /\ job[p].step = "created"
    /\ LET part == SnapFile(p, job[p].index, job[p].term, FALSE)
       IN snaps' = {IF f = part THEN [f EXCEPT !.whole = TRUE] ELSE f : f \in snaps}
    /\ NextStep(p, "written")
    /\ UNCHANGED <<segs, synced, torn, w, raft, pc, base, agreed, acked, saves, crashes>>


\* The locks kept by ReleaseLockTo: from the file before the first whose name
\* has index or more, or the last file.
Kept(index) ==
    LET held  == (Len(segs) - w.locks + 1)..Len(segs)
        above == {k \in held : segs[k].index >= index}
        first == IF above = {} THEN Len(segs)
                 ELSE (CHOOSE k \in above : \A j \in above : k <= j) - 1
    IN IF first \in held THEN Len(segs) - first + 1 ELSE w.locks

ReleaseLockTo(p) ==
    /\ pc = "idle"
    /\ job[p].step = "written"
    /\ w' = [w EXCEPT !.locks = Kept(job[p].index)]
    /\ IF p = "raft" THEN NextStep(p, "saved") ELSE job' = [job EXCEPT ![p] = NoJob]
    /\ UNCHANGED <<segs, synced, torn, snaps, raft, pc, base, agreed, acked, saves, crashes>>

\* The rest of the Ready with the snapshot: ApplySnapshot and Save.
SaveAfterSnapshot ==
    LET i == job["raft"].index
    IN /\ pc = "idle"
       /\ job["raft"].step = "saved"
       /\ LET r  == [raft EXCEPT !.commit = i, !.snap = i, !.log = NoLog]
              st == HardState(r)
          IN /\ Write(<<StateRec(st)>>)
             /\ raft' = [r EXCEPT !.prev = st]
             /\ pc' = IF mustSync(st, w.state, 0) THEN "sync" ELSE "nosync"
             /\ w' = [w EXCEPT !.state = st]
       /\ job' = [job EXCEPT !["raft"] = NoJob]
       /\ UNCHANGED <<synced, torn, snaps, base, agreed, acked, saves, crashes>>

-----------------------------------------------------------------------------
(* PurgeFile *)

PurgeWAL ==
    /\ Up
    /\ Len(segs) > MaxWALFiles
    /\ Len(segs) > w.locks
    /\ segs' = Tail(segs)
    /\ UNCHANGED <<synced, torn, snaps, w, raft, pc, job, base, agreed, acked, saves, crashes>>

PurgeSnap ==
    /\ Up
    /\ Cardinality(snaps) > MaxSnapFiles
    /\ \E s \in snaps : /\ \A t \in snaps : Newer(t, s)
                        /\ snaps' = snaps \ {s}
    /\ UNCHANGED <<segs, synced, torn, w, raft, pc, job, base, agreed, acked, saves, crashes>>

-----------------------------------------------------------------------------
(* Crash and restart *)

\* The records behind the synced ones are lost from some point on; the file
\* may end in a part of the next one.
Crash ==
    /\ Up
    /\ crashes < MaxCrashes
    /\ \E n \in synced..Len(Current), part \in BOOLEAN :
        LET recs == SubSeq(Current, 1, n)
        IN /\ segs' = [segs EXCEPT ![Len(segs)].recs = recs]
           /\ Synced(recs)
           /\ torn' = part
    /\ crashes' = crashes + 1
    /\ pc' = "down"
    /\ UNCHANGED <<snaps, w, raft, job, agreed, acked, saves>>

\* ReadAll returns ErrUnexpectedEOF for a torn record; Repair cuts it off the
\* last file, and ReadAll is called once more.
Repair == torn' = FALSE

\* newLog and loadState: the commit index lies between the snapshot and the
\* end of the log, or the hard state is empty.
Commit(rd) == IF rd.state = Empty THEN rd.start.index ELSE rd.state.commit

Log(rd) == [i \in Index |-> IF i - rd.start.index \in DOMAIN rd.ents
                            THEN rd.ents[i - rd.start.index] ELSE 0]

Booted(rd) ==
    CASE ~rd.ok \/ ~rd.match -> "fatal"
      [] Commit(rd) > rd.start.index + Len(rd.ents) -> "fatal"
      [] Commit(rd) < rd.start.index -> "behind"
      [] OTHER -> "idle"

Restart ==
    LET rd == ReadAll(Load)
    IN /\ pc = "down"
       /\ Repair
       /\ pc' = Booted(rd)
       /\ snaps' = {s \in snaps : s.whole}
       /\ w' = [state |-> Empty, enti |-> rd.enti,
                locks |-> Len(segs) - searchIndex(rd.start.index) + 1]
       /\ raft' = [ballot |-> rd.state.ballot, commit |-> Commit(rd), log |-> Log(rd),
                   snap |-> rd.start.index, prev |-> Empty]
       /\ job' = [p \in Saver |-> NoJob]
       /\ acked' = [ballot |-> rd.state.ballot, log |-> Log(rd)]
       /\ UNCHANGED <<segs, synced, base, agreed, saves, crashes>>

Next ==
    \/ Save \/ SaveReturns \/ cut
    \/ MakeSnapshot \/ RecvSnapshot \/ SaveAfterSnapshot
    \/ \E p \in Saver : WriteSnapFile(p) \/ ReleaseLockTo(p)
    \/ PurgeWAL \/ PurgeSnap
    \/ Crash \/ Restart

Spec == Init /\ [][Next]_vars

-----------------------------------------------------------------------------
(* Properties *)


\* A snapshot that the member made itself never runs ahead of the commit
\* index on disk, though Save does not sync a commit index: SaveSnapshot does,
\* before the snapshot's file exists.  (A snapshot that was received does,
\* until the next sync, and loadState panics.)
MadeIsCommitted ==
    pc = "behind" => \E s \in snaps : s.index = raft.snap /\ s.by = "raft"

\* A process that has not saved anything yet.
Started == pc = "idle" /\ raft.prev = Empty

\* What ReadAll finds from the segment it starts with, whatever was cut,
\* purged, torn and repaired, is what one uncut file would tell: the last
\* hard state, and every entry above the snapshot.  (When the log ends at the
\* snapshot, OverwrittenDiscarded is about the entries above it.)
ReadIsExact ==
    Started =>
        /\ raft.ballot = base.state.ballot
        /\ base.state = Empty \/ raft.commit = base.state.commit
        /\ LastOf(base.log) > raft.snap =>
               \A i \in (raft.snap + 1)..MaxIndex : raft.log[i] = base.log[i]

\* "When writing an Entry with Index i, any previously-persisted entries with
\* Index >= i must be discarded" (raft/doc.go:76): ReadAll does not return an
\* entry that a later one has replaced.
OverwrittenDiscarded ==
    Started => \A i \in (raft.snap + 1)..MaxIndex : base.log[i] = 0 => raft.log[i] = 0

\* A vote, a term or an entry that Save has returned for, and that raft may
\* have told the others of, is still there after a crash, unless the Save
\* under way has replaced it.
Remembers(r, b, log) ==
    /\ r.ballot >= b
    /\ \A i \in Index : i > r.snap /\ log[i] # 0 => r.log[i] = log[i]

NothingForgotten ==
    [][pc = "down" /\ pc' = "idle" =>
        \/ Remembers(raft', acked.ballot, acked.log)
        \/ Remembers(raft', acked.ballot, raft.log)]_vars

=============================================================================
