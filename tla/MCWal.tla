------------------------------- MODULE MCWal -------------------------------
EXTENDS Wal

\* Bound: PurgeFile is not asked to leave fewer snapshot files than there are
\* goroutines that write one (the flag's default is 5).
OneUnderWay ==
    Cardinality(snaps') < Cardinality(snaps) /\ pc # "down" =>
        \E p \in Saver : job[p] = NoJob

\* ReadAll does not count a snapshot's record into enti: a restarted member
\* whose log ends below a snapshot it received would name its next segment
\* after an index below the snapshot, and look for the snapshot's record there.
\* Bound: no segment is cut in that state.
EntiIsKnown == Len(segs') > Len(segs) => w.enti >= raft.snap

\* Files are purged as soon as they may be: an old file that is still there
\* changes nothing that a restart reads, since it takes the newest.
Purgeable == \/ Len(segs) > MaxWALFiles /\ Len(segs) > w.locks
             \/ Cardinality(snaps) > MaxSnapFiles /\ \E p \in Saver : job[p] = NoJob

Purges == Len(segs') < Len(segs) \/ Cardinality(snaps') < Cardinality(snaps)

PurgedAtOnce == Up /\ Purgeable => Purges

\* Bound: fewer saves in a behaviour with two crashes.
FewerSaves == crashes = 2 => saves < MaxSaves
=============================================================================
