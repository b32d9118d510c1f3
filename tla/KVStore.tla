------------------------------ MODULE KVStore -------------------------------
(***************************************************************************)
(* The v3 store of one member (src/storage/kvstore.go) as the apply loop of  *)
(* the server uses it: requests of the replicated log, transactions at one   *)
(* revision, leases and their keys (src/lease/lessor.go), compaction in       *)
(* batches, the backend that commits in the background, restart and replay,  *)
(* and the snapshot of another member.                                       *)
(*                                                                          *)
(* Everything that an operation changes while it holds the lock of the store *)
(* is one record, so that an operation is an operator on it: be is what the  *)
(* backend holds, disk what of it is committed to the file.                  *)
(***************************************************************************)
EXTENDS KeyIndex

CONSTANTS Key,         \* the keys, numbers because the index is ordered
          Lease,       \* identifiers of leases
          NoLease,
          Request,     \* what clients may ask for
          BatchSize,   \* records per batch of a compaction
          MaxLog, MaxFaults     \* bounds: entries, crashes and received snapshots

ASSUME KVAssumption ==
  /\ Key \subseteq Nat
  /\ NoLease \notin Lease
  /\ BatchSize \in Nat \ {0}

VARIABLES log,       \* the committed requests that the member has seen
          applied,   \* the entry the apply loop has reached
          snapi,     \* the entry of the newest snapshot, where a replay starts
          st,        \* the store and the lessor
          be, disk,  \* the backend and its file
          jobs,      \* compactions in the FIFO scheduler
          resume,    \* compactions that goroutines of restore will ask for
          revoking,  \* the lease whose keys are being deleted
          faults     \* crashes and received snapshots so far

vars == <<log, applied, snapi, st, be, disk, jobs, resume, revoking, faults>>

NoFn == [x \in {} |-> x]
With(f, x, v) == [y \in DOMAIN f \cup {x} |-> IF y = x THEN v ELSE f[y]]
Without(f, S) == [y \in DOMAIN f \ S |-> f[y]]
NotRevoking == [lease |-> NoLease, visited |-> {}]

-----------------------------------------------------------------------------
(* The backend: the records by revision, the leases, and the meta bucket.   *)
NewBackend == [key |-> NoFn, lease |-> {}, scheduled |-> -1, finished |-> -1, index |-> 0]

(* The store in memory; rd is the RangeDeleter of the lessor.               *)
NewStore == [index |-> NoFn, rev |-> [main |-> 1, sub |-> 0], compacted |-> -1,
             leases |-> NoFn, rd |-> "watchable", panic |-> FALSE]

(* The elements of a finite set in ascending order.                         *)
InOrder(S, Less(_, _)) ==
  [i \in 1 .. Cardinality(S) |-> CHOOSE x \in S : Cardinality({y \in S : Less(y, x)}) = i - 1]

Revs(b) == InOrder(DOMAIN b.key, LAMBDA x, y : GreaterThan(y, x))

(* lessor.Attach and Detach; an unknown lease is an error.                  *)
Attach(s, l, k) == [s EXCEPT !.leases[l] = @ \cup {k}]
Detach(s, l, k) == [s EXCEPT !.leases[l] = @ \ {k}]
Has(s, l) == l \in DOMAIN s.leases

(* The lease of the version g of a key.                                     *)
LeaseOf(b, g) == IF g.found /\ g.modified \in DOMAIN b.key THEN b.key[g.modified].lease ELSE NoLease

LeaseAt(s, b, k, rev) == LeaseOf(b, IndexGet(s.index, k, rev))

(* A version that the index points to but the backend does not hold: the    *)
(* reader of such a version panics.                                         *)
Lost(b, g) == g.found /\ g.modified \notin DOMAIN b.key

-----------------------------------------------------------------------------
(* A transaction works on [s, b], the store and the backend under its locks. *)
NextRev(t) == [main |-> t.s.rev.main + 1, sub |-> t.s.rev.sub]

(* The key moves from the lease old of its old version to the new one.      *)
Unleased(s, old, k) == IF old = NoLease THEN s ELSE Detach(s, old, k)
Leased(s, l, k) == IF l = NoLease THEN s ELSE Attach(s, l, k)

(* store.put, where g is the old version; an error of the lessor panics.    *)
PutOver(t, k, l, v, rev, g, old) ==
  IF \/ t.s.panic \/ Lost(t.b, g) \/ ~CanPut(t.s.index, k, rev)
     \/ \E x \in {old, l} \ {NoLease} : ~Has(t.s, x)
  THEN [t EXCEPT !.s.panic = TRUE]
  ELSE [s |-> Leased(Unleased([t.s EXCEPT !.index = IndexPut(@, k, rev), !.rev.sub = @ + 1],
                              old, k), l, k),
        b |-> [t.b EXCEPT !.key = With(@, rev,
                 [key |-> k, tomb |-> FALSE, val |-> v, lease |-> l, mod |-> rev.main,
                  create |-> IF g.found THEN g.created.main ELSE rev.main,
                  ver    |-> IF g.found THEN g.ver + 1 ELSE 1])]]

PutAt(t, k, l, v, rev, g) == PutOver(t, k, l, v, rev, g, LeaseOf(t.b, g))

put(t, k, l, v) == PutAt(t, k, l, v, NextRev(t), IndexGet(t.s.index, k, NextRev(t).main))

(* store.delete: the record of a deletion carries the key only.             *)
Tombstone(k) == [key |-> k, tomb |-> TRUE, val |-> 0, lease |-> NoLease, mod |-> 0,
                 create |-> 0, ver |-> 0]

DeleteOver(t, k, rev, g, old) ==
  IF \/ t.s.panic \/ Lost(t.b, g) \/ (old # NoLease /\ ~Has(t.s, old))
     \/ ~CanTombstone(t.s.index, k) \/ ~CanPut(t.s.index, k, rev)
  THEN [t EXCEPT !.s.panic = TRUE]
  ELSE [s |-> Unleased([t.s EXCEPT !.index = IndexTombstone(@, k, rev), !.rev.sub = @ + 1],
                       old, k),
        b |-> [t.b EXCEPT !.key = With(@, rev, Tombstone(k))]]

DeleteAt(t, k, rev, g) == DeleteOver(t, k, rev, g, LeaseOf(t.b, g))

delete(t, k) == DeleteAt(t, k, NextRev(t), IndexGet(t.s.index, k, NextRev(t).main))

(* store.deleteRange: the keys that exist, in their order.                  *)
Existing(s, K, rev) == {k \in K : IndexGet(s.index, k, rev).found}

deleteRange(t, K) ==
  FoldLeft(delete, t, InOrder(Existing(t.s, K, IF t.s.rev.sub > 0 THEN t.s.rev.main + 1
                                               ELSE t.s.rev.main), <))

Do(t, op, v) ==
  CASE op.type = "put"    -> put(t, op.key, op.lease, v)
    [] op.type = "delete" -> deleteRange(t, op.keys)

(* store.TxnBegin and txnEnd around the operations of a transaction.        *)
TxnEnd(t) == [t EXCEPT !.s.rev = [main |-> IF @.sub # 0 THEN @.main + 1 ELSE @.main, sub |-> 0]]

Txn(s, b, ops, v) ==
  TxnEnd(FoldLeft(LAMBDA x, op : Do(x, op, v), [s |-> [s EXCEPT !.rev.sub = 0], b |-> b], ops))


(* consistentWatchableStore.TxnBegin: an entry that the backend has is      *)
(* skipped; otherwise its index is written with its changes.                *)
ConsistentTxn(s, b, ops, i) ==
  IF i <= b.index THEN [s |-> [s EXCEPT !.rev.sub = 0], b |-> b]
  ELSE Txn(s, [b EXCEPT !.index = i], ops, i)

-----------------------------------------------------------------------------
(* applyTxn, applyPut and applyDeleteRange: a request for an unknown lease  *)
(* fails before the transaction begins.  The compare of a transaction asks  *)
(* whether its key does not exist.                                          *)
Ops(s, r) == IF r.type # "txn" THEN <<r>>
             ELSE IF IndexGet(s.index, r.absent, s.rev.main).found THEN r.failure ELSE r.success

LeasesOf(ops) == {ops[i].lease : i \in {j \in DOMAIN ops : ops[j].type = "put"}} \ {NoLease}

CheckedTxn(s, b, ops, i) ==
  IF \E l \in LeasesOf(ops) : ~Has(s, l) THEN [s |-> s, b |-> b]
  ELSE ConsistentTxn(s, b, ops, i)

applyTxn(s, b, r, i) == CheckedTxn(s, b, Ops(s, r), i)

(* lessor.Grant *)
Grant(s, b, l) ==
  IF Has(s, l) THEN [s |-> s, b |-> b]
  ELSE [s |-> [s EXCEPT !.leases = With(@, l, {})], b |-> [b EXCEPT !.lease = @ \cup {l}]]

(* One call of DeleteRange by lessor.Revoke, and its end.                   *)
RevokeItem(s, b, k, i) ==
  LET ops == <<[type |-> "delete", keys |-> {k}]>>
  IN IF s.rd = "consistent" THEN ConsistentTxn(s, b, ops, i) ELSE Txn(s, b, ops, i)

RevokeEnd(s, b, l) ==
  [s |-> [s EXCEPT !.leases = Without(@, {l})], b |-> [b EXCEPT !.lease = @ \ {l}]]

(* store.Compact; the caller commits the backend when it succeeds.          *)
CanCompact(s, rev) == s.compacted < rev /\ rev <= s.rev.main

Compact(s, rev) == [s EXCEPT !.compacted = rev, !.index = IndexCompact(@, rev).index]

NewJob(s, rev) == [rev |-> rev, keep |-> IndexCompact(s.index, rev).keep, last |-> ZeroRev]

(* The records of the next batch, and the most that one transaction takes.  *)
AtMost(n, todo) == SubSeq(todo, 1, IF n < Len(todo) THEN n ELSE Len(todo))

(* Mutant: the compacted revision itself is left out.                       *)
BatchBelow(b, job) ==
  AtMost(BatchSize, SelectSeq(Revs(b), LAMBDA r : r.main < job.rev /\ ~GreaterThan(job.last, r)))

(* One batch of store.scheduleCompaction.                                   *)
Batch(b, job) ==
  AtMost(BatchSize, SelectSeq(Revs(b), LAMBDA r : r.main <= job.rev /\ ~GreaterThan(job.last, r)))

AfterBatch(b, job, keys) ==
  [b EXCEPT !.key = Without(@, ToSet(keys) \ job.keep),
            !.finished = IF Len(keys) < BatchSize THEN job.rev ELSE @]

-----------------------------------------------------------------------------
(* Mutant: the keys are not attached to their leases.                       *)
RestoreRecordUnattached(s, rev, rec) ==
  [s EXCEPT !.rev = rev, !.index = IF rec.tomb THEN IndexTombstone(@, rec.key, rev)
                                   ELSE IndexRestore(@, rec.key, [main |-> rec.create, sub |-> 0],
                                                     rev, rec.ver)]

(* lessor.initAndRecover, then store.restore: the index, the items of the   *)
(* leases and the revision are rebuilt from the records.                    *)
RestoreRecord(s, rev, rec) ==
  [s EXCEPT !.rev = rev,
            !.index = IF rec.tomb THEN IndexTombstone(@, rec.key, rev)
                      ELSE IndexRestore(@, rec.key, [main |-> rec.create, sub |-> 0], rev, rec.ver),
            !.leases = [l \in DOMAIN @ |-> IF l = rec.lease THEN @[l] \cup {rec.key} ELSE @[l]]]

restore(s, b) ==
  LET s0 == [NewStore EXCEPT !.compacted = b.finished, !.leases = s.leases, !.rd = s.rd]
  IN FoldLeft(LAMBDA x, rev : RestoreRecord(x, rev, b.key[rev]), s0, Revs(b))

Recover(b) == [l \in b.lease |-> {}]


Resumed(s, b) == IF b.scheduled > s.compacted THEN {b.scheduled} ELSE {}

-----------------------------------------------------------------------------
(* The backend of a member that has applied the entries es without a crash; *)
(* its compactions are done or only scheduled.                              *)
PeerRevoked(t, l) == RevokeEnd(t.s, t.b, l)

PeerCompacted(b, job, done) ==
  IF ~done THEN [b EXCEPT !.scheduled = job.rev]
  ELSE [b EXCEPT !.scheduled = job.rev, !.finished = job.rev,
                 !.key = Without(@, {x \in DOMAIN b.key : x.main <= job.rev} \ job.keep)]

PeerStep(t, r, i, done) ==
  CASE r.type = "grant"   -> Grant(t.s, t.b, r.lease)
    [] r.type = "revoke"  ->
         IF ~Has(t.s, r.lease) THEN t
         ELSE PeerRevoked(FoldLeft(LAMBDA x, k : RevokeItem(x.s, x.b, k, i), t,
                                   InOrder(t.s.leases[r.lease], <)), r.lease)
    [] r.type = "compact" ->
         IF ~CanCompact(t.s, r.rev) THEN t
         ELSE [s |-> Compact(t.s, r.rev),
               b |-> PeerCompacted(t.b, NewJob(t.s, r.rev), done)]
    [] OTHER -> applyTxn(t.s, t.b, r, i)

PeerBackend(es, done) ==
  FoldLeft(LAMBDA t, i : PeerStep(t, es[i], i, done),
           [s |-> NewStore, b |-> NewBackend], [i \in DOMAIN es |-> i]).b

-----------------------------------------------------------------------------
Init == /\ log = <<>> /\ applied = 0 /\ snapi = 0
        /\ st = NewStore /\ be = NewBackend /\ disk = NewBackend
        /\ jobs = <<>> /\ resume = {} /\ revoking = NotRevoking
        /\ faults = 0

Idle == revoking = NotRevoking /\ ~st.panic

(* EtcdServer.apply takes the next committed entry: one that the log already *)
(* holds, after a restart, or a new one.                                    *)
Entry(r) ==
  /\ Idle
  /\ IF applied < Len(log) THEN r = log[applied + 1] /\ UNCHANGED log
     ELSE Len(log) < MaxLog /\ log' = Append(log, r)

Becomes(t) == st' = t.s /\ be' = t.b

EntryDone == applied' = applied + 1 /\ UNCHANGED <<snapi, faults>>

ApplyTxn(r) ==
  /\ r.type \in {"put", "delete", "txn"} /\ Entry(r)
  /\ Becomes(applyTxn(st, be, r, applied + 1))
  /\ EntryDone /\ UNCHANGED <<disk, jobs, resume, revoking>>

ApplyLeaseCreate(r) ==
  /\ r.type = "grant" /\ Entry(r)
  /\ Becomes(Grant(st, be, r.lease))
  /\ EntryDone /\ UNCHANGED <<disk, jobs, resume, revoking>>

(* store.Compact as a whole: the schedule is committed to the file before    *)
(* the index is compacted and the job is queued.                            *)
StoreCompact(rev) ==
  IF ~CanCompact(st, rev) THEN UNCHANGED <<st, be, disk, jobs>>
  ELSE /\ st' = Compact(st, rev)
       /\ be' = [be EXCEPT !.scheduled = rev]
       /\ disk' = be'
       /\ jobs' = Append(jobs, NewJob(st, rev))

ApplyCompaction(r) ==
  /\ r.type = "compact" /\ Entry(r)
  /\ StoreCompact(r.rev)
  /\ EntryDone /\ UNCHANGED <<resume, revoking>>

(* lessor.Revoke releases its lock while it deletes the items one by one, in *)
(* the order of a Go map, and removes the lease at the end.                 *)
ApplyLeaseRevoke(r) ==
  /\ r.type = "revoke" /\ Entry(r)
  /\ IF Has(st, r.lease)
     THEN revoking' = [NotRevoking EXCEPT !.lease = r.lease] /\ UNCHANGED <<applied, snapi, faults>>
     ELSE EntryDone /\ UNCHANGED revoking
  /\ UNCHANGED <<st, be, disk, jobs, resume>>

RevokeNext(k) ==
  /\ revoking # NotRevoking /\ ~st.panic
  /\ k \in st.leases[revoking.lease] \ revoking.visited
  /\ Becomes(RevokeItem(st, be, k, applied + 1))
  /\ revoking' = [revoking EXCEPT !.visited = @ \cup {k}]
  /\ UNCHANGED <<log, applied, snapi, disk, jobs, resume, faults>>


RevokeDone ==
  /\ revoking # NotRevoking /\ ~st.panic
  /\ st.leases[revoking.lease] \subseteq revoking.visited
  /\ Becomes(RevokeEnd(st, be, revoking.lease))
  /\ revoking' = NotRevoking
  /\ EntryDone /\ UNCHANGED <<log, disk, jobs, resume>>

(* The scheduler runs the first compaction, one batch at a time.            *)
RunBatch(keys) ==
  /\ be' = AfterBatch(be, Head(jobs), keys)
  /\ jobs' = IF Len(keys) < BatchSize THEN Tail(jobs)
             ELSE [jobs EXCEPT ![1].last = [Last(keys) EXCEPT !.sub = @ + 1]]

CompactBatch ==
  /\ jobs # <<>> /\ ~st.panic
  /\ RunBatch(Batch(be, Head(jobs)))
  /\ UNCHANGED <<log, applied, snapi, st, disk, resume, revoking, faults>>

(* The goroutine that restore has started.                                  *)
ResumeCompaction(rev) ==
  /\ rev \in resume /\ ~st.panic
  /\ StoreCompact(rev)
  /\ resume' = resume \ {rev}
  /\ UNCHANGED <<log, applied, snapi, revoking, faults>>

(* The backend commits by its timer, or when its batch is full.             *)
Commit ==
  /\ disk # be /\ ~st.panic
  /\ disk' = be
  /\ UNCHANGED <<log, applied, snapi, st, be, jobs, resume, revoking, faults>>

(* triggerSnapshot: the backend is committed before the snapshot is saved.  *)
TriggerSnapshot ==
  /\ Idle /\ snapi < applied
  /\ disk' = be /\ snapi' = applied
  /\ UNCHANGED <<log, applied, st, be, jobs, resume, revoking, faults>>

(* A crash, and the start of the server: the lessor, then the store.        *)
Restart ==
  /\ faults < MaxFaults /\ ~st.panic
  /\ faults' = faults + 1
  /\ be' = disk
  /\ st' = restore([NewStore EXCEPT !.leases = Recover(disk)], disk)
  /\ applied' = snapi
  /\ jobs' = <<>> /\ resume' = Resumed(st', disk) /\ revoking' = NotRevoking
  /\ UNCHANGED <<log, snapi, disk>>

(* EtcdServer.applySnapshot: the store is restored with the leases that the *)
(* lessor still has, then the lessor is recovered from the new backend.     *)
ApplySnapshot(r, done) ==
  /\ faults < MaxFaults /\ Idle /\ Len(log) < MaxLog
  /\ faults' = faults + 1
  /\ log' = Append(log, r) /\ applied' = Len(log') /\ snapi' = Len(log')
  /\ be' = PeerBackend(log', done) /\ disk' = be'
  /\ st' = [restore(st, be') EXCEPT !.leases = Recover(be'), !.rd = "consistent"]
  /\ resume' = resume \cup Resumed(st', be')
  /\ jobs' = <<>>
  /\ UNCHANGED revoking

Next == \/ \E r \in Request : \/ ApplyTxn(r) \/ ApplyLeaseCreate(r)
                               \/ ApplyCompaction(r) \/ ApplyLeaseRevoke(r)
                               \/ \E done \in BOOLEAN : ApplySnapshot(r, done)
        \/ \E k \in Key : RevokeNext(k)
        \/ RevokeDone \/ CompactBatch
        \/ \E rev \in resume : ResumeCompaction(rev)
        \/ Commit \/ TriggerSnapshot \/ Restart

(* The scheduler runs what is queued and a goroutine that is started runs.  *)
Fairness == WF_vars(CompactBatch) /\ WF_vars(\E rev \in resume : ResumeCompaction(rev))

Spec == Init /\ [][Next]_vars /\ Fairness
-----------------------------------------------------------------------------
Ref == INSTANCE KVHistory

(* store.rangeKeys for one key at a revision that is not compacted.         *)
Read(k, rev) ==
  LET g == IndexGet(st.index, k, rev)
  IN IF g.found /\ g.modified \in DOMAIN be.key
     THEN LET rec == be.key[g.modified]
          IN [val |-> rec.val, lease |-> rec.lease, mod |-> rec.mod,
              create |-> rec.create, ver |-> rec.ver]
     ELSE NotFound

(* After a restart the records up to the scheduled compaction may be gone   *)
(* already, while the store restores the finished one only.                 *)
Readable(h) == {rev \in 1 .. Len(h) : rev > st.compacted /\ rev > be.scheduled}

Shows(h) ==
  /\ st.rev.main = Len(h)
  /\ \A rev \in Readable(h), k \in Key :
       Read(k, rev) = IF k \in DOMAIN h[rev] THEN h[rev][k] ELSE NotFound


(* A key whose current version carries a lease is among the items that the   *)
(* end of this lease deletes, also after a restart (lessor.Attach, Detach,   *)
(* store.put, store.restore).  This ends with the first snapshot of another  *)
(* member, whose recovery leaves the leases without items.                   *)
LeasedKeysAttached ==
  ~st.panic /\ st.rd = "watchable" =>
    \A k \in Key : LET l == LeaseAt(st, be, k, st.rev.main)
                   IN l # NoLease => Has(st, l) /\ k \in st.leases[l]

(* No operation finds a lease or a record missing that the index or an older *)
(* record names (the panics of store.put and store.delete).                  *)
NoPanic == ~st.panic

(* When the last scheduled compaction is finished, the backend holds at or   *)
(* below it the versions that the index still needs and nothing else         *)
(* (store.scheduleCompaction, keyIndex.compact).                             *)
CompactionIsExact ==
  st.compacted = be.finished /\ be.scheduled = be.finished
    => {rev \in DOMAIN be.key : rev.main <= st.compacted}
         = {rev \in UNION {UNION {ToSet(st.index[k].generations[g].revs) :
                                      g \in DOMAIN st.index[k].generations} :
                               k \in DOMAIN st.index} : rev.main <= st.compacted}

=============================================================================
