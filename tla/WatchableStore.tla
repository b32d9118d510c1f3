--------------------------- MODULE WatchableStore ---------------------------
(***************************************************************************)
(* Watchers of the v3 store (src/storage/watchable_store.go and              *)
(* watcher_group.go) and the stream of the watch service that serves them    *)
(* (src/etcdserver/api/v3rpc/watch.go).  A change of the store notifies the  *)
(* watchers that are synced; one whose channel is full becomes unsynced, and *)
(* a loop feeds the unsynced ones from the records of the store.             *)
(*                                                                          *)
(* The store is its revision, its compacted revision and the changes it has *)
(* made, [rev, key, del] in the order of their revisions.  All watchers      *)
(* share one stream, so that they compete for its channel.                   *)
(***************************************************************************)
EXTENDS Integers, Sequences, SequencesExt, FiniteSets

CONSTANTS Watcher,            \* identifiers of watchers, in the order of creation
          Key,
          ChanBufLen,         \* responses that the channel of the stream holds
          WatchBatchMaxRevs,  \* revisions that are sent to an unsynced watcher at once
          Request,            \* the requests to watch, [keys, start]
          MaxRev,             \* bounds the changes
          MaxOthers           \* bounds compactions, restorations, cancellations, reports

ASSUME WatchAssumption == ChanBufLen \in Nat \ {0} /\ WatchBatchMaxRevs \in Nat \ {0}

VARIABLES rev, compacted, hist, \* the store
          w,        \* the watchers: [keys, start, cur, group]
          ch,       \* the channel of the stream
          ctrl,     \* the control messages of the stream
          recv,     \* what the receiving loop of the stream is doing
          ids, pending,  \* the sending loop: announced watchers, held back responses
          client,   \* what has been sent to the client, by watcher
          skipped,  \* watchers that were put past events that they have not got
          others    \* compactions, restorations, cancellations and reports so far

vars == <<rev, compacted, hist, w, ch, ctrl, recv, ids, pending, client, skipped, others>>

NoWatcher == [keys |-> {}, start |-> 0, cur |-> 0, group |-> "none"]
Idle == [id |-> 0, keys |-> {}, start |-> 0]

Group(g) == {x \in Watcher : w[x].group = g}

(* The changes among rs that the watcher a is sent (newWatcherBatch).         *)
Events(rs, a) == SelectSeq(rs, LAMBDA r : r.key \in a.keys /\ r.rev >= a.cur)

(* The records that the compaction has left in the backend: of every key the *)
(* newest one at or below the compacted revision, unless it is a deletion,   *)
(* and all later ones.                                                       *)
Newest(r) == ~\E i \in DOMAIN hist : /\ hist[i].key = r.key
                                     /\ r.rev < hist[i].rev /\ hist[i].rev <= compacted
Records == SelectSeq(hist, LAMBDA r : r.rev > compacted \/ (~r.del /\ Newest(r)))

(* eventBatch.add: the events of the first WatchBatchMaxRevs revisions, and  *)
(* the revision at which the rest begins (0 when nothing is left).           *)
RevsUpTo(evs, i) == Cardinality({evs[j].rev : j \in 1 .. i})

Batched(evs) ==
  LET more == {i \in DOMAIN evs : RevsUpTo(evs, i) > WatchBatchMaxRevs}
      n    == Len(evs) - Cardinality(more)
  IN [evs |-> SubSeq(evs, 1, n), moreRev |-> IF more = {} THEN 0 ELSE evs[n + 1].rev]

(* WatchResponse; the revision is kept of a progress report only.  ToEach:   *)
(* every watcher of S gets one, in some order.                               *)
Control(kind, x) == [kind |-> kind, id |-> x, evs |-> <<>>, revision |-> 0]
Response(x, evs) == [Control("events", x) EXCEPT !.evs = evs]
Notice(x) == Control("compacted", x)
Report(x) == [Control("progress", x) EXCEPT !.revision = rev]
ToEach(S, Resp(_)) == LET q == SetToSeq(S) IN [i \in DOMAIN q |-> Resp(q[i])]


(* The sets of those watchers of S whose responses find room in the channel  *)
(* c: the loops go over a map, in any order.                                 *)
Lucky(S, c) ==
  {T \in SUBSET S : Cardinality(T) = IF ChanBufLen - Len(c) < Cardinality(S)
                                     THEN ChanBufLen - Len(c) ELSE Cardinality(S)}

Moved(a, group, cur) == [a EXCEPT !.group = group, !.cur = cur]

-----------------------------------------------------------------------------
Init == /\ rev = 1 /\ compacted = -1 /\ hist = <<>>
        /\ w = [x \in Watcher |-> NoWatcher]
        /\ ch = <<>> /\ ctrl = <<>> /\ recv = Idle
        /\ ids = {} /\ pending = [x \in Watcher |-> <<>>]
        /\ client = [x \in Watcher |-> <<>>]
        /\ skipped = {} /\ others = 0

Another == others < MaxOthers /\ others' = others + 1

store  == <<rev, compacted, hist>>
stream == <<ctrl, recv, ids, pending, client>>

(* Mutant: the change that did not fit is taken for sent.                    *)
notifyPast(r, evs) ==
  LET hit == {x \in Group("synced") : Events(evs, w[x]) # <<>>}
  IN \E got \in Lucky(hit, ch) :
       /\ ch' = ch \o ToEach(got, LAMBDA x : Response(x, Events(evs, w[x])))
       /\ w' = [x \in Watcher |-> IF x \in hit \ got THEN Moved(w[x], "unsynced", r + 1) ELSE w[x]]

(* watchableStore.notify: a watcher whose channel is full becomes unsynced.  *)
notify(r, evs) ==
  LET hit == {x \in Group("synced") : Events(evs, w[x]) # <<>>}
  IN \E got \in Lucky(hit, ch) :
       /\ ch' = ch \o ToEach(got, LAMBDA x : Response(x, Events(evs, w[x])))
       /\ w' = [x \in Watcher |-> IF x \in hit \ got THEN Moved(w[x], "unsynced", r) ELSE w[x]]

(* watchableStore.TxnEnd, Put and DeleteRange: the changes of one revision.  *)
Change(evs) ==
  /\ rev < MaxRev
  /\ rev' = rev + 1 /\ hist' = hist \o evs
  /\ notify(rev + 1, evs)
  /\ UNCHANGED <<compacted, stream, skipped, others>>

Exists(k) == LET rs == SelectSeq(hist, LAMBDA r : r.key = k)
             IN rs # <<>> /\ ~Last(rs).del

Put(k) == Change(<<[rev |-> rev + 1, key |-> k, del |-> FALSE]>>)

(* One key, as lessor.Revoke calls it (requests use a transaction): the      *)
(* events of several keys would all point to the variable of the loop.       *)
DeleteRange(k) == Exists(k) /\ Change(<<[rev |-> rev + 1, key |-> k, del |-> TRUE]>>)

(* A transaction that writes every key.                                      *)
Txn == Change(LET q == SetToSeq(Key)
              IN [i \in DOMAIN q |-> [rev |-> rev + 1, key |-> q[i], del |-> FALSE]])

Compact(r) ==
  /\ Another
  /\ compacted < r /\ r <= rev
  /\ compacted' = r
  /\ UNCHANGED <<rev, hist, w, ch, stream, skipped>>

(* store.Restore: the store is replaced by that of a member which is one     *)
(* change ahead; no watcher is notified.                                     *)
Restore(k) ==
  /\ Another /\ rev < MaxRev
  /\ rev' = rev + 1 /\ hist' = Append(hist, [rev |-> rev + 1, key |-> k, del |-> FALSE])
  /\ skipped' = skipped \cup {x \in Group("synced") : k \in w[x].keys /\ w[x].cur <= rev'}
  /\ UNCHANGED <<compacted, w, ch, stream>>

-----------------------------------------------------------------------------
(* scanMinRev: the unsynced watchers below the compacted revision are told   *)
(* so and deleted, as far as the channel has room (told); the others decide  *)
(* from where the records are read.                                          *)
Behind == {x \in Group("unsynced") : w[x].cur < compacted}

ReadFrom(minRev) == SelectSeq(Records, LAMBDA r : r.rev >= minRev)

Available == LET curs == {w[x].cur : x \in Group("unsynced") \ Behind}
             IN IF curs = {} THEN <<>> ELSE ReadFrom(CHOOSE c \in curs : \A d \in curs : c <= d)

(* Mutant: the revision at which the rest begins is taken for sent.          *)
SyncedPastMore(a, batch) == IF batch.moreRev # 0 THEN [a EXCEPT !.cur = batch.moreRev + 1]
                            ELSE Moved(a, "synced", rev)

(* An unsynced watcher after its batch has been sent.                        *)
Synced(a, batch) == IF batch.moreRev # 0 THEN [a EXCEPT !.cur = batch.moreRev]
                    ELSE Moved(a, "synced", rev)

(* watchableStore.syncWatchers.  A watcher that is behind and has not been   *)
(* told is treated like the others afterwards; with it, and with one that    *)
(* starts at a compacted deletion, events are skipped.                       *)
SyncWatchers ==
  /\ Group("unsynced") # {}
  /\ \E told \in Lucky(Behind, ch) :
       LET ch1   == ch \o ToEach(told, Notice)
           rest  == Group("unsynced") \ told
           evs   == Available
           batch == [x \in rest |-> Batched(Events(evs, w[x]))]
           hit   == {x \in rest : batch[x].evs # <<>>}
       IN \E got \in Lucky(hit, ch1) :
            /\ ch' = ch1 \o ToEach(got, LAMBDA x : Response(x, batch[x].evs))
            /\ w' = [x \in Watcher |->
                       CASE x \in told       -> [w[x] EXCEPT !.group = "compacted"]
                         [] x \in got        -> Synced(w[x], batch[x])
                         [] x \in rest \ hit -> Moved(w[x], "synced", rev)
                         [] OTHER            -> w[x]]
            /\ skipped' = skipped \cup {x \in rest \ (hit \ got) :
                            w[x].cur <= compacted /\ Events(evs, w[x]) # Events(hist, w[x])}
  /\ UNCHANGED <<store, stream, others>>

(* Mutant: the watcher may be unsynced.                                      *)
ProgressOfAny(x) ==
  /\ Another
  /\ w[x].group \in {"synced", "unsynced"} /\ Len(ch) < ChanBufLen
  /\ ch' = Append(ch, Report(x))
  /\ UNCHANGED <<store, w, stream, skipped>>

(* watchableStore.progress, on the ticker of the sending loop.               *)
Progress(x) ==
  /\ Another
  /\ w[x].group = "synced" /\ Len(ch) < ChanBufLen
  /\ ch' = Append(ch, Report(x))
  /\ UNCHANGED <<store, w, stream, skipped>>

-----------------------------------------------------------------------------
(* serverWatchStream.recvLoop: a request to watch keys from start on; 0    *)
(* means from now on.  The revision is read before the watcher is added.   *)
CreateRequest(x, req) ==
  /\ recv = Idle /\ w[x] = NoWatcher
  /\ \A y \in Watcher : y < x => w[y] # NoWatcher
  /\ recv' = [id |-> x, keys |-> req.keys,
              start |-> IF req.start = 0 THEN rev + 1 ELSE req.start]
  /\ UNCHANGED <<store, w, ch, ctrl, ids, pending, client, skipped, others>>

(* watchStream.Watch and watchableStore.watch, and the control message that  *)
(* follows: the sending loop may take it at any time from here on.           *)
Watch ==
  /\ recv # Idle
  /\ w' = [w EXCEPT ![recv.id] =
             [keys |-> recv.keys, start |-> recv.start, cur |-> recv.start,
              group |-> IF recv.start > rev THEN "synced" ELSE "unsynced"]]
  /\ ctrl' = Append(ctrl, Control("created", recv.id)) /\ recv' = Idle
  /\ UNCHANGED <<store, ch, ids, pending, client, skipped, others>>

(* watchStream.Cancel, for a watcher that the client knows.                  *)
CancelRequest(x) ==
  /\ Another
  /\ recv = Idle /\ x \in ids /\ w[x].group \notin {"none", "canceled"}
  /\ w' = [w EXCEPT ![x].group = "canceled"]
  /\ ctrl' = Append(ctrl, Control("canceled", x))
  /\ UNCHANGED <<store, ch, recv, ids, pending, client, skipped>>

(* Mutant: responses are sent before their watcher is announced.             *)
SendResponseAtOnce ==
  /\ ch # <<>> /\ ch' = Tail(ch)
  /\ client' = [client EXCEPT ![Head(ch).id] = Append(@, Head(ch))]
  /\ UNCHANGED <<store, w, ctrl, recv, ids, pending, skipped, others>>

(* serverWatchStream.sendLoop: the responses of a watcher are held back      *)
(* until its creation has been announced, and dropped after it is canceled.  *)
SendResponse ==
  /\ ch # <<>> /\ ch' = Tail(ch)
  /\ LET r == Head(ch)
     IN IF r.id \in ids
        THEN client' = [client EXCEPT ![r.id] = Append(@, r)] /\ UNCHANGED pending
        ELSE pending' = [pending EXCEPT ![r.id] = Append(@, r)] /\ UNCHANGED client
  /\ UNCHANGED <<store, w, ctrl, recv, ids, skipped, others>>

AnnounceCreated ==
  /\ ctrl # <<>> /\ Head(ctrl).kind = "created" /\ ctrl' = Tail(ctrl)
  /\ LET x == Head(ctrl).id
     IN /\ ids' = ids \cup {x}
        /\ client' = [client EXCEPT ![x] = Append(@, Head(ctrl)) \o pending[x]]
        /\ pending' = [pending EXCEPT ![x] = <<>>]
  /\ UNCHANGED <<store, w, ch, recv, skipped, others>>

AnnounceCanceled ==
  /\ ctrl # <<>> /\ Head(ctrl).kind = "canceled" /\ ctrl' = Tail(ctrl)
  /\ LET x == Head(ctrl).id
     IN /\ ids' = ids \ {x}
        /\ client' = [client EXCEPT ![x] = Append(@, Head(ctrl))]
  /\ UNCHANGED <<store, w, ch, recv, pending, skipped, others>>

-----------------------------------------------------------------------------
Next == \/ \E k \in Key : Put(k) \/ DeleteRange(k) \/ Restore(k)
        \/ Txn
        \/ \E r \in 1 .. MaxRev : Compact(r)
        \/ SyncWatchers
        \/ \E x \in Watcher : Progress(x) \/ CancelRequest(x)
        \/ \E x \in Watcher, req \in Request : CreateRequest(x, req)
        \/ Watch \/ SendResponse \/ AnnounceCreated \/ AnnounceCanceled

(* The sync loop runs every 100 ms, the loops of the stream run as long as   *)
(* the client takes what is sent, and select chooses fairly.                 *)
Fairness == /\ WF_vars(SyncWatchers)
            /\ WF_vars(Watch)
            /\ WF_vars(SendResponse) /\ WF_vars(AnnounceCreated) /\ WF_vars(AnnounceCanceled)

Spec == Init /\ [][Next]_vars /\ Fairness

-----------------------------------------------------------------------------
EventsOf(q) == FlattenSeq([i \in DOMAIN q |-> q[i].evs])
Sent(x) == client[x] \o pending[x] \o SelectSeq(ch, LAMBDA r : r.id = x)

(* What the watcher x has asked for: the changes of its keys from start on.  *)
Asked(x) == SelectSeq(hist, LAMBDA r : r.key \in w[x].keys /\ r.rev >= w[x].start)

(* A watcher is sent the changes that it has asked for in their order, each  *)
(* once and without a gap, and all of them while it is synced: whatever the  *)
(* channel, the batches, the moves between the groups and the announcement   *)
(* of the watcher do in between.                                             *)
NothingMissed ==
  \A x \in Watcher \ skipped :
    /\ IsPrefix(EventsOf(Sent(x)), Asked(x))
    /\ w[x].group = "synced" => EventsOf(Sent(x)) = Asked(x)

(* A progress response of revision r follows every change up to r ("The      *)
(* responses will be sent through the WatchRespone Chan attached with this   *)
(* stream to ensure correct ordering").                                      *)
ProgressIsTrue ==
  \A x \in Watcher \ skipped : \A i \in DOMAIN Sent(x) :
    Sent(x)[i].kind = "progress" =>
      \A j \in DOMAIN Asked(x) :
        Asked(x)[j].rev <= Sent(x)[i].revision => j <= Len(EventsOf(SubSeq(Sent(x), 1, i)))

(* The client is told of a watcher before it gets anything from it, and gets *)
(* nothing after it is told that the watcher is canceled; no event follows   *)
(* the notice that the watcher is behind the compaction.                     *)
ClientFollows ==
  \A x \in Watcher : \A i \in DOMAIN client[x] :
    /\ client[x][i].kind = "created" <=> i = 1
    /\ client[x][i].kind = "canceled" => i = Len(client[x])
    /\ client[x][i].kind = "compacted" => EventsOf(SubSeq(client[x], i, Len(client[x]))) = <<>>

(* scanMinRev: "watcher current revision should not exceed current revision" *)
NoPanic == \A x \in Group("unsynced") : w[x].cur <= rev

(* Every watcher gets all its events, or is told why not, although its       *)
(* channel is full again and again.                                          *)
Served(x) ==
  \/ w[x].group = "canceled"
  \/ \E i \in DOMAIN client[x] : client[x][i].kind = "compacted"
  \/ EventsOf(client[x]) = Asked(x)


=============================================================================
