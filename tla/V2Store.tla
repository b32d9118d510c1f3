------------------------------ MODULE V2Store -------------------------------
(***************************************************************************)
(* The v2 store (src/store): a tree of nodes with expiration times, the      *)
(* history of its last events, and the watchers that are notified of them,   *)
(* driven by the requests that the server applies (applyRequest).            *)
(*                                                                          *)
(* A path is the sequence of its names below a namespace of the store; the   *)
(* namespace itself is <<>> and cannot be changed.  Times are numbers, 0 is  *)
(* "never".  A request that fails changes nothing and is left out.           *)
(***************************************************************************)
EXTENDS TtlHeap, FiniteSets, FiniteSetsExt

CONSTANTS Request,     \* the requests that may be applied
          WatchRequest,\* the watches that may be asked for
          Watcher,
          UniqueName,  \* the name that a POST at index i gives to its node
          Hidden,      \* the names that begin with an underscore
          Longer,      \* the pairs <<n, m>> of names where m extends n
          Capacity,    \* events that the history keeps
          ChanLen,     \* events that the channel of a watcher holds
          MaxIndex     \* bounds the changes

ASSUME V2Assumption == Capacity \in Nat \ {0} /\ ChanLen \in Nat \ {0}

VARIABLES st,   \* the store of a member
          peer, \* the store of another member, which has recovered from a snapshot
          log,  \* all events so far
          w     \* the watchers of st

vars == <<st, peer, log, w>>

-----------------------------------------------------------------------------
(* The event queue and its scan.                                            *)
newEventHistory == [events |-> [i \in 0 .. Capacity - 1 |-> <<>>], size |-> 0,
                    front |-> 0, back |-> 0, startIndex |-> 0, lastIndex |-> 0]

(* Mutant: a full queue keeps its front.                                     *)
addEventKeepingFront(q, e) ==
  LET full   == q.size = Capacity
      events == [q.events EXCEPT ![q.back] = <<e>>]
  IN [events |-> events, size |-> IF full THEN q.size ELSE q.size + 1,
      front |-> q.front, back |-> (q.back + 1) % Capacity,
      startIndex |-> events[q.front][1].index, lastIndex |-> e.index]

addEvent(q, e) ==
  LET full   == q.size = Capacity
      front  == IF full THEN (q.front + 1) % Capacity ELSE q.front
      events == [q.events EXCEPT ![q.back] = <<e>>]
  IN [events |-> events, size |-> IF full THEN q.size ELSE q.size + 1,
      front |-> front, back |-> (q.back + 1) % Capacity,
      startIndex |-> events[front][1].index, lastIndex |-> e.index]

Under(p, q) == IsStrictPrefix(p, q)

(* strings.HasPrefix on paths: the last name of p may go on in q.            *)
HasPrefix(q, p) ==
  /\ Len(p) <= Len(q)
  /\ \A i \in DOMAIN p : \/ p[i] = q[i]
                         \/ i = Len(p) /\ <<p[i], q[i]>> \in Longer

(* A recursive scan that has looked at the events es has put a slash behind  *)
(* the key, and no later event at the key itself is equal to it.             *)
Slashed(recursive, es) == recursive /\ \E e \in es : ~e.refresh

(* Whether scan takes the event e for a watcher of key.                      *)
Matches(e, key, recursive, slashed) ==
  /\ ~e.refresh
  /\ \/ e.key = key /\ ~slashed
     \/ recursive /\ Under(key, e.key)
     \/ e.action \in {"delete", "expire"} /\ e.prev.dir /\ HasPrefix(key, e.key)

Nothing == 0
Cleared == -1

(* EventHistory.scan: the index of the event that is found.                  *)
scan(q, key, recursive, index) ==
  LET i       == q.front + (index - q.startIndex)
      At(o)   == q.events[(i + o) % Capacity][1]
      visited == {o \in 0 .. Capacity - 1 :
                    \A p \in 0 .. o - 1 : (i + p + 1) % Capacity # q.back}
      hits    == {o \in visited : Matches(At(o), key, recursive,
                                          Slashed(recursive, {At(p) : p \in 0 .. o - 1}))}
  IN IF index < q.startIndex THEN Cleared
     ELSE IF index > q.lastIndex \/ hits = {} THEN Nothing
     ELSE At(Min(hits)).index

-----------------------------------------------------------------------------
(* The tree: the nodes that exist, by their paths.                          *)
Node(dir, value, index, expire) ==
  [dir |-> dir, value |-> value, created |-> index, modified |-> index, expire |-> expire]

NoNode == Node(FALSE, "", 0, 0)
newStore == [nodes |-> (<<>> :> Node(TRUE, "", 0, 0)), index |-> 0,
             heap |-> newTtlKeyHeap, history |-> newEventHistory]

Has(s, p) == p \in DOMAIN s.nodes
Expiry(nodes) == [p \in DOMAIN nodes |-> nodes[p].expire]
Above(p) == {SubSeq(p, 1, n) : n \in 0 .. Len(p) - 1}
Subtree(s, p) == {q \in DOMAIN s.nodes : IsPrefix(p, q)}

Event(action, p, index, node, prev) ==
  [action |-> action, key |-> p, index |-> index, created |-> node.created, prev |-> prev,
   refresh |-> FALSE, gone |-> {}]

(* A request leaves a store and the events that it has caused.               *)
Failed(s) == [s |-> s, evs |-> <<>>]
Recorded(s, e) == [s |-> [s EXCEPT !.index = e.index, !.history = addEvent(@, e)], evs |-> <<e>>]

(* The heap without the nodes of S, in some order.                           *)
RECURSIVE removeAll(_, _, _)
removeAll(h, T, S) ==
  IF S = {} THEN h
  ELSE LET x == CHOOSE x \in S : TRUE IN removeAll(remove(h, T, x), T, S \ {x})

(* Mutant: what is below stays.                                              *)
RemovedAlone(s, p) ==
  [s EXCEPT !.nodes = [q \in DOMAIN s.nodes \ {p} |-> s.nodes[q]],
            !.heap = remove(@, Expiry(s.nodes), p)]

(* node.Remove with everything below it.                                     *)
Removed(s, p) ==
  LET gone == Subtree(s, p)
  IN [s EXCEPT !.nodes = [q \in DOMAIN s.nodes \ gone |-> s.nodes[q]],
               !.heap = removeAll(@, Expiry(s.nodes), gone)]

(* store.internalCreate: the directories above are created as well.          *)
CanCreate(s, p, replace) ==
  /\ p # <<>>
  /\ \A q \in Above(p) : Has(s, q) => s.nodes[q].dir
  /\ Has(s, p) => replace /\ ~s.nodes[p].dir

internalCreate(s, p, dir, value, expire) ==
  LET next == s.index + 1
      s1   == IF Has(s, p) THEN Removed(s, p) ELSE s
      nodes == s1.nodes @@ (p :> Node(dir, IF dir THEN "" ELSE value, next, expire))
                        @@ [q \in Above(p) |-> Node(TRUE, "", next, 0)]
  IN [s1 EXCEPT !.nodes = nodes,
                !.heap = IF expire = 0 THEN @ ELSE push(@, Expiry(nodes), p)]

PrevOf(s, p) == IF Has(s, p) THEN s.nodes[p] ELSE NoNode

Create(s, r) ==
  LET p  == IF r.method = "POST" THEN Append(r.path, UniqueName[s.index + 1]) ELSE r.path
      s1 == internalCreate(s, p, r.dir, r.val, r.expiration)
  IN IF ~CanCreate(s, p, FALSE) THEN Failed(s)
     ELSE Recorded(s1, Event("create", p, s.index + 1, s1.nodes[p], NoNode))

Set(s, r) ==
  LET p  == r.path
      s1 == internalCreate(s, p, r.dir, IF r.refresh THEN s.nodes[p].value ELSE r.val,
                           r.expiration)
  IN IF ~CanCreate(s, p, TRUE) \/ (r.refresh /\ ~Has(s, p)) THEN Failed(s)
     ELSE Recorded(s1, [Event("set", p, s.index + 1, s1.nodes[p], PrevOf(s, p))
                          EXCEPT !.refresh = r.refresh])

(* Mutant: the heap is told of new times only.                               *)
UpdateTTLPushing(heap, p, old, T) ==
  IF T[p] = 0 THEN heap ELSE IF old = 0 THEN push(heap, T, p) ELSE update(heap, T, p)

(* node.UpdateTTL, after the time of p has changed from old to T[p].         *)
UpdateTTL(heap, p, old, T) ==
  CASE old # 0 /\ T[p] = 0 -> remove(heap, T, p)
    [] old # 0 /\ T[p] # 0 -> update(heap, T, p)
    [] old = 0 /\ T[p] # 0 -> push(heap, T, p)
    [] OTHER               -> heap

(* node.Write and UpdateTTL, as Update and CompareAndSwap use them: Write    *)
(* does nothing to a directory.                                              *)
Write(s, r, action) ==
  LET n     == s.nodes[r.path]
      value == IF r.refresh THEN n.value ELSE r.val
      n1    == IF n.dir THEN [n EXCEPT !.expire = r.expiration]
               ELSE [n EXCEPT !.value = value, !.modified = s.index + 1, !.expire = r.expiration]
      nodes == [s.nodes EXCEPT ![r.path] = n1]
      s1    == [s EXCEPT !.nodes = nodes, !.heap = UpdateTTL(@, r.path, n.expire, Expiry(nodes))]
  IN Recorded(s1, [Event(action, r.path, s.index + 1, n1, n) EXCEPT !.refresh = r.refresh])

Update(s, r) ==
  IF r.path = <<>> \/ ~Has(s, r.path) \/ (s.nodes[r.path].dir /\ r.val # "") THEN Failed(s)
  ELSE Write(s, r, "update")

Compare(n, r) == r.prevIndex \in {0, n.modified} /\ r.prevValue \in {"", n.value}

IsFile(s, p) == Has(s, p) /\ ~s.nodes[p].dir

CompareAndSwap(s, r) ==
  IF r.path = <<>> \/ ~IsFile(s, r.path) \/ ~Compare(s.nodes[r.path], r) THEN Failed(s)
  ELSE Write(s, r, "compareAndSwap")

Unlink(s, p, action) ==
  Recorded(Removed(s, p), [Event(action, p, s.index + 1, s.nodes[p], s.nodes[p])
                             EXCEPT !.gone = Subtree(s, p)])

Delete(s, r) ==
  IF \/ r.path = <<>> \/ ~Has(s, r.path)
     \/ s.nodes[r.path].dir /\ ~r.dir /\ ~r.recursive
     \/ Subtree(s, r.path) # {r.path} /\ ~r.recursive
  THEN Failed(s) ELSE Unlink(s, r.path, "delete")

CompareAndDelete(s, r) ==
  IF ~IsFile(s, r.path) \/ ~Compare(s.nodes[r.path], r) THEN Failed(s)
  ELSE Unlink(s, r.path, "compareAndDelete")

RECURSIVE DeleteExpiredKeys(_, _)
DeleteExpiredKeys(s, cutoff) ==
  IF s.heap.array = <<>> \/ s.nodes[top(s.heap)].expire > cutoff THEN Failed(s)
  ELSE LET p    == top(s.heap)
           one  == Unlink([s EXCEPT !.heap = pop(@, Expiry(s.nodes))], p, "expire")
           rest == DeleteExpiredKeys(one.s, cutoff)
       IN [s |-> rest.s, evs |-> one.evs \o rest.evs]

(* EtcdServer.applyRequest *)
Compares(r) == r.prevIndex > 0 \/ r.prevValue # ""

applyPut(s, r) ==
  CASE r.prevExist = "no"                    -> Create(s, r)
    [] r.prevExist # "no" /\ Compares(r)     -> CompareAndSwap(s, r)
    [] r.prevExist = "yes" /\ ~Compares(r)   -> Update(s, r)
    [] r.prevExist = "unset" /\ ~Compares(r) -> Set(s, r)

applyRequest(s, r) ==
  CASE r.method = "POST"   -> Create(s, r)
    [] r.method = "PUT"    -> applyPut(s, r)
    [] r.method = "DELETE" -> IF Compares(r) THEN CompareAndDelete(s, r) ELSE Delete(s, r)
    [] r.method = "SYNC"   -> DeleteExpiredKeys(s, r.time)

-----------------------------------------------------------------------------
(* The watchers: [path, recursive, stream, since, state, chan, got, passed]; *)
(* chan and got hold the indexes of events, passed those of the events that  *)
(* scan has passed over because of the slash.                                *)
NoWatcher == [path |-> <<>>, recursive |-> FALSE, stream |-> FALSE, since |-> 0,
              state |-> "none", chan |-> <<>>, got |-> <<>>, passed |-> {}]

isHidden(watchPath, key) == \E i \in Len(watchPath) + 1 .. Len(key) : key[i] \in Hidden

(* Mutant: a watcher that has been notified stays in its list.               *)
notifyKeeping(a, e, deleted) ==
  IF /\ a.state = "list" /\ e.index >= a.since
     /\ e.key = a.path \/ ((a.recursive \/ deleted) /\ ~isHidden(a.path, e.key))
  THEN IF Len(a.chan) < ChanLen THEN [a EXCEPT !.chan = Append(@, e.index)]
       ELSE [a EXCEPT !.state = "removed"]
  ELSE a

(* watcherHub.notifyWatchers and watcher.notify, for one watcher: deleted    *)
(* when the path of the watcher is removed together with a directory.        *)
notify(a, e, deleted) ==
  IF /\ a.state = "list" /\ e.index >= a.since
     /\ e.key = a.path \/ ((a.recursive \/ deleted) /\ ~isHidden(a.path, e.key))
  THEN IF Len(a.chan) < ChanLen
       THEN [a EXCEPT !.chan = Append(@, e.index), !.state = IF a.stream THEN @ ELSE "served"]
       ELSE [a EXCEPT !.state = "removed"]
  ELSE a

(* The callbacks of node.Remove come first, then watcherHub.notify walks     *)
(* down to the key.                                                          *)
Informed(a, e) ==
  LET a1 == IF a.path \in e.gone THEN notify(a, e, TRUE) ELSE a
  IN IF IsPrefix(a.path, e.key) /\ ~e.refresh THEN notify(a1, e, FALSE) ELSE a1

RECURSIVE InformedOfAll(_, _)
InformedOfAll(a, evs) == IF evs = <<>> THEN a ELSE InformedOfAll(Informed(a, Head(evs)), Tail(evs))

-----------------------------------------------------------------------------
NoStore == [index |-> -1]

Init == /\ st = newStore /\ peer = NoStore /\ log = <<>>
        /\ w = [x \in Watcher |-> NoWatcher]

ApplyRequest(r) ==
  LET done == applyRequest(st, r)
  IN /\ done.evs # <<>> /\ done.s.index <= MaxIndex
     /\ st' = done.s
     /\ peer' = IF peer = NoStore THEN peer ELSE applyRequest(peer, r).s
     /\ log' = log \o done.evs
     /\ w' = [x \in Watcher |-> InformedOfAll(w[x], done.evs)]

Post(r) == r.method = "POST" /\ ApplyRequest(r)
Put(r) == r.method = "PUT" /\ ApplyRequest(r)
DeleteRequest(r) == r.method = "DELETE" /\ ApplyRequest(r)
Sync(r) == r.method = "SYNC" /\ ApplyRequest(r)

(* Whether a scan from index on has put the slash when it comes to event i.  *)
Before(q, index, i) == Slashed(q.recursive, {log[j] : j \in index .. i - 1})

(* store.Watch and watcherHub.watch: an event of the history is the only one *)
(* that the watcher gets.                                                    *)
Watch(x, q) ==
  LET since == IF q.since = 0 THEN st.index + 1 ELSE q.since
      found == scan(st.history, q.path, q.recursive, since)
      over  == {i \in since .. st.index :
                  /\ Matches(log[i], q.path, q.recursive, FALSE)
                  /\ ~Matches(log[i], q.path, q.recursive, Before(q, since, i))}
  IN /\ w[x] = NoWatcher /\ found # Cleared
     /\ w' = [w EXCEPT ![x] =
               [path |-> q.path, recursive |-> q.recursive, stream |-> q.stream, since |-> since,
                state |-> IF found = Nothing THEN "list" ELSE "served",
                chan |-> IF found = Nothing THEN <<>> ELSE <<found>>, got |-> <<>>,
                passed |-> over]]
     /\ UNCHANGED <<st, peer, log>>

(* The handler of the request reads an event, or gives up.                   *)
Receive(x) ==
  /\ w[x].chan # <<>>
  /\ w' = [w EXCEPT ![x].chan = Tail(@), ![x].got = Append(@, Head(w[x].chan))]
  /\ UNCHANGED <<st, peer, log>>

RemoveWatcher(x) ==
  /\ w[x].state \in {"list", "served", "removed"}
  /\ w' = [w EXCEPT ![x].state = "closed"]
  /\ UNCHANGED <<st, peer, log>>


(* Save at the member, Recovery at the other: recoverAndclean pushes the     *)
(* nodes of a directory in the order of a map, and the directory after them. *)
RECURSIVE pushAll(_, _, _)
pushAll(h, T, q) == IF q = <<>> THEN h ELSE pushAll(push(h, T, Head(q)), T, Tail(q))

BottomUp(q) == \A i, j \in DOMAIN q : i < j => ~Under(q[i], q[j])

Recovery ==
  /\ peer = NoStore /\ st.index > 0
  /\ \E q \in SetToSeqs({p \in DOMAIN st.nodes : st.nodes[p].expire # 0}) :
       /\ BottomUp(q)
       /\ peer' = [st EXCEPT !.heap = pushAll(newTtlKeyHeap, Expiry(st.nodes), q)]
  /\ UNCHANGED <<st, log, w>>

Next == \/ \E r \in Request : Post(r) \/ Put(r) \/ DeleteRequest(r) \/ Sync(r)
        \/ \E x \in Watcher, q \in WatchRequest : Watch(x, q)
        \/ \E x \in Watcher : Receive(x) \/ RemoveWatcher(x)
        \/ Recovery

Spec == Init /\ [][Next]_vars

-----------------------------------------------------------------------------
(* Whether the watcher a has to be told of the event e.                      *)
Wanted(a, e) ==
  /\ ~e.refresh /\ e.index >= a.since /\ e.index \notin a.passed
  /\ \/ e.key = a.path
     \/ a.recursive /\ Under(a.path, e.key) /\ ~isHidden(a.path, e.key)
     \/ a.path \in e.gone

Indexes(q) == [i \in DOMAIN q |-> q[i].index]
Distinct(q) == SelectSeq(Indexes(log), LAMBDA i : \E j \in DOMAIN q : q[j] = i)
IsNondecreasing(q) == \A i \in 1 .. Len(q) - 1 : q[i] <= q[i + 1]

(* A watcher in a list has been sent every event that concerns it since the  *)
(* index it asked for, in order; one that was served, from the history or at *)
(* once, has been sent nothing later than the first such event ("Or a        *)
(* watcher might miss the event happens between the end of the first watch   *)
(* command and the start of the second command").  The events at its own     *)
(* path that a recursive scan passes over are not counted.                   *)
NothingMissed ==
  \A x \in Watcher :
    LET a      == w[x]
        sent   == a.got \o a.chan
        wanted == Indexes(SelectSeq(log, LAMBDA e : Wanted(a, e)))
    IN /\ IsNondecreasing(sent)
       /\ a.state = "list" => IF a.stream THEN Distinct(sent) = wanted
                              ELSE wanted = <<>> /\ sent = <<>>
       /\ a.state = "served" => /\ Len(sent) = 1 /\ sent[1] >= a.since
                                /\ wanted # <<>> => sent[1] <= wanted[1]

(* The ring of the history answers a scan like the whole history would, as   *)
(* long as the index is one of the last Capacity, and refuses it before.     *)
ScanIsExact ==
  \A q \in WatchRequest, i \in 1 .. st.index + 1 :
    LET found == {j \in i .. st.index : Matches(log[j], q.path, q.recursive, Before(q, i, j))}
    IN scan(st.history, q.path, q.recursive, i) =
         IF i <= st.index - Capacity THEN Cleared
         ELSE IF found = {} THEN Nothing ELSE Min(found)

(* The heap holds exactly the nodes that expire, and finds each of them, so  *)
(* that the first one on top is the next to expire, whatever has been        *)
(* replaced, deleted with its directory or given another time.               *)
HeapIsExact ==
  \A s \in {st} \cup ({peer} \ {NoStore}) :
    IsHeapOf(s.heap, Expiry(s.nodes), {p \in DOMAIN s.nodes : s.nodes[p].expire # 0})


(* A node is in a directory, and was not changed after the current index.    *)
TreeIsSound ==
  \A p \in DOMAIN st.nodes :
    /\ \A q \in Above(p) : Has(st, q) /\ st.nodes[q].dir
    /\ st.nodes[p].created <= st.nodes[p].modified /\ st.nodes[p].modified <= st.index

=============================================================================
