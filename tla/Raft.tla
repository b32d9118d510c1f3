-------------------------------- MODULE Raft --------------------------------
(***************************************************************************)
(* The raft state machine of one member: raft/raft.go, with the log of     *)
(* raft/log.go and raft/log_unstable.go and the per-follower progress of   *)
(* raft/progress.go.  A member's state is one record r, and every function *)
(* of the code is an operator from records (and a message) to records, so  *)
(* that the handlers compose exactly as the Go functions call each other.  *)
(*                                                                         *)
(* The log is kept whole, from index 1: r.first is firstIndex(), and no    *)
(* operator looks below r.first - 1.  The part below is what the snapshot  *)
(* summarises.  Timers are abstracted to the messages they step (MsgHup,   *)
(* MsgBeat, MsgCheckQuorum).  r.msgs is a set: the network may reorder.    *)
(***************************************************************************)
EXTENDS Integers, Sequences, FiniteSets

CONSTANTS
    Node,            \* members that exist, or may be added
    None,            \* the zero member ID
    Value,           \* what clients propose
    MaxInflight,     \* Config.MaxInflightMsgs
    MaxEntsPerMsg    \* entries that fit into Config.MaxSizePerMsg

ASSUME NodeAssumption == IsFiniteSet(Node) /\ None \notin Node /\ None \notin Value
ASSUME MaxInflightAssumption == MaxInflight \in Nat \ {0}
ASSUME MaxEntsAssumption == MaxEntsPerMsg \in Nat \ {0}

Follower == "Follower"
Candidate == "Candidate"
Leader == "Leader"

min(a, b) == IF a > b THEN b ELSE a
max(a, b) == IF a > b THEN a ELSE b

-----------------------------------------------------------------------------
(* Types *)

\* The empty entry of a new leader, a client's entry, and the two changes of
\* the membership.
Entry == [term : Nat, kind : {"Noop", "Normal", "AddNode", "RemoveNode"},
          arg : Value \cup Node \cup {None}]

IsConfChange(e) == e.kind \in {"AddNode", "RemoveNode"}

\* Metadata of a snapshot; nodes is its ConfState, removed the IDs that the
\* store it holds has seen removed.
Snapshot == [index : Nat, nodes : SUBSET Node, removed : SUBSET Node]

NoSnapshot == [index |-> 0, nodes |-> {}, removed |-> {}]

MessageType == {"Vote", "VoteResp", "App", "AppResp", "Heartbeat",
                "HeartbeatResp", "Snap", "Prop"}

\* The entries of a MsgSnap are the log prefix that its snapshot stands for.
Message == [type : MessageType, to : Node, from : Node, term : Nat,
            index : Nat, logTerm : Nat, entries : Seq(Entry), commit : Nat,
            reject : BOOLEAN, rejectHint : Nat, snapshot : Snapshot]

Progress == [Match : Nat, Next : Nat \ {0},
             State : {"Probe", "Replicate", "Snapshot"}, Paused : BOOLEAN,
             PendingSnapshot : Nat, RecentActive : BOOLEAN, ins : Seq(Nat)]

RaftState == [id : Node, Term : Nat, Vote : Node \cup {None},
              state : {Follower, Candidate, Leader}, lead : Node \cup {None},
              granted : SUBSET Node, rejected : SUBSET Node,   \* r.votes
              nodes : SUBSET Node, prs : [Node -> Progress],   \* the map r.prs
              pendingConf : BOOLEAN, msgs : SUBSET Message,
              ents : Seq(Entry), first : Nat \ {0}, offset : Nat \ {0},
              committed : Nat, applied : Nat,
              snapshot : Snapshot,        \* what raftLog.snapshot() returns
              unstableSnap : BOOLEAN,     \* it is still in unstable.snapshot
              panicked : BOOLEAN]

panic(r) == [r EXCEPT !.panicked = TRUE]

\* The logs s and t reach index n and agree up to it.
AgreeUpTo(s, t, n) == n <= Len(s) /\ n <= Len(t) /\ SubSeq(s, 1, n) = SubSeq(t, 1, n)

-----------------------------------------------------------------------------
(* raft/log.go *)

lastIndex(r) == Len(r.ents)

\* 0 outside of [dummy index, last index], and no error.
term(r, i) == IF i \in max(r.first - 1, 1)..lastIndex(r) THEN r.ents[i].term ELSE 0

lastTerm(r) == term(r, lastIndex(r))

matchTerm(r, i, t) == term(r, i) = t

isUpToDate(r, lasti, t) ==
    t > lastTerm(r) \/ (t = lastTerm(r) /\ lasti >= lastIndex(r))

\* Entries of a message that starts at index i, limited in size.
entries(r, i) == SubSeq(r.ents, i, min(lastIndex(r), i + MaxEntsPerMsg - 1))

commitTo(r, tocommit) ==
    IF tocommit <= r.committed THEN r
    ELSE IF lastIndex(r) < tocommit THEN panic(r)
    ELSE [r EXCEPT !.committed = tocommit]

\* raftLog.append and unstable.truncateAndAppend: es becomes the log after
\* index after, and what the storage holds beyond it is out of date.  A gap is
\* the panic of unstable.mustCheckOutOfBounds.
append(r, after, es) ==
    IF es = << >> THEN r
    ELSE IF after < r.committed \/ after > lastIndex(r) THEN panic(r)
    ELSE [r EXCEPT !.ents = SubSeq(@, 1, after) \o es,
                   !.offset = min(@, after + 1)]

\* The number of entries before the first one that the log disagrees with.
findConflict(r, index, es) ==
    Cardinality({n \in 1..Len(es) :
                    \A k \in 1..n : matchTerm(r, index + k, es[k].term)})

\* Mutant: entries that are in the log already are appended again, and what
\* follows them is truncated.
maybeAppendTruncating(r, m) ==
    commitTo(append(r, m.index, m.entries), min(m.commit, m.index + Len(m.entries)))

maybeAppend(r, m) ==
    LET n == findConflict(r, m.index, m.entries)
        new == SubSeq(m.entries, n + 1, Len(m.entries))
        r1 == IF n < Len(m.entries) /\ m.index + n + 1 <= r.committed
              THEN panic(r)
              ELSE append(r, m.index + n, new)
    IN  commitTo(r1, min(m.commit, m.index + Len(m.entries)))

-----------------------------------------------------------------------------
(* raft/progress.go; the ring buffer is the FIFO window of module Inflights *)

newProgress(match, next) ==
    [Match |-> match, Next |-> next, State |-> "Probe", Paused |-> FALSE,
     PendingSnapshot |-> 0, RecentActive |-> FALSE, ins |-> << >>]

noProgress == newProgress(0, 1)

resetState(pr, st) == [newProgress(pr.Match, pr.Next) EXCEPT !.State = st]

\* Mutant: the window of the replicating state is not reset.
becomeProbeKeepingFlights(pr) == [pr EXCEPT !.State = "Probe", !.Next = pr.Match + 1]

becomeProbe(pr) ==
    [resetState(pr, "Probe") EXCEPT !.Next =
        IF pr.State = "Snapshot" THEN max(pr.Match + 1, pr.PendingSnapshot + 1)
                                 ELSE pr.Match + 1]

becomeReplicate(pr) == [resetState(pr, "Replicate") EXCEPT !.Next = pr.Match + 1]

becomeSnapshot(pr, i) == [resetState(pr, "Snapshot") EXCEPT !.PendingSnapshot = i]

maybeUpdate(pr, n) == [pr EXCEPT !.Match = max(@, n), !.Next = max(@, n + 1),
                                 !.Paused = @ /\ pr.Match >= n]

\* Is the rejection of index i out of date?
StaleReject(pr, i) == IF pr.State = "Replicate" THEN i <= pr.Match
                                                ELSE pr.Next - 1 # i

maybeDecrTo(pr, i, last) ==
    IF pr.State = "Replicate" THEN [pr EXCEPT !.Next = pr.Match + 1]
    ELSE [pr EXCEPT !.Next = max(min(i, last + 1), 1), !.Paused = FALSE]

isPaused(pr) == \/ pr.State = "Probe" /\ pr.Paused
                \/ pr.State = "Replicate" /\ Len(pr.ins) = MaxInflight
                \/ pr.State = "Snapshot"

\* Drops the flights before the first one that is larger than to.
freeTo(pr, to) ==
    LET n == Cardinality({j \in 1..Len(pr.ins) : \A k \in 1..j : pr.ins[k] <= to})
    IN  [pr EXCEPT !.ins = SubSeq(@, n + 1, Len(@))]

-----------------------------------------------------------------------------
(* raft/raft.go: sending *)

\* Mutant: half of the members are enough.
quorumHalf(r) == Cardinality(r.nodes) \div 2

quorum(r) == Cardinality(r.nodes) \div 2 + 1

\* The message that r.send completes; a proposal is forwarded without a term.
msg(r, type, to) ==
    [type |-> type, to |-> to, from |-> r.id,
     term |-> IF type = "Prop" THEN 0 ELSE r.Term,
     index |-> 0, logTerm |-> 0, entries |-> << >>, commit |-> 0,
     reject |-> FALSE, rejectHint |-> 0, snapshot |-> NoSnapshot]

send(r, m) == [r EXCEPT !.msgs = @ \cup {m}]

\* The follower needs entries that the log has compacted.
NeedsSnapshot(r, pr) == pr.Next < r.first

appendMsgs(r, to) ==
    LET pr == r.prs[to] IN
    {m \in {[msg(r, "Snap", to) EXCEPT
                !.snapshot = r.snapshot,
                !.entries = SubSeq(r.ents, 1, r.snapshot.index)]} :
        ~isPaused(pr) /\ NeedsSnapshot(r, pr) /\ pr.RecentActive}
    \cup
    {m \in {[msg(r, "App", to) EXCEPT
                !.index = pr.Next - 1, !.logTerm = term(r, pr.Next - 1),
                !.entries = entries(r, pr.Next), !.commit = r.committed]} :
        ~isPaused(pr) /\ ~NeedsSnapshot(r, pr)}

appendProgress(r, to) ==
    LET pr == r.prs[to]
        last == pr.Next - 1 + Len(entries(r, pr.Next))
    IN  CASE isPaused(pr) -> pr
          [] ~isPaused(pr) /\ NeedsSnapshot(r, pr) ->
                IF pr.RecentActive THEN becomeSnapshot(pr, r.snapshot.index) ELSE pr
          [] ~isPaused(pr) /\ ~NeedsSnapshot(r, pr) /\ last < pr.Next -> pr
          [] OTHER ->
                IF pr.State = "Replicate"
                THEN [pr EXCEPT !.Next = last + 1, !.ins = Append(@, last)]
                ELSE [pr EXCEPT !.Paused = TRUE]

\* sendAppend to every member of the set; the sends are independent.
sendAppends(r, to) ==
    [r EXCEPT !.prs = [p \in Node |->
                          IF p \in to THEN appendProgress(r, p) ELSE @[p]],
              !.msgs = @ \cup UNION {appendMsgs(r, p) : p \in to},
              !.panicked = @ \/ \E p \in to :   \* "need non-empty snapshot"
                    \E m \in appendMsgs(r, p) : m.type = "Snap" /\ m.snapshot.index = 0]

sendAppend(r, to) == sendAppends(r, {to})

bcastAppend(r) == sendAppends(r, r.nodes \ {r.id})

\* Mutant: the commit index is not bounded by what the follower holds.
sendHeartbeatUnbounded(r, to) == [msg(r, "Heartbeat", to) EXCEPT !.commit = r.committed]

\* Mutant: off by one.
sendHeartbeatOffByOne(r, to) == [msg(r, "Heartbeat", to) EXCEPT
                                    !.commit = min(r.prs[to].Match, r.committed) - 1]

sendHeartbeat(r, to) == [msg(r, "Heartbeat", to) EXCEPT
                            !.commit = min(r.prs[to].Match, r.committed)]

bcastHeartbeat(r) ==
    LET peers == r.nodes \ {r.id} IN
    [r EXCEPT !.msgs = @ \cup {sendHeartbeat(r, p) : p \in peers},
              !.prs = [p \in Node |->
                          IF p \in peers THEN [@[p] EXCEPT !.Paused = FALSE] ELSE @[p]]]

-----------------------------------------------------------------------------
(* raft/raft.go: commit, role changes *)

AtLeast(r, n) == {p \in r.nodes : r.prs[p].Match >= n}

\* n is mis[quorum - 1], the quorum-th largest Match.
IsQuorumMatch(r, n) == /\ Cardinality(AtLeast(r, n)) >= quorum(r)
                       /\ Cardinality(AtLeast(r, n + 1)) < quorum(r)

\* Mutant: entries of earlier terms are committed by counting replicas.
CommittableAnyTerm(r) == {n \in (r.committed + 1)..lastIndex(r) : IsQuorumMatch(r, n)}

Committable(r) == {n \in (r.committed + 1)..lastIndex(r) :
                      IsQuorumMatch(r, n) /\ matchTerm(r, n, r.Term)}

maybeCommit(r) ==
    IF Committable(r) = {} THEN r
    ELSE [r EXCEPT !.committed = CHOOSE n \in Committable(r) : TRUE]

\* The progress of every member of the configuration when the log ends at last;
\* the other keys of the map are absent.
newProgresses(nodes, id, last) ==
    [p \in Node |-> IF p \in nodes
                    THEN newProgress(IF p = id THEN last ELSE 0, last + 1)
                    ELSE noProgress]

\* Mutant: the vote is forgotten when the term does not change.
resetForgettingVote(r, t) ==
    [r EXCEPT !.Term = t, !.Vote = None, !.lead = None, !.granted = {}, !.rejected = {},
              !.prs = newProgresses(r.nodes, r.id, lastIndex(r)), !.pendingConf = FALSE]

reset(r, t) ==
    [r EXCEPT !.Term = t,
              !.Vote = IF r.Term = t THEN @ ELSE None,
              !.lead = None,
              !.granted = {},
              !.rejected = {},
              !.prs = newProgresses(r.nodes, r.id, lastIndex(r)),
              !.pendingConf = FALSE]

\* The leader counts its own copy before it is saved.  Without a progress of
\* its own (it has applied its removal) the nil pointer panics.  One entry at a
\* time is appended.
appendEntry(r, e) ==
    LET r1 == append(r, lastIndex(r), <<[e EXCEPT !.term = r.Term]>>)
    IN  IF r.id \notin r.nodes THEN panic(r1)
        ELSE maybeCommit([r1 EXCEPT !.prs[r.id] = maybeUpdate(@, lastIndex(r1))])

becomeFollower(r, t, l) == [reset(r, t) EXCEPT !.lead = l, !.state = Follower]

becomeCandidate(r) == [reset(r, r.Term + 1) EXCEPT !.Vote = r.id, !.state = Candidate]

Noop == [term |-> 0, kind |-> "Noop", arg |-> None]

UncommittedConf(r) == {k \in (r.committed + 1)..lastIndex(r) : IsConfChange(r.ents[k])}

becomeLeader(r) ==
    LET r1 == [reset(r, r.Term) EXCEPT
                  !.lead = r.id,
                  !.state = Leader,
                  !.pendingConf = UncommittedConf(r) # {},
                  !.panicked = @ \/ Cardinality(UncommittedConf(r)) > 1]
    IN  appendEntry(r1, Noop)

-----------------------------------------------------------------------------
(* raft/raft.go: elections *)

\* The first answer of a member counts.
poll(r, id, v) ==
    IF id \in r.granted \cup r.rejected THEN r
    ELSE [r EXCEPT !.granted = IF v THEN @ \cup {id} ELSE @,
                   !.rejected = IF v THEN @ ELSE @ \cup {id}]

campaign(r) ==
    LET r1 == poll(becomeCandidate(r), r.id, TRUE)
        request(p) == [msg(r1, "Vote", p) EXCEPT !.index = lastIndex(r1),
                                                 !.logTerm = lastTerm(r1)]
    IN  IF quorum(r1) = Cardinality(r1.granted) THEN becomeLeader(r1)
        ELSE [r1 EXCEPT !.msgs = @ \cup {request(p) : p \in r1.nodes \ {r.id}}]

\* Mutant: the candidate's log is not compared.
handleVoteAnyLog(r, m) ==
    LET grant == r.state = Follower /\ r.Vote \in {None, m.from}
        r1 == IF grant THEN [r EXCEPT !.Vote = m.from] ELSE r
    IN  send(r1, [msg(r1, "VoteResp", m.from) EXCEPT !.reject = ~grant])

handleVote(r, m) ==
    LET grant == /\ r.state = Follower
                 /\ r.Vote \in {None, m.from}
                 /\ isUpToDate(r, m.index, m.logTerm)
        r1 == IF grant THEN [r EXCEPT !.Vote = m.from] ELSE r
    IN  send(r1, [msg(r1, "VoteResp", m.from) EXCEPT !.reject = ~grant])

\* Only a candidate counts votes, and it compares them with = to the quorum.
handleVoteResp(r, m) ==
    LET r1 == poll(r, m.from, ~m.reject) IN
    CASE r.state # Candidate -> r
      [] r.state = Candidate /\ Cardinality(r1.granted) = quorum(r1) ->
            bcastAppend(becomeLeader(r1))
      [] /\ r.state = Candidate
         /\ Cardinality(r1.granted) # quorum(r1)
         /\ Cardinality(r1.rejected) = quorum(r1) -> becomeFollower(r1, r1.Term, None)
      [] OTHER -> r1

-----------------------------------------------------------------------------
(* raft/raft.go: replication, the follower's side *)

\* A candidate that hears of the leader of its term becomes its follower.
\* A MsgSnap does not make a follower remember its sender.
followLeader(r, m) ==
    CASE r.state = Candidate -> becomeFollower(r, r.Term, m.from)
      [] r.state = Follower /\ m.type # "Snap" -> [r EXCEPT !.lead = m.from]
      [] OTHER -> r

appResp(r, m, i) == [msg(r, "AppResp", m.from) EXCEPT !.index = i]

\* Mutant: the term of the previous entry is not compared.
handleAppendEntriesUnchecked(r, m) ==
    LET r1 == maybeAppend(r, m) IN
    IF m.index \notin r.committed..lastIndex(r) THEN send(r, appResp(r, m, r.committed))
    ELSE send(r1, appResp(r1, m, m.index + Len(m.entries)))

handleAppendEntries(r, m) ==
    LET r1 == maybeAppend(r, m) IN
    CASE m.index < r.committed -> send(r, appResp(r, m, r.committed))
      [] m.index >= r.committed /\ matchTerm(r, m.index, m.logTerm) ->
            send(r1, appResp(r1, m, m.index + Len(m.entries)))
      [] OTHER -> send(r, [appResp(r, m, m.index) EXCEPT
                              !.reject = TRUE, !.rejectHint = lastIndex(r)])

handleHeartbeat(r, m) == send(commitTo(r, m.commit), msg(r, "HeartbeatResp", m.from))

\* raftLog.restore and the new progress of every member of the snapshot.
restore(r, m) ==
    LET last == m.snapshot.index IN
    [r EXCEPT !.ents = m.entries, !.first = last + 1, !.offset = last + 1,
              !.committed = last, !.snapshot = m.snapshot, !.unstableSnap = TRUE,
              !.nodes = m.snapshot.nodes,
              !.prs = newProgresses(m.snapshot.nodes, r.id, last)]

\* Mutant: the snapshot is acknowledged before it is restored.
handleSnapshotUnrestored(r, m) == send(r, appResp(r, m, m.snapshot.index))

handleSnapshot(r, m) ==
    LET last == m.snapshot.index
        r1 == commitTo(r, last)
        r2 == restore(r, m)
    IN  CASE last <= r.committed -> send(r, appResp(r, m, r.committed))
          [] last > r.committed /\ matchTerm(r, last, m.entries[last].term) ->
                send(r1, appResp(r1, m, r1.committed))
          [] OTHER -> send(r2, appResp(r2, m, lastIndex(r2)))

-----------------------------------------------------------------------------
(* raft/raft.go: replication, the leader's side; m.from has a progress *)

setActive(r, p) == [r EXCEPT !.prs[p].RecentActive = TRUE]

handleAppResp(r, m) ==
    LET r1 == setActive(r, m.from)
        pr == r1.prs[m.from]
        decr == maybeDecrTo(pr, m.index, m.rejectHint)
        upd == maybeUpdate(pr, m.index)
        moved == CASE pr.State = "Probe" -> becomeReplicate(upd)
                   [] pr.State = "Snapshot" ->
                        IF upd.Match >= pr.PendingSnapshot THEN becomeProbe(upd) ELSE upd
                   [] pr.State = "Replicate" -> freeTo(upd, m.index)
        rejected == [r1 EXCEPT !.prs[m.from] =
                        IF pr.State = "Replicate" THEN becomeProbe(decr) ELSE decr]
        r2 == [r1 EXCEPT !.prs[m.from] = moved]
    IN  CASE m.reject -> IF StaleReject(pr, m.index) THEN r1
                         ELSE sendAppend(rejected, m.from)
          [] ~m.reject /\ pr.Match >= m.index -> [r1 EXCEPT !.prs[m.from] = upd]
          [] ~m.reject /\ pr.Match < m.index /\ Committable(r2) # {} ->
                bcastAppend(maybeCommit(r2))
          [] OTHER -> IF isPaused(pr) THEN sendAppend(r2, m.from) ELSE r2

handleHeartbeatResp(r, m) ==
    LET r1 == setActive(r, m.from)
        pr == r1.prs[m.from]
        r2 == IF pr.State = "Replicate" /\ Len(pr.ins) = MaxInflight
              THEN [r1 EXCEPT !.prs[m.from] = freeTo(pr, pr.ins[1])]
              ELSE r1
    IN  IF pr.Match < lastIndex(r) THEN sendAppend(r2, m.from) ELSE r2

handleSnapStatus(r, from, failed) ==
    LET pr == r.prs[from]
        done == becomeProbe(IF failed THEN [pr EXCEPT !.PendingSnapshot = 0] ELSE pr)
    IN  IF pr.State # "Snapshot" THEN r
        ELSE [r EXCEPT !.prs[from] = [done EXCEPT !.Paused = TRUE]]

handleUnreachable(r, from) ==
    IF r.prs[from].State = "Replicate"
    THEN [r EXCEPT !.prs[from] = becomeProbe(@)]
    ELSE r

\* Mutant: a leader that is not a member any more takes proposals.
handlePropUnguarded(r, e) ==
    LET e1 == IF IsConfChange(e) /\ r.pendingConf THEN Noop ELSE e
        r1 == [r EXCEPT !.pendingConf = @ \/ IsConfChange(e)]
    IN  bcastAppend(appendEntry(r1, e1))

\* A second configuration change that is proposed while one is pending is
\* replaced by an empty entry.  A message carries one entry.
handleProp(r, e) ==
    LET e1 == IF IsConfChange(e) /\ r.pendingConf THEN Noop ELSE e
        r1 == [r EXCEPT !.pendingConf = @ \/ IsConfChange(e)]
    IN  IF r.id \notin r.nodes THEN r
        ELSE bcastAppend(appendEntry(r1, e1))

\* MsgCheckQuorum: a leader that has not heard of a quorum steps down.
handleCheckQuorum(r) ==
    LET active == {p \in r.nodes : p = r.id \/ r.prs[p].RecentActive}
        r1 == [r EXCEPT !.prs = [p \in Node |->
                  IF p = r.id THEN @[p] ELSE [@[p] EXCEPT !.RecentActive = FALSE]]]
    IN  IF Cardinality(active) >= quorum(r) THEN r1 ELSE becomeFollower(r1, r1.Term, None)

\* The term check of Step: the state in which the message is handled.
observeTerm(r, m) ==
    IF m.term > r.Term
    THEN becomeFollower(r, m.term, IF m.type = "Vote" THEN None ELSE m.from)
    ELSE r

-----------------------------------------------------------------------------
(* raft/raft.go: Step of a message whose term is not below the member's *)

recvVote(r, m) == handleVote(observeTerm(r, m), m)

recvVoteResp(r, m) == handleVoteResp(observeTerm(r, m), m)

\* stepLeader has no case for the three messages of a leader.
fromLeader(r, m) == followLeader(observeTerm(r, m), m)

recvApp(r, m) == LET r1 == fromLeader(r, m) IN
                 IF r1.state = Leader THEN r1 ELSE handleAppendEntries(r1, m)

recvHeartbeat(r, m) == LET r1 == fromLeader(r, m) IN
                       IF r1.state = Leader THEN r1 ELSE handleHeartbeat(r1, m)

recvSnap(r, m) == LET r1 == fromLeader(r, m) IN
                  IF r1.state = Leader THEN r1 ELSE handleSnapshot(r1, m)

\* A response with a higher term makes a follower, which ignores it otherwise.
recvAppResp(r, m) == LET r1 == observeTerm(r, m) IN
                     IF r1.state = Leader THEN handleAppResp(r1, m) ELSE r1

recvHeartbeatResp(r, m) == LET r1 == observeTerm(r, m) IN
                           IF r1.state = Leader THEN handleHeartbeatResp(r1, m) ELSE r1


\* The leader appends a proposal, a follower forwards it to the leader it knows.
recvProp(r, e) ==
    IF r.state = Leader THEN handleProp(r, e)
    ELSE send(r, [msg(r, "Prop", r.lead) EXCEPT !.entries = <<e>>])

-----------------------------------------------------------------------------
(* raft/raft.go: membership, start *)

\* Mutant: the progress of a new member starts like the leader's own.
addNodeMatched(r, id) ==
    IF id \in r.nodes THEN r
    ELSE [r EXCEPT !.nodes = @ \cup {id},
                   !.prs[id] = newProgress(lastIndex(r), lastIndex(r) + 1),
                   !.pendingConf = FALSE]

addNode(r, id) ==
    IF id \in r.nodes THEN r
    ELSE [r EXCEPT !.nodes = @ \cup {id},
                   !.prs[id] = newProgress(0, lastIndex(r) + 1),
                   !.pendingConf = FALSE]

removeNode(r, id) ==
    LET r1 == [r EXCEPT !.nodes = @ \ {id}, !.prs[id] = noProgress,
                        !.pendingConf = FALSE]
    IN  IF r1.nodes = {} \/ Committable(r1) = {} THEN r1
        ELSE bcastAppend(maybeCommit(r1))

\* Mutant: the vote is not loaded.
newRaftWithoutVote(id, hs, snap, ents) ==
    [id |-> id, Term |-> hs.Term, Vote |-> None, state |-> Follower,
     lead |-> None, granted |-> {}, rejected |-> {}, nodes |-> snap.nodes,
     prs |-> newProgresses(snap.nodes, id, Len(ents)), pendingConf |-> FALSE,
     msgs |-> {}, ents |-> ents, first |-> snap.index + 1, offset |-> Len(ents) + 1,
     committed |-> hs.Commit, applied |-> snap.index, snapshot |-> snap,
     unstableSnap |-> FALSE, panicked |-> hs.Commit \notin snap.index..Len(ents)]

\* newRaft of a restarted member: hs, the snapshot and the log come from disk.
newRaft(id, hs, snap, ents) ==
    LET r == [id |-> id, Term |-> hs.Term, Vote |-> hs.Vote, state |-> Follower,
              lead |-> None, granted |-> {}, rejected |-> {},
              nodes |-> snap.nodes, prs |-> [p \in Node |-> noProgress],
              pendingConf |-> FALSE, msgs |-> {}, ents |-> ents,
              first |-> snap.index + 1, offset |-> Len(ents) + 1,
              committed |-> hs.Commit, applied |-> snap.index,
              snapshot |-> snap, unstableSnap |-> FALSE,
              panicked |-> hs.Commit \notin snap.index..Len(ents)]  \* loadState
    IN  becomeFollower(r, r.Term, None)

=============================================================================
