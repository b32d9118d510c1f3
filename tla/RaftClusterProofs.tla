-------------------------- MODULE RaftClusterProofs --------------------------
(***************************************************************************)
(* The theorems about module RaftCluster, for every finite set of members, *)
(* every set of values and all of the bounds.                              *)
(***************************************************************************)
EXTENDS RaftCluster, RaftProofs

-----------------------------------------------------------------------------
(* Types *)

\* A member between two steps: its messages were sent and what is applied is
\* committed.
MemberOK(i) == /\ RaftOK(raft[i], Node)
               /\ raft[i].id = i
               /\ raft[i].msgs = {}
               /\ raft[i].applied <= raft[i].committed

\* TypeOK is not inductive by itself: the snapshot that a member sends, or
\* restarts from, is a prefix of its log only if the indexes are in order.
TypeInv == /\ raft = [i \in Node |-> raft[i]]
           /\ \A i \in Node : MemberOK(i)
           /\ \A m \in net : MessageOK(m, Node)
           /\ restarts \in Nat

\* The inductive invariant implies TypeOK.
LEMMA TypeInvType == TypeInv => TypeOK
<1> SUFFICES ASSUME TypeInv PROVE TypeOK
    OBVIOUS
<1>1. \A i \in Node : raft[i] \in RaftState
    BY DEF TypeInv, MemberOK, RaftOK
<1>2. raft \in [Node -> RaftState]
    BY <1>1 DEF TypeInv
<1>3. net \subseteq Message
    BY DEF TypeInv, MessageOK
<1> QED BY <1>2, <1>3 DEF TypeInv, TypeOK

\* Processing a Ready (advanced) keeps the term, the vote and the role.
LEMMA AdvancedOK ==
    ASSUME NEW C, NEW r, RaftOK(r, C)
    PROVE  LET s == advanced(r)
           IN  /\ RaftOK(s, C) /\ s.id = r.id /\ s.Term = r.Term /\ s.Vote = r.Vote
               /\ s.state = r.state /\ s.granted = r.granted /\ s.msgs = {}
               /\ s.applied <= s.committed
<1> DEFINE s == advanced(r)
<1>1. r \in RaftState /\ lastIndex(r) + 1 \in Nat \ {0} /\ r.committed \in Nat
    BY LenProperties DEF RaftOK, RaftState, lastIndex
<1>2. s \in RaftState
    BY <1>1 DEF advanced, RaftState
<1>3. /\ s.id = r.id /\ s.state = r.state /\ s.Term = r.Term /\ s.granted = r.granted
      /\ s.msgs = {} /\ s.ents = r.ents /\ s.committed = r.committed
      /\ s.snapshot = r.snapshot /\ s.nodes = r.nodes /\ s.Vote = r.Vote
      /\ s.applied = r.committed
    BY <1>1 DEF advanced, RaftState
<1> HIDE DEF s
<1>4. RaftOK(s, C)
    BY <1>2, <1>3, SameLogOK
<1> QED BY <1>1, <1>3, <1>4 DEF s

\* The members that were started from a snapshot satisfy the invariant.
LEMMA InitTypeInv == Init => TypeInv
<1> SUFFICES ASSUME Init PROVE TypeInv
    OBVIOUS
<1> DEFINE hs == [Term |-> 1, Vote |-> None, Commit |-> 1]
           snap == [index |-> 1, nodes |-> Node, removed |-> {}]
           es == <<BaseEntry>>
<1>1. snap \in Snapshot /\ snap.index = 1 /\ snap.nodes = Node
    BY DEF Snapshot
<1>2. es \in Seq(Entry) /\ Len(es) = 1
    BY DEF BaseEntry, Entry
<1>3. hs.Term \in Nat /\ hs.Vote \in Node \cup {None} /\ hs.Commit \in snap.index..Len(es)
    BY <1>1, <1>2
<1>4. raft = [i \in Node |-> newRaft(i, hs, snap, es)]
    BY DEF Init
<1>5. hs.Commit = 1
    OBVIOUS
<1> HIDE DEF hs, snap, es
<1>6. ASSUME NEW i \in Node PROVE MemberOK(i)
    <2> DEFINE s == newRaft(i, hs, snap, es)
    <2>1. /\ RaftOK(s, snap.nodes) /\ s.id = i /\ s.msgs = {} /\ s.committed = hs.Commit
          /\ s.applied = snap.index
        BY <1>1, <1>2, <1>3, NewRaftOK
    <2>2. raft[i] = s
        BY <1>4
    <2> HIDE DEF s
    <2> QED BY <1>1, <1>5, <2>1, <2>2 DEF MemberOK
<1> QED BY <1>4, <1>6 DEF Init, TypeInv

-----------------------------------------------------------------------------
(* The steps, seen from the elections *)

\* Member i gets to the state r, sends r.msgs, and keeps s of it.
Move(i, r) ==
    /\ RaftOK(r, Node)
    /\ net' = net \cup r.msgs
    /\ restarts' \in Nat
    /\ \E s : /\ raft' = [raft EXCEPT ![i] = s]
              /\ RaftOK(s, Node) /\ s.id = i /\ s.msgs = {} /\ s.applied <= s.committed
              /\ s.Term = r.Term /\ s.Vote = r.Vote /\ s.state = r.state
              /\ s.granted = r.granted

\* The step to r answers a request for a vote.
Votes(i, r) == \E m \in net : \E q : /\ RaftOK(q, Node)
                                      /\ Calm(raft[i], q)
                                      /\ q.msgs = raft[i].msgs
                                      /\ VoteStep(q, r, m.from)

\* The step to r counts a vote.
Counts(i, r) == \E m \in net : /\ m.type = "VoteResp"
                               /\ m.to = i
                               /\ m.term = raft[i].Term
                               /\ raft[i].state = Candidate
                               /\ CountStep(raft[i], r, m)

Elects(i, r) == Calm(raft[i], r) \/ CampaignStep(raft[i], r) \/ Votes(i, r) \/ Counts(i, r)

\* StepTo is a Move.
LEMMA StepToMoves ==
    ASSUME TypeInv, NEW i \in Node, NEW r, RaftOK(r, Node), r.id = i, StepTo(i, r)
    PROVE  Move(i, r)
<1> DEFINE s == advanced(r)
<1>1. /\ RaftOK(s, Node) /\ s.id = i /\ s.msgs = {} /\ s.applied <= s.committed
      /\ s.Term = r.Term /\ s.Vote = r.Vote /\ s.state = r.state /\ s.granted = r.granted
    BY AdvancedOK
<1>2. raft' = [raft EXCEPT ![i] = s] /\ net' = net \cup r.msgs /\ restarts' = restarts
    BY DEF StepTo
<1> HIDE DEF s
<1> QED BY <1>1, <1>2 DEF Move, TypeInv

\* A Move keeps the invariant.
LEMMA MoveTypeInv ==
    ASSUME TypeInv, NEW i \in Node, NEW r, Move(i, r)
    PROVE  TypeInv'
<1>1. PICK s : /\ raft' = [raft EXCEPT ![i] = s]
               /\ RaftOK(s, Node) /\ s.id = i /\ s.msgs = {} /\ s.applied <= s.committed
    BY DEF Move
<1>2. raft' = [j \in Node |-> raft'[j]] /\ raft'[i] = s /\ \A j \in Node : j # i => raft'[j] = raft[j]
    BY <1>1 DEF TypeInv
<1>3. \A j \in Node : MemberOK(j)'
    BY <1>1, <1>2 DEF TypeInv, MemberOK
<1>4. \A m \in net' : MessageOK(m, Node)
    BY DEF TypeInv, RaftOK, Move
<1> QED BY <1>2, <1>3, <1>4 DEF TypeInv, Move

\* The receipt of a message is a Move of its addressee that takes one of the four
\* kinds of steps.
LEMMA RecvMoves ==
    ASSUME TypeInv, NEW m \in net, Receive(m)
    PROVE  \E i \in Node : \E r : Move(i, r) /\ Elects(i, r)
<1> DEFINE i == m.to
           p == raft[i]
<1>1. MessageOK(m, Node) /\ m \in Message /\ i \in Node
    BY DEF TypeInv, MessageOK, Message
<1>2. RaftOK(p, Node) /\ p.id = i /\ p.msgs = {}
    BY <1>1 DEF TypeInv, MemberOK
<1>3. ASSUME NEW r, RaftOK(r, Node), Calm(p, r), StepTo(i, r)
      PROVE  Move(i, r) /\ Elects(i, r)
    BY <1>1, <1>2, <1>3, StepToMoves DEF Calm, Elects
<1>4. m.term >= p.Term
    BY DEF Receive, Recv, RecvVote, RecvVoteResp, RecvApp, RecvAppResp, RecvHeartbeat,
           RecvHeartbeatResp, RecvSnap
<1> HIDE DEF i, p
<1>5. CASE RecvVote(m)
    <2> DEFINE q == observeTerm(p, m)
               r == handleVote(q, m)
    <2>1. RaftOK(q, Node) /\ Calm(p, q) /\ q.msgs = p.msgs
        BY <1>1, <1>2, <1>4, ObserveTermOK
    <2>2. StepTo(i, r)
        BY <1>5 DEF RecvVote, Recv, recvVote, i, p
    <2> HIDE DEF q
    <2>3. RaftOK(r, Node) /\ VoteStep(q, r, m.from)
        BY <1>1, <2>1, HandleVoteOK
    <2> HIDE DEF r
    <2>4. r.id = i
        BY <1>2, <2>1, <2>3 DEF Calm, VoteStep
    <2>5. Votes(i, r)
        BY <2>1, <2>3 DEF Votes, p
    <2> QED BY <1>1, <2>2, <2>3, <2>4, <2>5, StepToMoves DEF Elects
<1>6. CASE RecvVoteResp(m)
    <2> DEFINE q == observeTerm(p, m)
               r == handleVoteResp(q, m)
    <2>1. /\ RaftOK(q, Node) /\ Calm(p, q) /\ q.Term = m.term
          /\ q = p \/ q.state = Follower
        BY <1>1, <1>2, <1>4, ObserveTermOK
    <2>2. StepTo(i, r) /\ m.type = "VoteResp"
        BY <1>6 DEF RecvVoteResp, Recv, recvVoteResp, i, p
    <2> HIDE DEF q
    <2>3. RaftOK(r, Node) /\ CountStep(q, r, m) /\ (q.state # Candidate => r = q)
        BY <1>1, <2>1, HandleVoteRespOK
    <2> HIDE DEF r
    <2>4. CASE q.state # Candidate
        BY <1>1, <1>3, <2>1, <2>2, <2>3, <2>4
    <2>5. CASE q.state = Candidate
        <3>1. q = p /\ m.term = p.Term
            BY <2>1, <2>5 DEF Follower, Candidate
        <3>2. r.id = i
            BY <1>2, <2>3, <3>1 DEF CountStep
        <3>3. Counts(i, r)
            BY <2>2, <2>3, <2>5, <3>1 DEF Counts, p, i
        <3> QED BY <1>1, <2>2, <2>3, <3>2, <3>3, StepToMoves DEF Elects
    <2> QED BY <2>4, <2>5
<1>7. CASE RecvApp(m)
    <2>1. StepTo(i, recvApp(p, m))
        BY <1>7 DEF RecvApp, Recv, i, p
    <2> QED BY <1>1, <1>2, <1>3, <1>4, <2>1, RecvFromLeaderOK
<1>8. CASE RecvHeartbeat(m)
    <2>1. StepTo(i, recvHeartbeat(p, m))
        BY <1>8 DEF RecvHeartbeat, Recv, i, p
    <2> QED BY <1>1, <1>2, <1>3, <1>4, <2>1, RecvFromLeaderOK
<1>9. CASE RecvSnap(m)
    <2>1. StepTo(i, recvSnap(p, m)) /\ m.type = "Snap"
        BY <1>9 DEF RecvSnap, Recv, i, p
    <2> QED BY <1>1, <1>2, <1>3, <1>4, <2>1, RecvFromLeaderOK
<1>10. CASE RecvAppResp(m)
    <2>1. StepTo(i, recvAppResp(p, m))
        BY <1>10 DEF RecvAppResp, Recv, i, p
    <2> QED BY <1>1, <1>2, <1>3, <1>4, <2>1, RecvFromFollowerOK
<1>11. CASE RecvHeartbeatResp(m)
    <2>1. StepTo(i, recvHeartbeatResp(p, m))
        BY <1>11 DEF RecvHeartbeatResp, Recv, i, p
    <2> QED BY <1>1, <1>2, <1>3, <1>4, <2>1, RecvFromFollowerOK
<1> QED BY <1>5, <1>6, <1>7, <1>8, <1>9, <1>10, <1>11 DEF Receive

\* So is every step that a member takes by itself, a restart included.
LEMMA LocalMoves ==
    ASSUME TypeInv, NEW i \in Node, Local(i)
    PROVE  \E j \in Node : \E r : Move(j, r) /\ Elects(j, r)
<1> DEFINE p == raft[i]
<1>1. RaftOK(p, Node) /\ p.id = i /\ p.msgs = {} /\ p.applied <= p.committed
    BY DEF TypeInv, MemberOK
<1>2. p \in RaftState
    BY <1>1 DEF RaftOK
<1>3. ASSUME NEW r, RaftOK(r, Node), Calm(p, r), StepTo(i, r)
      PROVE  \E j \in Node : \E x : Move(j, x) /\ Elects(j, x)
    BY <1>1, <1>3, StepToMoves DEF Calm, Elects
<1>4. CASE Timeout(i)
    <2> DEFINE r == campaign(p)
    <2>1. RaftOK(r, Node) /\ CampaignStep(p, r)
        BY <1>1, CampaignOK
    <2>2. StepTo(i, r)
        BY <1>4 DEF Timeout
    <2> HIDE DEF r
    <2>3. r.id = i
        BY <1>1, <2>1 DEF CampaignStep
    <2> QED BY <2>1, <2>2, <2>3, StepToMoves DEF Elects
<1>5. CASE Beat(i)
    <2>1. StepTo(i, bcastHeartbeat(p)) /\ p.state = Leader
        BY <1>5 DEF Beat, IsLeader
    <2> HIDE DEF p
    <2> QED BY <1>1, <1>3, <2>1, BcastHeartbeatOK, CalmQuiet
<1>6. CASE CheckQuorumTick(i)
    <2>1. StepTo(i, handleCheckQuorum(p))
        BY <1>6 DEF CheckQuorumTick
    <2> HIDE DEF p
    <2> QED BY <1>1, <1>3, <2>1, HandleCheckQuorumOK
<1>7. ASSUME NEW v \in Value, Propose(i, v)
      PROVE  \E j \in Node : \E x : Move(j, x) /\ Elects(j, x)
    <2> DEFINE e == [term |-> 0, kind |-> "Normal", arg |-> v]
    <2>1. StepTo(i, recvProp(p, e)) /\ p.state = Leader
        BY <1>7 DEF Propose, IsLeader
    <2>2. recvProp(p, e) = handleProp(p, e)
        BY <2>1 DEF recvProp
    <2>3. e \in Entry
        BY DEF Entry
    <2> HIDE DEF p, e
    <2> QED BY <1>1, <1>3, <2>1, <2>2, <2>3, HandlePropOK, CalmQuiet
<1>8. ASSUME NEW q \in Node, ReportUnreachable(i, q)
      PROVE  \E j \in Node : \E x : Move(j, x) /\ Elects(j, x)
    <2>1. StepTo(i, handleUnreachable(p, q))
        BY <1>8 DEF ReportUnreachable
    <2> HIDE DEF p
    <2> QED BY <1>1, <1>3, <2>1, HandleUnreachableOK, CalmQuiet
<1>9. ASSUME NEW q \in Node, NEW failed \in BOOLEAN, ReportSnapshot(i, q, failed)
      PROVE  \E j \in Node : \E x : Move(j, x) /\ Elects(j, x)
    <2> DEFINE r == handleSnapStatus(p, q, failed)
    <2>1. StepTo(i, r)
        BY <1>9 DEF ReportSnapshot
    <2>2. RaftOK(r, Node) /\ Quiet(p, r)
        BY <1>1, HandleSnapStatusOK
    <2> HIDE DEF p, r
    <2> QED BY <1>3, <2>1, <2>2, CalmQuiet
<1>10. CASE Compact(i)
    <2> DEFINE n == p.applied
               s == [p EXCEPT !.snapshot.index = n, !.first = n + 1]
    <2>1. raft' = [raft EXCEPT ![i] = s] /\ net' = net /\ restarts' = restarts
        BY <1>10 DEF Compact, TypeInv
    <2>2. n \in Nat /\ n + 1 \in Nat \ {0} /\ [p.snapshot EXCEPT !.index = n] \in Snapshot
        <3>1. p.applied \in Nat /\ p.snapshot \in Snapshot
            BY <1>2 DEF RaftState
        <3>2. n \in Nat /\ n + 1 \in Nat \ {0}
            BY <3>1
        <3>3. [p.snapshot EXCEPT !.index = n] \in Snapshot
            BY <3>1, <3>2 DEF Snapshot
        <3> QED BY <3>2, <3>3
    <2>3. s \in RaftState
        <3> HIDE DEF p, n
        <3> QED BY <1>2, <2>2 DEF RaftState
    <2>4. /\ s.id = p.id /\ s.state = p.state /\ s.Term = p.Term /\ s.granted = p.granted
          /\ s.msgs = p.msgs /\ s.ents = p.ents /\ s.committed = p.committed
          /\ s.snapshot.index = n /\ s.snapshot.nodes = p.snapshot.nodes /\ s.nodes = p.nodes
          /\ s.Vote = p.Vote /\ s.applied = p.applied
        BY <1>2 DEF RaftState, Snapshot
    <2> HIDE DEF p, s
    <2>5. RaftOK(s, Node)
        BY <1>1, <2>3, <2>4 DEF RaftOK, lastIndex
    <2>6. Move(i, s)
        BY <1>1, <2>1, <2>4, <2>5 DEF Move, TypeInv
    <2>7. Calm(p, s)
        BY <1>1, <2>4 DEF Calm
    <2> QED BY <2>6, <2>7 DEF Elects, p
<1>11. CASE Restart(i)
    <2> DEFINE hs == [Term |-> p.Term, Vote |-> p.Vote, Commit |-> p.committed]
               s == newRaft(i, hs, p.snapshot, p.ents)
    <2>1. raft' = [raft EXCEPT ![i] = s] /\ net' = net /\ restarts' = restarts + 1
        BY <1>11 DEF Restart
    <2>2. hs.Term = p.Term /\ hs.Vote = p.Vote /\ hs.Commit = p.committed
        OBVIOUS
    <2> HIDE DEF hs
    <2>3. p.Term \in Nat /\ p.Vote \in Node \cup {None} /\ p.snapshot \in Snapshot
          /\ p.ents \in Seq(Entry) /\ p.snapshot.index \in Nat /\ p.committed \in Nat
          /\ p.snapshot.nodes = Node /\ p.snapshot.index <= p.committed
          /\ p.committed <= Len(p.ents) /\ Len(p.ents) \in Nat
        BY <1>1, <1>2, LenProperties DEF RaftState, Snapshot, RaftOK, lastIndex
    <2>4. hs.Commit \in p.snapshot.index..Len(p.ents)
        BY <2>2, <2>3
    <2> HIDE DEF p
    <2>5. /\ RaftOK(s, p.snapshot.nodes) /\ s.id = i /\ s.Term = hs.Term /\ s.Vote = hs.Vote
          /\ s.state = Follower /\ s.msgs = {} /\ s.committed = hs.Commit
          /\ s.applied = p.snapshot.index
        BY <2>2, <2>3, <2>4, NewRaftOK
    <2> HIDE DEF s
    <2>6. Move(i, s)
        <3>1. RaftOK(s, Node) /\ s.applied <= s.committed
            BY <2>2, <2>3, <2>5
        <3>2. net' = net \cup s.msgs /\ restarts' \in Nat
            BY <2>1, <2>5 DEF TypeInv
        <3> QED BY <2>1, <2>5, <3>1, <3>2 DEF Move
    <2>7. Calm(p, s)
        BY <1>1, <2>2, <2>5 DEF Calm
    <2> QED BY <2>6, <2>7 DEF Elects, p
<1> QED BY <1>4, <1>5, <1>6, <1>7, <1>8, <1>9, <1>10, <1>11 DEF Local

\* So is every step.
LEMMA NextMoves ==
    ASSUME TypeInv, Next
    PROVE  \E i \in Node : \E r : Move(i, r) /\ Elects(i, r)
BY RecvMoves, LocalMoves DEF Next

\* Stuttering keeps the invariant.
LEMMA StutterTypeInv == TypeInv /\ UNCHANGED vars => TypeInv'
BY DEF TypeInv, MemberOK, vars

\* The inductive invariant holds in every state.
LEMMA TypeInvariance == Spec => []TypeInv
<1>1. Init => TypeInv
    BY InitTypeInv
<1>2. TypeInv /\ [Next]_vars => TypeInv'
    BY NextMoves, MoveTypeInv, StutterTypeInv
<1> QED BY <1>1, <1>2, PTL DEF Spec

\* Every variable keeps its type, whatever messages are lost, repeated or late
\* and whenever members restart: no handler of raft.go builds a message, a
\* progress or a log that is not one.
THEOREM TypeCorrect == Spec => []TypeOK
BY TypeInvariance, TypeInvType, PTL

-----------------------------------------------------------------------------
(* Elections *)

Grant(m) == m.type = "VoteResp" /\ ~m.reject

\* A member that granted its vote in a term remembers it as long as the term
\* lasts, and never granted another in the same term.
GrantsKept ==
    \A m \in net : Grant(m) =>
        /\ \/ raft[m.from].Term > m.term
           \/ raft[m.from].Term = m.term /\ raft[m.from].Vote = m.to
        /\ \A n \in net : Grant(n) /\ n.from = m.from /\ n.term = m.term => n.to = m.to

\* A candidate and a leader have voted for themselves.
VotedForSelf == \A i \in Node : raft[i].state \in {Candidate, Leader} => raft[i].Vote = i

GrantedBy(p, i, t) ==
    \E m \in net : Grant(m) /\ m.from = p /\ m.to = i /\ m.term = t

\* The votes that a candidate has counted were granted to it in its term.
CountedVotes ==
    \A i \in Node : raft[i].state = Candidate =>
        \A p \in raft[i].granted \ {i} : GrantedBy(p, i, raft[i].Term)

\* Q elected i for term t.
ElectedBy(i, t, Q) == /\ Q \in SUBSET Node
                    /\ Cardinality(Q) = Cardinality(Node) \div 2 + 1
                    /\ \A p \in Q \ {i} : GrantedBy(p, i, t)

\* A leader, of now or earlier, was elected by a quorum, and its own vote of
\* that term went to nobody else.
LeadersElected ==
    \A i \in Node, t \in Nat : Leads(i, t) =>
        /\ \E Q : ElectedBy(i, t, Q)
        /\ \A m \in net : Grant(m) /\ m.from = i /\ m.term = t => m.to = i
        /\ raft[i].Term > t \/ (raft[i].Term = t /\ raft[i].Vote = i)

ElectionInv == GrantsKept /\ VotedForSelf /\ CountedVotes /\ LeadersElected

\* At the start nobody has voted and nobody leads.
LEMMA InitElectionInv == Init /\ TypeInv => ElectionInv
<1> SUFFICES ASSUME Init, TypeInv PROVE ElectionInv
    OBVIOUS
<1>1. net = {}
    BY DEF Init
<1>2. \A i \in Node : raft[i].state = Follower
    BY DEF Init, newRaft, becomeFollower, reset
<1> QED BY <1>1, <1>2 DEF ElectionInv, GrantsKept, VotedForSelf, CountedVotes, LeadersElected,
                          Leads, Follower, Candidate, Leader

\* What a step may do to the votes of member i, which it takes to the state r.
LEMMA ElectsFacts ==
    ASSUME TypeInv, ElectionInv, NEW i \in Node, NEW r, RaftOK(r, Node), Elects(i, r)
    PROVE  /\ \/ r.Term > raft[i].Term
              \/ r.Term = raft[i].Term /\ (r.Vote = raft[i].Vote \/ raft[i].Vote = None)
           /\ \A m \in r.msgs : Grant(m) => m.from = i /\ m.term = r.Term /\ m.to = r.Vote
           /\ \A m \in r.msgs :
                m.type \in LeaderMessage => m.from = i /\ m.term = r.Term /\ r.state = Leader
           /\ r.state \in {Candidate, Leader} => r.Vote = i
           /\ r.state = Candidate => \A x \in r.granted \ {i} : GrantedBy(x, i, r.Term)
           /\ r.state = Leader => \/ raft[i].state = Leader /\ r.Term = raft[i].Term
                                  \/ \E Q : ElectedBy(i, r.Term, Q)
<1> DEFINE p == raft[i]
<1>1. RaftOK(p, Node) /\ p.id = i /\ p.msgs = {} /\ p.Term \in Nat /\ r.Term \in Nat
    BY DEF TypeInv, MemberOK, RaftOK, RaftState
<1>2. /\ p.state \in {Candidate, Leader} => p.Vote = i
      /\ p.state = Candidate => \A x \in p.granted \ {i} : GrantedBy(x, i, p.Term)
    BY DEF ElectionInv, VotedForSelf, CountedVotes
<1>3. p.nodes = Node /\ p.granted \subseteq Node /\ i # None
    BY <1>1, NodeAssumption DEF RaftOK, RaftState
<1>4. quorum(p) = Cardinality(Node) \div 2 + 1
    BY <1>3 DEF quorum
<1>5. Follower \notin {Candidate, Leader} /\ Candidate # Leader
    BY DEF Follower, Candidate, Leader
<1>6. CASE Calm(p, r)
    <2> HIDE DEF p
    <2> QED BY <1>1, <1>2, <1>5, <1>6 DEF Calm, PlainMessage, Grant, p
<1>7. CASE CampaignStep(p, r)
    <2>1. r.state = Leader => \E Q : ElectedBy(i, r.Term, Q)
        <3> SUFFICES ASSUME r.state = Leader PROVE \E Q : ElectedBy(i, r.Term, Q)
            OBVIOUS
        <3>1. PICK Q \in SUBSET {i} : Cardinality(Q) = quorum(p)
            BY <1>1, <1>5, <1>7 DEF CampaignStep
        <3> QED BY <1>4, <3>1 DEF ElectedBy
    <2> HIDE DEF p
    <2> QED BY <1>1, <1>5, <1>7, <2>1 DEF CampaignStep, PlainMessage, Grant, p
<1>8. CASE Votes(i, r)
    <2>a. PICK m \in net : \E q : /\ RaftOK(q, Node)
                                  /\ Calm(p, q)
                                  /\ q.msgs = p.msgs
                                  /\ VoteStep(q, r, m.from)
        BY <1>8 DEF Votes
    <2>1. PICK q : /\ RaftOK(q, Node)
                   /\ Calm(p, q)
                   /\ q.msgs = p.msgs
                   /\ VoteStep(q, r, m.from)
        BY <2>a
    <2>2. q.Term \in Nat /\ q.msgs = {} /\ q.id = i
        BY <1>1, <2>1 DEF RaftOK, RaftState, Calm
    <2>3. \/ q.Term > p.Term /\ q.Vote = None /\ q.state = Follower
          \/ q.Term = p.Term /\ q.Vote = p.Vote /\ (q.state = Follower \/ (q.state = p.state /\ q.granted = p.granted))
        BY <2>1 DEF Calm
    <2>4. /\ r.Term = q.Term /\ r.state = q.state /\ r.granted = q.granted
          /\ r.Vote = q.Vote \/ (q.Vote = None /\ r.Vote = m.from)
          /\ \A x \in r.msgs : /\ x.type = "VoteResp" /\ x.from = i /\ x.term = q.Term /\ x.to = m.from
                               /\ ~x.reject => r.Vote = m.from
        BY <2>1, <2>2 DEF VoteStep
    <2> HIDE DEF p
    <2>5. \A x \in r.msgs : x.type \notin LeaderMessage
        BY <2>4 DEF LeaderMessage
    <2>6. \A x \in r.msgs : Grant(x) => x.from = i /\ x.term = r.Term /\ x.to = r.Vote
        BY <2>4 DEF Grant
    <2> QED BY <1>1, <1>2, <1>3, <1>5, <2>2, <2>3, <2>4, <2>5, <2>6 DEF p
<1>9. CASE Counts(i, r)
    <2>1. PICK m \in net : /\ m.type = "VoteResp" /\ m.to = i /\ m.term = p.Term
                           /\ p.state = Candidate
                           /\ CountStep(p, r, m)
        BY <1>9 DEF Counts
    <2>2. m.from \in Node
        BY DEF TypeInv, MessageOK, Message
    <2>3. \A x \in (p.granted \cup {y \in {m.from} : ~m.reject}) \ {i} : GrantedBy(x, i, p.Term)
        BY <1>2, <2>1 DEF GrantedBy, Grant
    <2>4. r.state = Leader => \E Q : ElectedBy(i, r.Term, Q)
        <3> SUFFICES ASSUME r.state = Leader PROVE \E Q : ElectedBy(i, r.Term, Q)
            OBVIOUS
        <3>1. PICK Q \in SUBSET (p.granted \cup {y \in {m.from} : ~m.reject}) :
                    Cardinality(Q) = quorum(p)
            BY <1>5, <2>1 DEF CountStep
        <3>2. Q \in SUBSET Node
            BY <1>3, <2>2
        <3>3. r.Term = p.Term
            BY <2>1 DEF CountStep
        <3> QED BY <1>4, <2>3, <3>1, <3>2, <3>3 DEF ElectedBy
    <2>5. /\ r.Term = p.Term /\ r.Vote = p.Vote /\ p.Vote = i
          /\ r.state = Candidate => r.granted \subseteq p.granted \cup {y \in {m.from} : ~m.reject}
          /\ \A x \in r.msgs : PlainMessage(r, x)
          /\ r.id = i
        BY <1>1, <1>2, <1>5, <2>1 DEF CountStep
    <2>6. r.state = Candidate => \A x \in r.granted \ {i} : GrantedBy(x, i, r.Term)
        <3> HIDE DEF p
        <3> QED BY <2>3, <2>5
    <2>7. /\ \A x \in r.msgs : ~Grant(x)
          /\ \A x \in r.msgs :
                x.type \in LeaderMessage => x.from = i /\ x.term = r.Term /\ r.state = Leader
        BY <2>5 DEF PlainMessage, Grant
    <2> HIDE DEF p
    <2> QED BY <2>4, <2>5, <2>6, <2>7 DEF p
<1> QED BY <1>6, <1>7, <1>8, <1>9 DEF Elects

\* A Move of one of the four kinds keeps the invariant of the elections.
LEMMA MoveElectionInv ==
    ASSUME TypeInv, ElectionInv, NEW i \in Node, NEW r, Move(i, r), Elects(i, r)
    PROVE  ElectionInv'
<1> DEFINE p == raft[i]
<1>1. PICK s : /\ raft' = [raft EXCEPT ![i] = s]
               /\ s.Term = r.Term /\ s.Vote = r.Vote /\ s.state = r.state
               /\ s.granted = r.granted
    BY DEF Move
<1>2. raft'[i] = s /\ \A j \in Node : j # i => raft'[j] = raft[j]
    BY <1>1 DEF TypeInv
<1>3. RaftOK(r, Node) /\ net' = net \cup r.msgs
    BY DEF Move
<1>4. /\ \/ r.Term > p.Term
         \/ r.Term = p.Term /\ (r.Vote = p.Vote \/ p.Vote = None)
      /\ \A m \in r.msgs : Grant(m) => m.from = i /\ m.term = r.Term /\ m.to = r.Vote
      /\ \A m \in r.msgs :
           m.type \in LeaderMessage => m.from = i /\ m.term = r.Term /\ r.state = Leader
      /\ r.state \in {Candidate, Leader} => r.Vote = i
      /\ r.state = Candidate => \A x \in r.granted \ {i} : GrantedBy(x, i, r.Term)
      /\ r.state = Leader => \/ p.state = Leader /\ r.Term = p.Term
                             \/ \E Q : ElectedBy(i, r.Term, Q)
    BY <1>3, ElectsFacts
<1>5. p.Term \in Nat /\ r.Term \in Nat /\ i # None
    BY <1>3, NodeAssumption DEF TypeInv, MemberOK, RaftOK, RaftState
<1>6. \A m \in net : m.from \in Node /\ m.to \in Node /\ m.to # None /\ m.term \in Nat
    BY NodeAssumption DEF TypeInv, MessageOK, Message
<1>7. \A j \in Node : raft[j].Term \in Nat
    BY DEF TypeInv, MemberOK, RaftOK, RaftState
<1>8. \A x, j, t : GrantedBy(x, j, t) =>
                      \E m \in net' : Grant(m) /\ m.from = x /\ m.to = j /\ m.term = t
    BY <1>3 DEF GrantedBy
<1> HIDE DEF p
\* A vote that was remembered still is.
<1>9. ASSUME NEW t \in Nat, NEW c \in Node, p.Term > t \/ (p.Term = t /\ p.Vote = c)
      PROVE  s.Term > t \/ (s.Term = t /\ s.Vote = c)
    BY <1>1, <1>4, <1>5, <1>9, NodeAssumption
<1>10. ASSUME NEW m \in net', Grant(m)
       PROVE  \/ raft'[m.from].Term > m.term
              \/ raft'[m.from].Term = m.term /\ raft'[m.from].Vote = m.to
    <2>1. CASE m \in net
        <3>1. \/ raft[m.from].Term > m.term
              \/ raft[m.from].Term = m.term /\ raft[m.from].Vote = m.to
            BY <1>10, <2>1 DEF ElectionInv, GrantsKept
        <3>2. CASE m.from = i
            BY <1>2, <1>6, <1>9, <2>1, <3>1, <3>2 DEF p
        <3>3. CASE m.from # i
            BY <1>2, <1>6, <2>1, <3>1, <3>3
        <3> QED BY <3>2, <3>3
    <2>2. CASE m \in r.msgs
        BY <1>1, <1>2, <1>4, <1>10, <2>2
    <2> QED BY <1>3, <2>1, <2>2
<1>11. ASSUME NEW m \in net', NEW n \in net', Grant(m), Grant(n), n.from = m.from, n.term = m.term
       PROVE  n.to = m.to
    <2>1. CASE m \in net /\ n \in net
        BY <1>11, <2>1 DEF ElectionInv, GrantsKept
    <2>2. CASE m \in r.msgs \/ n \in r.msgs
        <3>1. m.from = i /\ m.term = s.Term
            BY <1>1, <1>4, <1>11, <2>2
        <3>2. s.Vote = m.to /\ s.Vote = n.to
            BY <1>1, <1>2, <1>5, <1>10, <1>11, <3>1
        <3> QED BY <3>2
    <2> QED BY <1>3, <2>1, <2>2
<1>12. GrantsKept'
    BY <1>10, <1>11 DEF GrantsKept, Grant
<1>13. VotedForSelf'
    BY <1>1, <1>2, <1>4 DEF ElectionInv, VotedForSelf
<1>14. CountedVotes'
    <2> SUFFICES ASSUME NEW j \in Node, raft'[j].state = Candidate,
                        NEW x \in raft'[j].granted \ {j}
                 PROVE  \E m \in net' : Grant(m) /\ m.from = x /\ m.to = j /\ m.term = raft'[j].Term
        BY DEF CountedVotes, GrantedBy, Grant
    <2>1. GrantedBy(x, j, raft'[j].Term)
        BY <1>1, <1>2, <1>4 DEF ElectionInv, CountedVotes
    <2> QED BY <1>8, <2>1
<1>15. ASSUME NEW j \in Node, NEW t \in Nat, Leads(j, t) \/ (j = i /\ t = r.Term /\ r.state = Leader)
       PROVE  /\ \E Q : ElectedBy(j, t, Q)
              /\ \A m \in net' : Grant(m) /\ m.from = j /\ m.term = t => m.to = j
              /\ raft'[j].Term > t \/ (raft'[j].Term = t /\ raft'[j].Vote = j)
    <2>1. CASE Leads(j, t)
        <3>1. /\ \E Q : ElectedBy(j, t, Q)
              /\ \A m \in net : Grant(m) /\ m.from = j /\ m.term = t => m.to = j
              /\ raft[j].Term > t \/ (raft[j].Term = t /\ raft[j].Vote = j)
            BY <2>1 DEF ElectionInv, LeadersElected
        <3>2. raft'[j].Term > t \/ (raft'[j].Term = t /\ raft'[j].Vote = j)
            BY <1>2, <1>9, <3>1 DEF p
        <3>3. ASSUME NEW m \in net', Grant(m), m.from = j, m.term = t
              PROVE  m.to = j
            <4>1. CASE m \in net
                BY <3>1, <3>3, <4>1
            <4>2. CASE m \in r.msgs
                BY <1>1, <1>2, <1>4, <1>5, <3>2, <3>3, <4>2
            <4> QED BY <1>3, <4>1, <4>2
        <3> QED BY <3>1, <3>2, <3>3
    <2>2. CASE ~Leads(j, t) /\ j = i /\ t = r.Term /\ r.state = Leader
        <3>1. \E Q : ElectedBy(j, t, Q)
            BY <1>4, <2>2 DEF Leads, p
        <3>2. raft'[j].Term = t /\ raft'[j].Vote = j
            BY <1>1, <1>2, <1>4, <2>2
        <3>3. \A m \in net' : Grant(m) /\ m.from = j /\ m.term = t => m.to = j
            BY <1>5, <1>10, <2>2, <3>2
        <3> QED BY <3>1, <3>2, <3>3
    <2> QED BY <1>15, <2>1, <2>2
<1>16. LeadersElected'
    <2> SUFFICES ASSUME NEW j \in Node, NEW t \in Nat, Leads(j, t)'
                 PROVE  /\ \E Q : ElectedBy(j, t, Q)'
                        /\ \A m \in net' : Grant(m) /\ m.from = j /\ m.term = t => m.to = j
                        /\ raft'[j].Term > t \/ (raft'[j].Term = t /\ raft'[j].Vote = j)
        BY DEF LeadersElected, Grant
    <2>1. \/ raft'[j].state = Leader /\ raft'[j].Term = t
          \/ \E m \in net' : m.type \in LeaderMessage /\ m.from = j /\ m.term = t
        BY DEF Leads, LeaderMessage
    <2>2. Leads(j, t) \/ (j = i /\ t = r.Term /\ r.state = Leader)
        BY <1>1, <1>2, <1>3, <1>4, <2>1 DEF Leads, LeaderMessage
    <2>3. /\ \E Q : ElectedBy(j, t, Q)
          /\ \A m \in net' : Grant(m) /\ m.from = j /\ m.term = t => m.to = j
          /\ raft'[j].Term > t \/ (raft'[j].Term = t /\ raft'[j].Vote = j)
        BY <1>15, <2>2
    <2>4. PICK Q : ElectedBy(j, t, Q)
        BY <2>3
    <2>5. \A x \in Q \ {j} : \E m \in net' : Grant(m) /\ m.from = x /\ m.to = j /\ m.term = t
        BY <1>8, <2>4 DEF ElectedBy
    <2>6. ElectedBy(j, t, Q)'
        BY <2>4, <2>5 DEF ElectedBy, GrantedBy, Grant
    <2> QED BY <2>3, <2>6
<1> QED BY <1>12, <1>13, <1>14, <1>16 DEF ElectionInv

\* Stuttering keeps it.
LEMMA StutterElectionInv == ElectionInv /\ UNCHANGED vars => ElectionInv'
BY DEF ElectionInv, GrantsKept, VotedForSelf, CountedVotes, LeadersElected, Leads, ElectedBy,
       GrantedBy, Grant, vars

\* Two quorums have a member in common, and it voted for one of the leaders only.
LEMMA ElectionInvSafe == TypeInv /\ ElectionInv => ElectionSafety
<1> SUFFICES ASSUME TypeInv, ElectionInv, NEW i \in Node, NEW j \in Node, NEW t \in LeaderTerms,
                    Leads(i, t), Leads(j, t), i # j
             PROVE  FALSE
    BY DEF ElectionSafety
<1>1. t \in Nat
    BY DEF LeaderTerms, TypeInv, MemberOK, RaftOK, RaftState, MessageOK, Message
<1>2. PICK P : ElectedBy(i, t, P)
    BY <1>1 DEF ElectionInv, LeadersElected
<1>3. PICK Q : ElectedBy(j, t, Q)
    BY <1>1 DEF ElectionInv, LeadersElected
<1>4. P \cap Q # {}
    <2>1. IsFiniteSet(Node) /\ Cardinality(Node) \in Nat
        BY NodeAssumption, FS_CardinalityType
    <2>2. P \in SUBSET Node /\ Q \in SUBSET Node
          /\ Cardinality(P) = Cardinality(Node) \div 2 + 1
          /\ Cardinality(Q) = Cardinality(Node) \div 2 + 1
        BY <1>2, <1>3 DEF ElectedBy
    <2>3. Cardinality(P) + Cardinality(Q) > Cardinality(Node)
        BY <2>1, <2>2
    <2> QED BY <2>1, <2>2, <2>3, FS_MajoritiesIntersect
<1>5. PICK p \in P \cap Q : TRUE
    BY <1>4
<1>6. p # i => GrantedBy(p, i, t)
    BY <1>2, <1>5 DEF ElectedBy
<1>7. p # j => GrantedBy(p, j, t)
    BY <1>3, <1>5 DEF ElectedBy
<1>8. CASE p = i
    BY <1>1, <1>7, <1>8 DEF GrantedBy, ElectionInv, LeadersElected
<1>9. CASE p = j
    BY <1>1, <1>6, <1>9 DEF GrantedBy, ElectionInv, LeadersElected
<1>10. CASE p # i /\ p # j
    BY <1>6, <1>7, <1>10 DEF GrantedBy, ElectionInv, GrantsKept
<1> QED BY <1>8, <1>9, <1>10

\* No term has two leaders, however many members there are, terms pass, messages
\* are lost, repeated or late, and members restart.
THEOREM ElectionIsSafe == Spec => []ElectionSafety
<1>1. Init /\ TypeInv => ElectionInv
    BY InitElectionInv
<1>2. TypeInv /\ ElectionInv /\ [Next]_vars => ElectionInv'
    BY NextMoves, MoveElectionInv, StutterElectionInv DEF Move
<1>3. TypeInv /\ ElectionInv => ElectionSafety
    BY ElectionInvSafe
<1> QED BY <1>1, <1>2, <1>3, TypeInvariance, PTL DEF Spec
=============================================================================
