----------------------------- MODULE MCRaftNode -----------------------------
EXTENDS RaftNode, TLC

Symmetry == Permutations(Node)

\* One member that is told apart from the others.
Lazy == CHOOSE i \in InitialMembers : TRUE

NoConfChanges == {}

\* n joins the cluster, or is removed from it.
AddOne(n) == {[term |-> 0, kind |-> "AddNode", arg |-> n]}
RemoveOne(n) == {[term |-> 0, kind |-> "RemoveNode", arg |-> n]}

AddOutsiders == UNION {AddOne(n) : n \in Node \ InitialMembers}
RemoveMember == RemoveOne(Lazy)
Reconfigurations == AddOutsiders \cup RemoveMember

\* States are told apart by what can still have an effect: a member drops every
\* message below the term on its disk, now and after any crash.  (ElectionSafety
\* looks at old messages too, but a leader of term t that has sent anything has
\* sent to every member, and a second leader of t is not beyond t yet.)
Fresh == {m \in net : m.term = 0 \/ m.term >= disk[m.to].Term}

View == <<raft, soft, rd, disk, applyq, srv, Fresh, proposed, crashes, hist>>

Busy(i) == /\ ~raft[i].panicked
           /\ rd[i].stage # "idle" \/ applyq[i] # << >> \/ containsUpdates(i)

Works(i) == rd'[i] # rd[i] \/ applyq'[i] # applyq[i]

\* Bound on the interleavings: a member finishes its Ready before anything else
\* happens (but a crash may interrupt it).
Eager == (\E i \in Node : Busy(i)) => \E i \in Node : Busy(i) /\ Works(i)

\* Bound: only one member challenges the leader.
Challenger == CHOOSE i \in InitialMembers \ {Lazy} : TRUE

OneChallenger == \A i \in Node \ {Challenger} : raft[i].state # Candidate

\* Eager, but the disk of a deposed leader may be slow: while it saves entries of
\* a term that is over, anything may happen.
Overtaken(i) == /\ rd[i].stage = "save" /\ rd[i].ents # << >>
                /\ Last(rd[i].ents).term < raft[Challenger].Term
                /\ \A k \in DOMAIN applyq[i] : applyq[i][k].ents = << >>

EagerButOvertaken ==
    (\E i \in Node : Busy(i) /\ ~(i = Lazy /\ Overtaken(i))) =>
        \E i \in Node : Busy(i) /\ Works(i)

\* Only a member that is neither the leader at the start nor the challenger crashes.
ThirdCrashes == \A i \in {Lazy, Challenger} : crashes' # crashes => UNCHANGED raft[i]

\* Bound: no heartbeats are sent.
NoHeartbeats == \A i \in Node : \A m \in raft[i].msgs : m.type # "Heartbeat"

\* Bound: heartbeats are sent, or values are proposed.
FewHeartbeats == \/ \A m \in net : m.type # "Heartbeat"
                 \/ \A e \in proposed : e.kind # "Normal"

\* Lazy has just counted the vote of b that makes it the leader of term 2, the
\* Ready that has its first messages is not taken; c has not heard of the election.
ElectedInit ==
    \E b, c \in Node :
        LET a == Lazy
            snap == [index |-> 1, nodes |-> Node, removed |-> {}]
            base == InitDisk(1, snap, <<BaseEntry>>)
            r == campaign(newRaft(a, base, snap, <<BaseEntry>>))
            grant == msg([r EXCEPT !.id = b], "VoteResp", a)
        IN
        /\ Node = {a, b, c} /\ Cardinality(Node) = 3 /\ InitialMembers = Node
        /\ disk = [i \in Node |-> IF i = c THEN base
                                  ELSE [base EXCEPT !.Term = 2, !.Vote = a]]
        /\ raft = [i \in Node |->
              IF i = a THEN recvVoteResp([r EXCEPT !.msgs = {}], grant)
              ELSE newRaft(i, disk[i], snap, <<BaseEntry>>)]
        /\ srv = [i \in Node |-> recovered(snap, <<BaseEntry>>)]
        /\ hist = <<BaseEntry>>
        /\ InitRest

\* Lazy leads term 2 and has not taken the Ready with its empty entry; b has
\* voted for c in term 3, and c has just counted the vote.
OvertakenInit ==
    \E b, c \in Node :
        LET a == Lazy
            snap == [index |-> 1, nodes |-> Node, removed |-> {}]
            base == InitDisk(1, snap, <<BaseEntry>>)
            ElectedBy(i, v, d) ==
                LET r == campaign(newRaft(i, d, snap, <<BaseEntry>>)) IN
                recvVoteResp([r EXCEPT !.msgs = {}], msg([r EXCEPT !.id = v], "VoteResp", i))
        IN
        /\ Node = {a, b, c} /\ Cardinality(Node) = 3 /\ InitialMembers = Node
        /\ disk = [i \in Node |-> IF i = a THEN [base EXCEPT !.Term = 2, !.Vote = a]
                                  ELSE [base EXCEPT !.Term = 3, !.Vote = c]]
        /\ raft = [i \in Node |->
              CASE i = a -> ElectedBy(a, b, base)
                [] i = b -> newRaft(b, disk[b], snap, <<BaseEntry>>)
                [] i = c -> ElectedBy(c, b, [base EXCEPT !.Term = 2])]
        /\ srv = [i \in Node |-> recovered(snap, <<BaseEntry>>)]
        /\ hist = <<BaseEntry>>
        /\ InitRest

FailoverSpec == (ElectedInit \/ OvertakenInit) /\ [][Next]_vars

=============================================================================
