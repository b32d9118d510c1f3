---------------------------- MODULE MCRaftCluster ----------------------------
EXTENDS RaftCluster, TLC

Symmetry == Permutations(Node)

\* States are told apart by what can still have an effect: a member drops every
\* message below its term, and never forgets its term.  (ElectionSafety looks at
\* old messages too, but a new leader of term t sends to every member, and a
\* second leader of t is not beyond t when it is elected.)
Fresh == {m \in net : m.term >= raft[m.to].Term}

View == <<raft, Fresh, restarts>>

\* Bound: no two members campaign.
OneCandidate == Cardinality({m.from : m \in {n \in net : n.type = "Vote"}}) <= 1

\* Bound: only a member that has compacted its log restarts.
CompactedRestarts ==
    \A i \in Node : restarts' # restarts /\ raft[i].first = 2 => UNCHANGED raft[i]

Restarted(i, t, vote, ents) ==
    newRaft(i, [Term |-> t, Vote |-> vote, Commit |-> 1],
            [index |-> 1, nodes |-> Node, removed |-> {}], <<BaseEntry>> \o ents)

\* a right after b has granted it the vote of the term after t.
Elected(a, b, t, ents) ==
    LET r == campaign(Restarted(a, t, None, ents)) IN
    recvVoteResp([r EXCEPT !.msgs = {}], msg([r EXCEPT !.id = b], "VoteResp", a))

EmptyEntry(t) == [BaseEntry EXCEPT !.term = t]

\* a has just been elected for term 2 by b; c has not heard of the election.
ElectedInit ==
    \E a, b, c \in Node :
        /\ Node = {a, b, c} /\ Cardinality(Node) = 3
        /\ raft = [i \in Node |-> CASE i = a -> advanced(Elected(a, b, 1, << >>))
                                    [] i = b -> Restarted(b, 2, a, << >>)
                                    [] i = c -> Restarted(c, 1, None, << >>)]
        /\ net = Elected(a, b, 1, << >>).msgs
        /\ restarts = 0

ElectedSpec == ElectedInit /\ [][Next]_vars

\* Three members with diverged logs, as after this history: a led term 2 and
\* failed before it sent its empty entry; c was elected for term 3 by b, and
\* failed before it sent its own; a has just been elected for term 4 by b.
DivergedInit ==
    \E a, b, c \in Node :
        /\ Node = {a, b, c} /\ Cardinality(Node) = 3
        /\ raft = [i \in Node |->
              CASE i = a -> advanced(Elected(a, b, 3, <<EmptyEntry(2)>>))
                [] i = b -> Restarted(b, 4, a, << >>)
                [] i = c -> Restarted(c, 3, c, <<EmptyEntry(3)>>)]
        /\ net = Elected(a, b, 3, <<EmptyEntry(2)>>).msgs
        /\ restarts = 0

DivergedSpec == DivergedInit /\ [][Next]_vars
=============================================================================
