----------------------------- MODULE RaftCluster -----------------------------
(***************************************************************************)
(* The raft protocol of raft/raft.go between members with a fixed          *)
(* configuration that process a Ready at once: what a step changes is      *)
(* saved, applied and sent in the same step, as raft's own tests drive it  *)
(* (raft_test.go: network.send).  The interleavings inside of a member are *)
(* the subject of module RaftNode; without them, more terms, messages and  *)
(* log divergence are in reach.  The network loses, delays, duplicates and *)
(* reorders messages, and a member may restart from what it has saved.     *)
(***************************************************************************)
EXTENDS Raft, SequencesExt

CONSTANTS
    CheckQuorum,     \* Config.CheckQuorum
    Reports,         \* bound: does the transport report failures and snapshots?
    Heartbeats,      \* bound: do leaders send heartbeats?
    MaxTerm,         \* bound: no election is started at this term
    MaxLog,          \* bound: no proposal is appended to a log of this length
    MaxSnap,         \* bound: no snapshot is taken beyond this index
    MaxRestarts      \* bound on the restarts of a behaviour

ASSUME BoundsAssumption == /\ {MaxTerm, MaxLog, MaxSnap, MaxRestarts} \subseteq Nat
                           /\ {CheckQuorum, Reports, Heartbeats} \subseteq BOOLEAN

VARIABLES
    raft,      \* raft[i]: the state of member i
    net,       \* messages that were sent
    restarts   \* number of restarts

vars == <<raft, net, restarts>>

BaseEntry == [term |-> 1, kind |-> "Noop", arg |-> None]

\* All members have been restarted from the same snapshot (see RaftNode).
Init ==
    /\ raft = [i \in Node |->
           newRaft(i, [Term |-> 1, Vote |-> None, Commit |-> 1],
                   [index |-> 1, nodes |-> Node, removed |-> {}], <<BaseEntry>>)]
    /\ net = {}
    /\ restarts = 0

\* The Ready of a step is processed and Advance is called.
advanced(r) == [r EXCEPT !.msgs = {}, !.offset = lastIndex(r) + 1,
                         !.applied = r.committed, !.unstableSnap = FALSE]

StepTo(i, r) == /\ raft' = [raft EXCEPT ![i] = advanced(r)]
                /\ net' = net \cup r.msgs
                /\ UNCHANGED restarts

Recv(m, type, r) == /\ m \in net
                    /\ m.type = type
                    /\ ~raft[m.to].panicked
                    /\ m.term >= raft[m.to].Term
                    /\ StepTo(m.to, r)

RecvVote(m) == Recv(m, "Vote", recvVote(raft[m.to], m))

RecvVoteResp(m) == Recv(m, "VoteResp", recvVoteResp(raft[m.to], m))

RecvApp(m) == Recv(m, "App", recvApp(raft[m.to], m))

RecvAppResp(m) == Recv(m, "AppResp", recvAppResp(raft[m.to], m))

RecvHeartbeat(m) == Recv(m, "Heartbeat", recvHeartbeat(raft[m.to], m))

RecvHeartbeatResp(m) == Recv(m, "HeartbeatResp", recvHeartbeatResp(raft[m.to], m))

RecvSnap(m) == Recv(m, "Snap", recvSnap(raft[m.to], m))

Timeout(i) == /\ raft[i].state # Leader
              /\ ~raft[i].panicked
              /\ raft[i].Term < MaxTerm
              /\ StepTo(i, campaign(raft[i]))

IsLeader(i) == raft[i].state = Leader /\ ~raft[i].panicked

Beat(i) == /\ Heartbeats
           /\ IsLeader(i)
           /\ StepTo(i, bcastHeartbeat(raft[i]))

CheckQuorumTick(i) == /\ CheckQuorum
                      /\ IsLeader(i)
                      /\ StepTo(i, handleCheckQuorum(raft[i]))

\* A client proposes at the leader; forwarding is part of RaftNode.
Propose(i, v) == /\ IsLeader(i)
                 /\ lastIndex(raft[i]) < MaxLog
                 /\ StepTo(i, recvProp(raft[i], [term |-> 0, kind |-> "Normal", arg |-> v]))

ReportUnreachable(i, p) == /\ Reports
                           /\ IsLeader(i)
                           /\ StepTo(i, handleUnreachable(raft[i], p))

ReportSnapshot(i, p, failed) == /\ Reports
                                /\ IsLeader(i)
                                /\ StepTo(i, handleSnapStatus(raft[i], p, failed))

\* The server snapshots what it has applied and compacts the whole of it.
Compact(i) ==
    LET n == raft[i].applied IN
    /\ ~raft[i].panicked
    /\ n > raft[i].snapshot.index
    /\ n <= MaxSnap
    /\ raft' = [raft EXCEPT ![i].snapshot.index = n, ![i].first = n + 1]
    /\ UNCHANGED <<net, restarts>>

Restart(i) ==
    LET r == raft[i] IN
    /\ restarts < MaxRestarts
    /\ restarts' = restarts + 1
    /\ raft' = [raft EXCEPT ![i] =
                  newRaft(i, [Term |-> r.Term, Vote |-> r.Vote, Commit |-> r.committed],
                          r.snapshot, r.ents)]
    /\ UNCHANGED net

Receive(m) == \/ RecvVote(m) \/ RecvVoteResp(m) \/ RecvApp(m) \/ RecvAppResp(m)
              \/ RecvHeartbeat(m) \/ RecvHeartbeatResp(m) \/ RecvSnap(m)

Local(i) == \/ Timeout(i) \/ Beat(i) \/ CheckQuorumTick(i) \/ Compact(i) \/ Restart(i)
            \/ \E v \in Value : Propose(i, v)
            \/ \E p \in Node \ {i} : ReportUnreachable(i, p)
            \/ \E p \in Node \ {i}, failed \in BOOLEAN : ReportSnapshot(i, p, failed)

Next == (\E m \in net : Receive(m)) \/ (\E i \in Node : Local(i))

Spec == Init /\ [][Next]_vars

-----------------------------------------------------------------------------
(* Properties *)

\* Every variable has its type.
TypeOK == /\ raft \in [Node -> RaftState]
          /\ net \subseteq Message
          /\ restarts \in Nat

\* Who is, or has sent a message as, the leader of which term.
Leads(i, t) ==
    \/ raft[i].state = Leader /\ raft[i].Term = t
    \/ \E m \in net : m.type \in {"App", "Heartbeat", "Snap"} /\ m.from = i /\ m.term = t

LeaderTerms == {raft[i].Term : i \in Node} \cup {m.term : m \in net}

\* No term has two leaders, not even at different times: a member votes once in
\* a term and remembers its vote, and a candidate counts every vote once.
ElectionSafety ==
    \A i, j \in Node : \A t \in LeaderTerms : Leads(i, t) /\ Leads(j, t) => i = j

\* Two logs that agree on the term of an entry agree up to it: the check of the
\* previous entry in handleAppendEntries, and the truncation of conflicts.
LogMatching ==
    \A i, j \in Node :
        \A k \in 1..min(lastIndex(raft[i]), lastIndex(raft[j])) :
            raft[i].ents[k].term = raft[j].ents[k].term =>
                AgreeUpTo(raft[i].ents, raft[j].ents, k)

\* A leader holds everything that any member knows to be committed in an earlier
\* or in its own term: isUpToDate and the term check of maybeCommit.
LeaderCompleteness ==
    \A i, j \in Node :
        (raft[i].state = Leader /\ raft[j].Term <= raft[i].Term) =>
            IsPrefix(SubSeq(raft[j].ents, 1, raft[j].committed), raft[i].ents)

\* Two members never commit different entries at the same index.
CommittedAgree ==
    \A i, j \in Node :
        AgreeUpTo(raft[i].ents, raft[j].ents, min(raft[i].committed, raft[j].committed))

\* The Match of a follower is matched by its log while it is in the leader's
\* term, whatever responses were delayed, repeated or answered by a snapshot.
MatchIsTrue ==
    \A i \in Node : raft[i].state = Leader =>
        \A p \in Node \ {i} :
            raft[p].Term = raft[i].Term =>
                AgreeUpTo(raft[p].ents, raft[i].ents, raft[i].prs[p].Match)

\* What a leader believes of a follower stays consistent whatever answers are
\* late: a replicating follower is sent what follows its Match, its flights are
\* in order, between Match and Next, and no more than the window holds; a
\* follower in another state has no flights.
ProgressInOrder ==
    \A i \in Node : raft[i].state = Leader =>
        \A p \in Node \ {i} :
            LET pr == raft[i].prs[p] IN
            /\ pr.Next <= lastIndex(raft[i]) + 1
            /\ pr.State = "Replicate" => pr.Match < pr.Next
            /\ pr.State # "Replicate" => pr.ins = << >>
            /\ Len(pr.ins) <= MaxInflight
            /\ \A k \in DOMAIN pr.ins : /\ pr.Match < pr.ins[k] /\ pr.ins[k] < pr.Next
                                        /\ \A l \in 1..(k - 1) : pr.ins[l] < pr.ins[k]

\* No step runs into a panic of raft.go or log.go: a commit index beyond the
\* log, a conflict with a committed entry, an empty snapshot.
NoPanic == \A i \in Node : ~raft[i].panicked
=============================================================================
