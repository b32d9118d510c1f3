------------------------------ MODULE RaftNode ------------------------------
(***************************************************************************)
(* A cluster of etcd members, each the pipeline of goroutines of           *)
(* raft/node.go (node.run), etcdserver/raft.go (raftNode.start) and        *)
(* etcdserver/server.go (run, applyAll):                                   *)
(*                                                                         *)
(*   node.run   steps the raft state machine, hands out one Ready at a     *)
(*              time and waits for Advance before the next one;            *)
(*   raftNode   queues what the Ready commits for the apply loop, and then *)
(*              sends-and-saves (a leader) or saves-and-sends (all others);*)
(*   server     applies the queue in order, concurrently with the save.    *)
(*                                                                         *)
(* The network loses, delays, duplicates and reorders messages.  A member  *)
(* may crash at any point and restarts from its WAL and snapshot.          *)
(***************************************************************************)
EXTENDS Raft, SequencesExt

CONSTANTS
    InitialMembers,  \* members of the cluster at the start
    ConfChanges,     \* configuration changes that are proposed: entries, term 0
    CheckQuorum,     \* Config.CheckQuorum (set when V3demo is)
    SnapCount,       \* applied entries between two snapshots
    CatchUpEntries,  \* numberOfCatchUpEntries kept after a compaction
    Reports,         \* bound: does the transport report failures and snapshots?
    MaxTerm,         \* bound: no election is started at this term
    MaxCrashes       \* bound on the crashes of a behaviour

ASSUME MembersAssumption == InitialMembers \subseteq Node /\ InitialMembers # {}
ASSUME ConfAssumption == ConfChanges \subseteq
           [term : {0}, kind : {"AddNode", "RemoveNode"}, arg : Node]
ASSUME BoundsAssumption == /\ SnapCount \in Nat /\ CatchUpEntries \in Nat
                           /\ MaxTerm \in Nat /\ MaxCrashes \in Nat
                           /\ CheckQuorum \in BOOLEAN /\ Reports \in BOOLEAN

VARIABLES
    raft,      \* raft[i]: the volatile state of member i (module Raft)
    soft,      \* soft[i]: prevSoftSt of node.run
    rd,        \* rd[i]: the Ready that raftNode is processing
    disk,      \* disk[i]: WAL and newest snapshot of member i
    applyq,    \* applyq[i]: queue of the apply loop
    srv,       \* srv[i]: the applied state of the server
    net,       \* messages that were sent
    proposed,  \* entries that clients have proposed
    crashes,   \* number of crashes
    hist       \* history: the longest applied sequence any member has held

vars == <<raft, soft, rd, disk, applyq, srv, net, proposed, crashes, hist>>

-----------------------------------------------------------------------------
(* States *)

HardState == [Term : Nat, Vote : Node \cup {None}, Commit : Nat]

\* stage is what raftNode does next with the Ready: save its snapshot ("snap"),
\* save its entries and state ("save"), or nothing ("idle", no Ready is held).
Ready == [stage : {"idle", "snap", "save"}, hs : HardState, after : Nat,
          ents : Seq(Entry), snap : Snapshot, prefix : Seq(Entry),
          msgs : SUBSET Message]

NoReady == [stage |-> "idle", hs |-> [Term |-> 0, Vote |-> None, Commit |-> 0],
            after |-> 0, ents |-> << >>, snap |-> NoSnapshot, prefix |-> << >>,
            msgs |-> {}]

\* ents is the log that ReadAll would return, below snap.index the part that
\* the snapshot stands for.  synced is the Commit of the last fsync.
Disk == [Term : Nat, Vote : Node \cup {None}, Commit : Nat, synced : Nat,
         snap : Snapshot, ents : Seq(Entry)]

\* An apply: entries from index at on; saved says that raftDone was signalled.
Apply == [snap : Snapshot, prefix : Seq(Entry), at : Nat, ents : Seq(Entry),
          saved : BOOLEAN]

Server == [applied : Seq(Entry), members : SUBSET Node, removed : SUBSET Node,
           snapi : Nat]

\* The server as it is recovered from a snapshot.
recovered(snap, prefix) == [applied |-> prefix, members |-> snap.nodes,
                            removed |-> snap.removed, snapi |-> snap.index]

\* The entry that a bootstrapped and then compacted log is folded into.
BaseEntry == [term |-> 1, kind |-> "Noop", arg |-> None]

-----------------------------------------------------------------------------
(* Initial states *)

InitDisk(t, snap, ents) ==
    [Term |-> t, Vote |-> None, Commit |-> Len(ents), synced |-> Len(ents),
     snap |-> snap, ents |-> ents]

InitRest == /\ soft = [i \in Node |-> [lead |-> None, state |-> Follower]]
            /\ rd = [i \in Node |-> NoReady]
            /\ applyq = [i \in Node |-> << >>]
            /\ net = {}
            /\ proposed = {}
            /\ crashes = 0

\* Every initial member has been restarted from a snapshot that covers the
\* bootstrap of the cluster (restartNode); the other members have just joined
\* with an empty log (startNode without peers).
Init ==
    LET snap == [index |-> 1, nodes |-> InitialMembers, removed |-> {}] IN
    /\ disk = [i \in Node |-> IF i \in InitialMembers THEN InitDisk(1, snap, <<BaseEntry>>)
                                                     ELSE InitDisk(1, NoSnapshot, << >>)]
    /\ raft = [i \in Node |-> newRaft(i, disk[i], disk[i].snap, disk[i].ents)]
    /\ srv = [i \in Node |-> recovered(disk[i].snap, disk[i].ents)]
    /\ hist = <<BaseEntry>>
    /\ InitRest

-----------------------------------------------------------------------------
(* Messages: node.run steps what EtcdServer.Process lets through *)

IsResponseMsg(m) == m.type \in {"AppResp", "VoteResp", "HeartbeatResp"}

\* A message with a lower term is ignored; a response of a member that has no
\* progress, and any message of a removed member, are dropped.
Deliverable(m) ==
    LET r == raft[m.to] IN
    /\ m \in net
    /\ ~r.panicked
    /\ m.from \notin srv[m.to].removed
    /\ m.term >= r.Term
    /\ IsResponseMsg(m) => m.from \in r.nodes

StepTo(i, r) == /\ raft' = [raft EXCEPT ![i] = r]
                /\ UNCHANGED <<soft, rd, disk, applyq, srv, crashes, hist>>

\* node.run takes a message of the given type and steps it.
Recv(m, type, r) == /\ m.type = type
                    /\ Deliverable(m)
                    /\ StepTo(m.to, r)
                    /\ UNCHANGED <<net, proposed>>

RecvVote(m) == Recv(m, "Vote", recvVote(raft[m.to], m))

RecvVoteResp(m) == Recv(m, "VoteResp", recvVoteResp(raft[m.to], m))

RecvApp(m) == Recv(m, "App", recvApp(raft[m.to], m))

RecvAppResp(m) == Recv(m, "AppResp", recvAppResp(raft[m.to], m))

RecvHeartbeat(m) == Recv(m, "Heartbeat", recvHeartbeat(raft[m.to], m))

RecvHeartbeatResp(m) == Recv(m, "HeartbeatResp", recvHeartbeatResp(raft[m.to], m))

RecvSnap(m) == Recv(m, "Snap", recvSnap(raft[m.to], m))

-----------------------------------------------------------------------------
(* Proposals: propc is nil, and a proposal waits, while no leader is known *)

\* Every entry is proposed once, at any member.
Propose(i, e) == /\ e \notin proposed
                 /\ ~raft[i].panicked
                 /\ raft[i].lead # None
                 /\ StepTo(i, recvProp(raft[i], e))
                 /\ proposed' = proposed \cup {e}
                 /\ UNCHANGED net

\* A forwarded proposal is local to the receiver: it carries no term.  The
\* transport does not send it twice.
RecvProp(m) == /\ m.type = "Prop" /\ m \in net
               /\ ~raft[m.to].panicked
               /\ m.from \notin srv[m.to].removed
               /\ raft[m.to].lead # None
               /\ StepTo(m.to, recvProp(raft[m.to], m.entries[1]))
               /\ net' = net \ {m}
               /\ UNCHANGED proposed

-----------------------------------------------------------------------------
(* Timers and reports of the transport *)

\* tickElection; a member that is not in its own configuration does not campaign.
Timeout(i) == /\ raft[i].state # Leader
              /\ ~raft[i].panicked
              /\ i \in raft[i].nodes
              /\ raft[i].Term < MaxTerm
              /\ StepTo(i, campaign(raft[i]))
              /\ UNCHANGED <<net, proposed>>

\* tickHeartbeat
Beat(i) == /\ raft[i].state = Leader
           /\ ~raft[i].panicked
           /\ StepTo(i, bcastHeartbeat(raft[i]))
           /\ UNCHANGED <<net, proposed>>

CheckQuorumTick(i) == /\ CheckQuorum
                      /\ raft[i].state = Leader
                      /\ ~raft[i].panicked
                      /\ StepTo(i, handleCheckQuorum(raft[i]))
                      /\ UNCHANGED <<net, proposed>>

ReportUnreachable(i, p) == /\ Reports
                           /\ raft[i].state = Leader
                           /\ ~raft[i].panicked
                           /\ p \in raft[i].nodes \ {i}
                           /\ StepTo(i, handleUnreachable(raft[i], p))
                           /\ UNCHANGED <<net, proposed>>

ReportSnapshot(i, p, failed) == /\ Reports
                                /\ raft[i].state = Leader
                                /\ ~raft[i].panicked
                                /\ p \in raft[i].nodes \ {i}
                                /\ StepTo(i, handleSnapStatus(raft[i], p, failed))
                                /\ UNCHANGED <<net, proposed>>

-----------------------------------------------------------------------------
(* The Ready loop *)

hardState(r) == [Term |-> r.Term, Vote |-> r.Vote, Commit |-> r.committed]

softState(r) == [lead |-> r.lead, state |-> r.state]

\* nextEnts starts here.
NextApply(r) == max(r.applied + 1, r.first)

\* newReady
ReadyOf(r) ==
    [stage |-> IF r.unstableSnap THEN "snap" ELSE "save",
     hs |-> hardState(r),
     after |-> r.offset - 1,
     ents |-> SubSeq(r.ents, r.offset, lastIndex(r)),
     snap |-> IF r.unstableSnap THEN r.snapshot ELSE NoSnapshot,
     prefix |-> IF r.unstableSnap THEN SubSeq(r.ents, 1, r.snapshot.index) ELSE << >>,
     msgs |-> r.msgs]

containsUpdates(i) ==
    LET r == raft[i] IN
    \/ softState(r) # soft[i]
    \/ \E f \in {"Term", "Vote", "Commit"} : hardState(r)[f] # disk[i][f]
    \/ r.unstableSnap
    \/ r.offset <= lastIndex(r)
    \/ NextApply(r) <= r.committed
    \/ r.msgs # {}

\* What raftNode hands to the apply loop, unless it is empty.
ApplyOf(r) == [snap |-> ReadyOf(r).snap, prefix |-> ReadyOf(r).prefix,
               at |-> NextApply(r), ents |-> SubSeq(r.ents, NextApply(r), r.committed),
               saved |-> FALSE]

\* EtcdServer.send drops what is addressed to a removed member.
sendable(i, msgs) == {m \in msgs : m.to \notin srv[i].removed}

\* Mutant: every member sends before it saves.
TakeReadySendingAll(i) ==
    LET r == raft[i]
        ap == ApplyOf(r)
    IN  /\ ~r.panicked
        /\ rd[i].stage = "idle"
        /\ containsUpdates(i)
        /\ rd' = [rd EXCEPT ![i] = [ReadyOf(r) EXCEPT !.msgs = {}]]
        /\ net' = net \cup sendable(i, r.msgs)
        /\ raft' = [raft EXCEPT ![i].msgs = {}]
        /\ soft' = [soft EXCEPT ![i] = softState(r)]
        /\ applyq' = IF ap.ents = << >> /\ ~r.unstableSnap THEN applyq
                     ELSE [applyq EXCEPT ![i] = Append(@, ap)]
        /\ UNCHANGED <<disk, srv, proposed, crashes, hist>>

\* raftNode receives a Ready and passes it to the apply loop before it saves
\* anything.  islead follows the soft state: a leader sends before it saves.
TakeReady(i) ==
    LET r == raft[i]
        islead == r.state = Leader
        ap == ApplyOf(r)
    IN  /\ ~r.panicked
        /\ rd[i].stage = "idle"
        /\ containsUpdates(i)
        /\ rd' = [rd EXCEPT ![i] =
                     IF islead THEN [ReadyOf(r) EXCEPT !.msgs = {}] ELSE ReadyOf(r)]
        /\ net' = IF islead THEN net \cup sendable(i, r.msgs) ELSE net
        /\ raft' = [raft EXCEPT ![i].msgs = {}]
        /\ soft' = [soft EXCEPT ![i] = softState(r)]
        /\ applyq' = IF ap.ents = << >> /\ ~r.unstableSnap THEN applyq
                     ELSE [applyq EXCEPT ![i] = Append(@, ap)]
        /\ UNCHANGED <<disk, srv, proposed, crashes, hist>>

\* SaveSnap and raftStorage.ApplySnapshot.  Entries above the snapshot that are
\* in the WAL already stay there.  SaveSnapshot of the WAL always syncs.
SaveSnap(i) ==
    /\ ~raft[i].panicked
    /\ rd[i].stage = "snap"
    /\ rd' = [rd EXCEPT ![i].stage = "save"]
    /\ disk' = [disk EXCEPT ![i].snap = rd[i].snap,
                            ![i].ents = rd[i].prefix \o
                                        SubSeq(@, rd[i].snap.index + 1, Len(@)),
                            ![i].synced = disk[i].Commit]
    /\ UNCHANGED <<raft, soft, applyq, srv, net, proposed, crashes, hist>>

\* Entry records replace everything from their first index on.
walAppend(log, after, ents) == IF ents = << >> THEN log ELSE SubSeq(log, 1, after) \o ents

mustSync(d, ready) == \/ ready.ents # << >>
                      \/ ready.hs.Vote # d.Vote
                      \/ ready.hs.Term # d.Term

saved(d, ready) ==
    [d EXCEPT !.Term = ready.hs.Term, !.Vote = ready.hs.Vote, !.Commit = ready.hs.Commit,
              !.ents = walAppend(@, ready.after, ready.ents),
              !.synced = IF mustSync(d, ready) THEN ready.hs.Commit ELSE @]

\* Mutant: the term of the last saved entry is not compared.
advanceUnchecked(r, ready) ==
    [r EXCEPT !.applied = max(@, ready.hs.Commit),
              !.offset = max(@, ready.after + Len(ready.ents) + 1),
              !.unstableSnap = @ /\ ready.snap.index # r.snapshot.index]

\* raftLog.appliedTo, stableTo and stableSnapTo: the entries that were saved are
\* stable unless the log has replaced the last one in the meantime.
advance(r, ready) ==
    LET last == ready.after + Len(ready.ents)
        stable == /\ ready.ents # << >>
                  /\ last >= r.offset
                  /\ matchTerm(r, last, ready.ents[Len(ready.ents)].term)
    IN  [r EXCEPT !.applied = max(@, ready.hs.Commit),
                  !.offset = IF stable THEN last + 1 ELSE @,
                  !.unstableSnap = @ /\ ready.snap.index # r.snapshot.index,
                  !.panicked = @ \/ ready.hs.Commit > r.committed
                                 \/ (ready.hs.Commit # 0 /\ ready.hs.Commit < r.applied)]

\* storage.Save and raftStorage.Append, then (unless it is the leader) the
\* messages, raftDone, and Advance.
Save(i) ==
    /\ ~raft[i].panicked
    /\ rd[i].stage = "save"
    /\ disk' = [disk EXCEPT ![i] = saved(@, rd[i])]
    /\ net' = net \cup sendable(i, rd[i].msgs)
    /\ raft' = [raft EXCEPT ![i] = advance(@, rd[i])]
    /\ applyq' = [applyq EXCEPT ![i] = [k \in DOMAIN @ |-> [@[k] EXCEPT !.saved = TRUE]]]
    /\ rd' = [rd EXCEPT ![i] = NoReady]
    /\ UNCHANGED <<soft, srv, proposed, crashes, hist>>

-----------------------------------------------------------------------------
(* The apply loop *)

Longer(s, t) == IF Len(t) > Len(s) THEN t ELSE s

\* applySnapshot: the store and the membership are those of the snapshot.
ApplySnapshot(i) ==
    /\ ~raft[i].panicked
    /\ applyq[i] # << >>
    /\ LET ap == Head(applyq[i]) IN
        /\ ap.snap.index # 0
        /\ IF ap.snap.index <= Len(srv[i].applied)
           THEN /\ raft' = [raft EXCEPT ![i] = panic(@)]
                /\ UNCHANGED <<srv, applyq, hist>>
           ELSE /\ srv' = [srv EXCEPT ![i] = recovered(ap.snap, ap.prefix)]
                /\ applyq' = [applyq EXCEPT ![i][1].snap = NoSnapshot,
                                            ![i][1].prefix = << >>]
                /\ hist' = Longer(hist, ap.prefix)
                /\ UNCHANGED raft
    /\ UNCHANGED <<soft, rd, disk, net, proposed, crashes>>

\* ValidateConfigurationChange
validConf(s, e) == /\ e.arg \notin s.removed
                   /\ (e.kind = "AddNode") <=> (e.arg \notin s.members)

\* Server.apply of one entry: the store and, for a valid membership change, the
\* members; ApplyConfChange makes the change in the raft state machine.
applied(s, e) ==
    LET conf == IsConfChange(e) /\ validConf(s, e) IN
    [s EXCEPT !.applied = Append(@, e),
              !.members = CASE conf /\ e.kind = "AddNode" -> @ \cup {e.arg}
                            [] conf /\ e.kind = "RemoveNode" -> @ \ {e.arg}
                            [] OTHER -> @,
              !.removed = IF conf /\ e.kind = "RemoveNode" THEN @ \cup {e.arg} ELSE @]

applyConfChange(r, s, e) ==
    CASE ~IsConfChange(e) -> r
      [] IsConfChange(e) /\ ~validConf(s, e) -> [r EXCEPT !.pendingConf = FALSE]
      [] OTHER -> IF e.kind = "AddNode" THEN addNode(r, e.arg) ELSE removeNode(r, e.arg)

\* applyEntries: entries that were applied already are skipped, a gap panics.
ApplyEntry(i) ==
    /\ ~raft[i].panicked
    /\ applyq[i] # << >>
    /\ LET ap == Head(applyq[i])
           e == Head(ap.ents)
           n == Len(srv[i].applied)
       IN  /\ ap.snap.index = 0
           /\ ap.ents # << >>
           /\ applyq' = [applyq EXCEPT ![i][1].at = @ + 1, ![i][1].ents = Tail(@)]
           /\ IF ap.at = n + 1
              THEN /\ srv' = [srv EXCEPT ![i] = applied(@, e)]
                   /\ raft' = [raft EXCEPT ![i] = applyConfChange(@, srv[i], e)]
                   /\ hist' = Longer(hist, Append(srv[i].applied, e))
              ELSE /\ raft' = IF ap.at <= n THEN raft ELSE [raft EXCEPT ![i] = panic(@)]
                   /\ UNCHANGED <<srv, hist>>
    /\ UNCHANGED <<soft, rd, disk, net, proposed, crashes>>

\* The snapshot at the applied index: CreateSnapshot, SaveSnap and Compact of
\* EtcdServer.snapshot.  The storage refuses one that is out of date, and panics
\* when it does not hold the entry yet.
CreateSnapshot(i) ==
    LET n == Len(srv[i].applied)
        snap == [index |-> n, nodes |-> srv[i].members, removed |-> srv[i].removed]
        compacti == IF n > CatchUpEntries THEN n - CatchUpEntries ELSE 1
    IN  /\ srv' = [srv EXCEPT ![i].snapi = n]
        /\ CASE n <= disk[i].snap.index -> UNCHANGED <<disk, raft>>
             [] n > disk[i].snap.index /\ n >= raft[i].offset ->
                    /\ raft' = [raft EXCEPT ![i] = panic(@)]
                    /\ UNCHANGED disk
             [] OTHER ->
                    /\ disk' = [disk EXCEPT
                          ![i].snap = snap,
                          ![i].ents = srv[i].applied \o SubSeq(@, n + 1, Len(@)),
                          ![i].synced = disk[i].Commit]
                    /\ raft' = IF raft[i].unstableSnap THEN raft
                               ELSE [raft EXCEPT ![i].snapshot = snap,
                                                 ![i].first = max(@, compacti + 1)]

\* triggerSnapshot
TriggerSnapshot(i) ==
    IF Len(srv[i].applied) - srv[i].snapi <= SnapCount
    THEN UNCHANGED <<srv, disk, raft>>
    ELSE CreateSnapshot(i)

\* The end of applyAll: it waits for raftDone and then triggers a snapshot.
FinishApply(i) ==
    /\ ~raft[i].panicked
    /\ applyq[i] # << >>
    /\ LET ap == Head(applyq[i]) IN ap.ents = << >> /\ ap.snap.index = 0 /\ ap.saved
    /\ applyq' = [applyq EXCEPT ![i] = Tail(@)]
    /\ TriggerSnapshot(i)
    /\ UNCHANGED <<soft, rd, net, proposed, crashes, hist>>

-----------------------------------------------------------------------------
(* Crashes *)

\* What a crash may leave on disk: the Commit of a save without fsync may be
\* lost, and of a save that is under way any number of its entry records may
\* have been written, but not the state record that follows them.
DiskAfterCrash(i) ==
    {[disk[i] EXCEPT !.Commit = c, !.synced = c,
                     !.ents = walAppend(@, rd[i].after, SubSeq(rd[i].ents, 1, k))] :
        c \in {disk[i].Commit, disk[i].synced},
        k \in IF rd[i].stage = "save" THEN 0..Len(rd[i].ents) ELSE {0}}

\* restartNode
CrashRestart(i) ==
    /\ crashes < MaxCrashes
    /\ crashes' = crashes + 1
    /\ \E d \in DiskAfterCrash(i) :
        /\ disk' = [disk EXCEPT ![i] = d]
        /\ raft' = [raft EXCEPT ![i] = newRaft(i, d, d.snap, d.ents)]
        /\ srv' = [srv EXCEPT ![i] = recovered(d.snap, SubSeq(d.ents, 1, d.snap.index))]
    /\ soft' = [soft EXCEPT ![i] = [lead |-> None, state |-> Follower]]
    /\ rd' = [rd EXCEPT ![i] = NoReady]
    /\ applyq' = [applyq EXCEPT ![i] = << >>]
    /\ UNCHANGED <<net, proposed, hist>>

-----------------------------------------------------------------------------

Proposals == [term : {0}, kind : {"Normal"}, arg : Value] \cup ConfChanges

Receive(m) == \/ RecvVote(m) \/ RecvVoteResp(m) \/ RecvApp(m) \/ RecvAppResp(m)
              \/ RecvHeartbeat(m) \/ RecvHeartbeatResp(m) \/ RecvSnap(m) \/ RecvProp(m)

Local(i) == \/ \E e \in Proposals : Propose(i, e)
            \/ Timeout(i) \/ Beat(i) \/ CheckQuorumTick(i)
            \/ \E p \in Node : ReportUnreachable(i, p)
            \/ \E p \in Node, failed \in BOOLEAN : ReportSnapshot(i, p, failed)

Pipeline(i) == \/ TakeReady(i) \/ SaveSnap(i) \/ Save(i)
               \/ ApplySnapshot(i) \/ ApplyEntry(i) \/ FinishApply(i)

Next == \/ \E m \in net : Receive(m)
        \/ \E i \in Node : Local(i) \/ Pipeline(i) \/ CrashRestart(i)

Spec == Init /\ [][Next]_vars

-----------------------------------------------------------------------------
(* Properties *)

\* Every variable has its type.
TypeOK ==
    /\ raft \in [Node -> RaftState] /\ \A i \in Node : raft[i].id = i
    /\ soft \in [Node -> [lead : Node \cup {None}, state : {Follower, Candidate, Leader}]]
    /\ rd \in [Node -> Ready]
    /\ disk \in [Node -> Disk]
    /\ applyq \in [Node -> Seq(Apply)]
    /\ srv \in [Node -> Server]
    /\ net \subseteq Message
    /\ proposed \subseteq Proposals
    /\ crashes \in Nat
    /\ hist \in Seq(Entry)

\* Who is, or has sent a message as, the leader of which term.
Leaders ==
    {<<i, raft[i].Term>> : i \in {i \in Node : raft[i].state = Leader}} \cup
    {<<m.from, m.term>> : m \in {m \in net : m.type \in {"App", "Heartbeat", "Snap"}}}

\* No term has two leaders, not even at different times: votes are answered only
\* when they are on disk, and a crash does not take one back.
ElectionSafety == \A l, k \in Leaders : l[2] = k[2] => l[1] = k[1]

\* Every server has applied a prefix of the one sequence of entries that was
\* ever applied, also after crashes of members that applied it.
StateMachineSafety == \A i \in Node : IsPrefix(srv[i].applied, hist)

\* No step and no restart runs into one of raft's panics: a commit index beyond
\* the log, a conflict with a committed entry, a second uncommitted membership
\* change, an applied index out of range, a gap in the applied entries, a snapshot
\* of entries that the storage does not hold yet.
NoPanic == \A i \in Node : ~raft[i].panicked

\* What raft regards as stable (below unstable.offset) is what a restart would
\* read: stableTo must not be fooled by entries replaced during a save.
StableIsSaved ==
    \A i \in Node : ~raft[i].unstableSnap =>
        AgreeUpTo(raft[i].ents, disk[i].ents, raft[i].offset - 1)

\* Does member i hold the log prefix s on disk?
Holds(i, s) == IsPrefix(s, disk[i].ents)

\* What any server has applied is on the disks of a majority: a leader counts
\* its own entries before it saves them, and applies before it saves.
AppliedIsDurable ==
    LET holders == {i \in InitialMembers : Holds(i, hist)} IN
    2 * Cardinality(holders) > Cardinality(InitialMembers)

\* The Match of a follower is on the follower's disk, as long as the follower is
\* in the leader's term: a follower answers only when it has saved.
MatchIsSaved ==
    \A i \in Node : raft[i].state = Leader =>
        \A p \in raft[i].nodes \ {i} :
            disk[p].Term = raft[i].Term =>
                AgreeUpTo(disk[p].ents, raft[i].ents, raft[i].prs[p].Match)

\* A vote that is on disk is not taken back: a later state of the disk has a
\* higher term, or the same term and the same vote.
VotesAreKept ==
    [][\A i \in Node : \/ disk'[i].Term > disk[i].Term
                       \/ /\ disk'[i].Term = disk[i].Term
                          /\ disk[i].Vote \in {None, disk'[i].Vote}]_disk


=============================================================================
