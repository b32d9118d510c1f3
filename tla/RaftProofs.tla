----------------------------- MODULE RaftProofs -----------------------------
(***************************************************************************)
(* What every operator of module Raft preserves, for every set of members: *)
(* the types, the order of the indexes of the log (snapshot, committed,    *)
(* last), and the part of the state that elections depend on.              *)
(***************************************************************************)
EXTENDS Raft, FiniteSetTheorems, SequenceTheorems, TLAPS

LeaderMessage == {"App", "Heartbeat", "Snap"}

\* A message of a cluster with the fixed configuration C.
MessageOK(m, C) == /\ m \in Message
                   /\ m.type = "Snap" => /\ Len(m.entries) = m.snapshot.index
                                         /\ m.snapshot.nodes = C

\* The state of a member of such a cluster.
RaftOK(r, C) == /\ r \in RaftState
                /\ r.snapshot.index <= r.committed
                /\ r.committed <= lastIndex(r)
                /\ r.nodes = C
                /\ r.snapshot.nodes = C
                /\ \A m \in r.msgs : MessageOK(m, C)

\* A message that r may send without taking part in an election.
PlainMessage(r, m) == /\ m.type # "VoteResp"
                      /\ m.from = r.id
                      /\ m.type \in LeaderMessage => r.state = Leader /\ m.term = r.Term

\* From r to s no term, vote, role or count of votes changes.
Quiet(r, s) == /\ s.id = r.id
               /\ s.Term = r.Term
               /\ s.Vote = r.Vote
               /\ s.state = r.state
               /\ s.granted = r.granted
               /\ \A m \in s.msgs : m \in r.msgs \/ PlainMessage(r, m)

\* From r to s no vote is given, asked for or counted.
Calm(r, s) == /\ s.id = r.id
              /\ \/ /\ s.Term = r.Term
                    /\ s.Vote = r.Vote
                    /\ \/ s.state = r.state /\ s.granted = r.granted
                       \/ s.state = Follower
                 \/ s.Term > r.Term /\ s.Vote = None /\ s.state = Follower
              /\ \A m \in s.msgs : m \in r.msgs \/ PlainMessage(s, m)

\* A quiet step is calm, and may follow a calm one (followLeader, then a handler).
LEMMA CalmQuiet ==
    ASSUME NEW r, NEW s, NEW t, Quiet(s, t)
    PROVE  /\ Calm(s, t)
           /\ Calm(r, s) => Calm(r, t)
BY DEF Quiet, Calm, PlainMessage

\* Quiet steps compose.
LEMMA QuietTransitive ==
    ASSUME NEW r, NEW s, NEW t, Quiet(r, s), Quiet(s, t)
    PROVE  Quiet(r, t)
BY DEF Quiet, PlainMessage

-----------------------------------------------------------------------------
(* Sequences and counts *)

\* A part of a sequence that does not reach beyond its end has its type.
LEMMA SubSeqType ==
    ASSUME NEW S, NEW s \in Seq(S), NEW m \in Nat \ {0}, NEW n \in Int, n <= Len(s)
    PROVE  SubSeq(s, m, n) \in Seq(S)
<1>1. \A i \in m..n : s[i] \in S
    BY ElementOfSeq
<1> QED BY <1>1, SubSeqProperties

\* A count of positions of a sequence is at most its length (findConflict, freeTo).
LEMMA CountType ==
    ASSUME NEW k \in Nat, NEW X \in SUBSET (1..k)
    PROVE  Cardinality(X) \in 0..k
<1>1. IsFiniteSet(1..k) /\ Cardinality(1..k) = k
    BY FS_Interval
<1>2. IsFiniteSet(X) /\ Cardinality(X) <= k
    BY <1>1, FS_Subset
<1> QED BY <1>2, FS_CardinalityType

-----------------------------------------------------------------------------
(* raft/log.go *)

\* What is left to show when a step leaves the log and the members alone.
LEMMA SameLogOK ==
    ASSUME NEW C, NEW r, RaftOK(r, C), NEW s \in RaftState,
           s.ents = r.ents, s.committed = r.committed, s.snapshot = r.snapshot,
           s.nodes = r.nodes,
           \A m \in s.msgs : m \in r.msgs \/ MessageOK(m, C)
    PROVE  RaftOK(s, C)
BY DEF RaftOK, lastIndex

\* A panic stops the member and changes nothing else.
LEMMA PanicOK ==
    ASSUME NEW C, NEW r, RaftOK(r, C)
    PROVE  RaftOK(panic(r), C) /\ Quiet(r, panic(r))
BY DEF RaftOK, RaftState, panic, lastIndex, Quiet

\* commitTo keeps the commit index inside of the log, by its panic.
LEMMA CommitToOK ==
    ASSUME NEW C, NEW r, RaftOK(r, C), NEW n \in Nat
    PROVE  RaftOK(commitTo(r, n), C) /\ Quiet(r, commitTo(r, n))
<1>0. r.committed \in Nat
    BY DEF RaftOK, RaftState
<1>1. CASE n <= r.committed
    BY <1>1 DEF commitTo, Quiet
<1>2. CASE n > r.committed /\ lastIndex(r) < n
    <2>1. commitTo(r, n) = panic(r)
        BY <1>0, <1>2 DEF commitTo
    <2> QED BY <2>1, PanicOK
<1>3. CASE n > r.committed /\ ~(lastIndex(r) < n)
    <2> DEFINE s == [r EXCEPT !.committed = n]
    <2>1. commitTo(r, n) = s
        BY <1>0, <1>3 DEF commitTo
    <2>2. s \in RaftState
        BY DEF RaftOK, RaftState
    <2>3. n <= lastIndex(r) /\ r.snapshot.index <= n
        BY <1>0, <1>3 DEF RaftOK, RaftState, lastIndex, Snapshot
    <2>4. RaftOK(s, C)
        BY <2>2, <2>3 DEF RaftOK, lastIndex, RaftState
    <2>5. Quiet(r, s)
        BY DEF RaftOK, RaftState, Quiet
    <2> QED BY <2>1, <2>4, <2>5
<1> QED BY <1>0, <1>1, <1>2, <1>3

\* append never removes a committed entry and leaves no gap, by its panics.
LEMMA AppendOK ==
    ASSUME NEW C, NEW r, RaftOK(r, C), NEW after \in Nat, NEW es \in Seq(Entry)
    PROVE  RaftOK(append(r, after, es), C) /\ Quiet(r, append(r, after, es))
<1>1. CASE es = << >>
    BY <1>1 DEF append, Quiet
<1>2. CASE es # << >> /\ (after < r.committed \/ after > lastIndex(r))
    BY <1>2, PanicOK DEF append
<1>3. CASE es # << >> /\ ~(after < r.committed \/ after > lastIndex(r))
    <2> DEFINE s == [r EXCEPT !.ents = SubSeq(@, 1, after) \o es,
                              !.offset = min(@, after + 1)]
    <2>1. append(r, after, es) = s
        BY <1>3 DEF append
    <2>2. r.ents \in Seq(Entry) /\ after <= Len(r.ents) /\ r.committed <= after
          /\ r.committed \in Nat /\ r.offset \in Nat \ {0} /\ r \in RaftState
        BY <1>3 DEF RaftOK, RaftState, lastIndex
    <2>3. SubSeq(r.ents, 1, after) \in Seq(Entry) /\ Len(SubSeq(r.ents, 1, after)) = after
        BY <2>2, SubSeqProperties, ElementOfSeq
    <2>4. /\ SubSeq(r.ents, 1, after) \o es \in Seq(Entry)
          /\ Len(SubSeq(r.ents, 1, after) \o es) >= after
        BY <2>3, ConcatProperties, LenProperties
    <2>5. min(r.offset, after + 1) \in Nat \ {0}
        BY <2>2 DEF min
    <2>6. s \in RaftState
        BY <2>2, <2>4, <2>5 DEF RaftState
    <2>7. lastIndex(s) >= s.committed
        BY <2>2, <2>4 DEF lastIndex, RaftState
    <2> QED BY <2>1, <2>2, <2>6, <2>7 DEF RaftOK, Quiet, RaftState
<1> QED BY <1>1, <1>2, <1>3

\* term returns a term, 0 outside of the log.
LEMMA TermType ==
    ASSUME NEW r \in RaftState, NEW i \in Int
    PROVE  term(r, i) \in Nat
<1>1. CASE i \in max(r.first - 1, 1)..lastIndex(r)
    <2>1. i \in 1..Len(r.ents) /\ r.ents \in Seq(Entry)
        BY <1>1 DEF RaftState, max, lastIndex
    <2>2. r.ents[i] \in Entry
        BY <2>1, ElementOfSeq
    <2> QED BY <1>1, <2>2 DEF term, Entry
<1>2. CASE i \notin max(r.first - 1, 1)..lastIndex(r)
    BY <1>2 DEF term
<1> QED BY <1>1, <1>2

\* entries returns a part of the log.
LEMMA EntriesType ==
    ASSUME NEW r \in RaftState, NEW i \in Nat \ {0}
    PROVE  entries(r, i) \in Seq(Entry)
<1>1. r.ents \in Seq(Entry) /\ Len(r.ents) \in Nat
    BY LenProperties DEF RaftState
<1>2. min(Len(r.ents), i + MaxEntsPerMsg - 1) \in Int
      /\ min(Len(r.ents), i + MaxEntsPerMsg - 1) <= Len(r.ents)
    BY <1>1, MaxEntsAssumption DEF min
<1> QED BY <1>1, <1>2, SubSeqType DEF entries, lastIndex

\* maybeAppend keeps what is committed, whatever entries the message has.
LEMMA MaybeAppendOK ==
    ASSUME NEW C, NEW r, RaftOK(r, C), NEW m \in Message
    PROVE  RaftOK(maybeAppend(r, m), C) /\ Quiet(r, maybeAppend(r, m))
<1> DEFINE n == findConflict(r, m.index, m.entries)
           new == SubSeq(m.entries, n + 1, Len(m.entries))
           r1 == IF n < Len(m.entries) /\ m.index + n + 1 <= r.committed
                 THEN panic(r)
                 ELSE append(r, m.index + n, new)
           to == min(m.commit, m.index + Len(m.entries))
<1>1. m.entries \in Seq(Entry) /\ Len(m.entries) \in Nat /\ m.index \in Nat /\ m.commit \in Nat
    BY LenProperties DEF Message
<1>2. n \in Nat
    <2> DEFINE X == {k \in 1..Len(m.entries) :
                        \A l \in 1..k : matchTerm(r, m.index + l, m.entries[l].term)}
    <2>1. n = Cardinality(X)
        BY DEF findConflict
    <2>2. X \in SUBSET (1..Len(m.entries))
        OBVIOUS
    <2> HIDE DEF n, X
    <2> QED BY <1>1, <2>1, <2>2, CountType
<1>3. new \in Seq(Entry)
    <2> HIDE DEF n
    <2> QED BY <1>1, <1>2, SubSeqType
<1>4. RaftOK(r1, C) /\ Quiet(r, r1)
    <2>1. RaftOK(panic(r), C) /\ Quiet(r, panic(r))
        BY PanicOK
    <2>2. RaftOK(append(r, m.index + n, new), C) /\ Quiet(r, append(r, m.index + n, new))
        <3> HIDE DEF n, new
        <3>1. m.index + n \in Nat
            BY <1>1, <1>2
        <3> QED BY <1>3, <3>1, AppendOK
    <2> HIDE DEF n, new
    <2> QED BY <2>1, <2>2
<1>5. to \in Nat
    BY <1>1 DEF min
<1>6. RaftOK(commitTo(r1, to), C) /\ Quiet(r1, commitTo(r1, to))
    <2> HIDE DEF r1, to
    <2> QED BY <1>4, <1>5, CommitToOK
<1>7. maybeAppend(r, m) = commitTo(r1, to)
    BY DEF maybeAppend
<1> HIDE DEF r1, to
<1> QED BY <1>4, <1>6, <1>7, QuietTransitive

-----------------------------------------------------------------------------
(* raft/progress.go *)

\* newProgress returns a progress: Next is never 0.
LEMMA NewProgressType ==
    ASSUME NEW match \in Nat, NEW next \in Nat \ {0}
    PROVE  newProgress(match, next) \in Progress
BY EmptySeq DEF newProgress, Progress

\* The changes of state of a progress leave Next above 0.
LEMMA BecomeType ==
    ASSUME NEW pr \in Progress, NEW i \in Nat
    PROVE  /\ becomeProbe(pr) \in Progress
           /\ becomeReplicate(pr) \in Progress
           /\ becomeSnapshot(pr, i) \in Progress
<1> DEFINE q == newProgress(pr.Match, pr.Next)
<1>0. pr.Match \in Nat /\ pr.PendingSnapshot \in Nat
    BY DEF Progress
<1>1. q \in Progress
    BY NewProgressType DEF Progress
<1>2. becomeProbe(pr) \in Progress
    <2> DEFINE next == IF pr.State = "Snapshot" THEN max(pr.Match + 1, pr.PendingSnapshot + 1)
                                                ELSE pr.Match + 1
    <2>1. next \in Nat \ {0}
        BY <1>0 DEF max
    <2>2. becomeProbe(pr) = [q EXCEPT !.State = "Probe", !.Next = next]
        BY DEF becomeProbe, resetState
    <2> HIDE DEF next, q
    <2> QED BY <1>1, <2>1, <2>2 DEF Progress
<1>3. becomeReplicate(pr) \in Progress
    <2>1. becomeReplicate(pr) = [q EXCEPT !.State = "Replicate", !.Next = pr.Match + 1]
        BY DEF becomeReplicate, resetState
    <2>2. pr.Match + 1 \in Nat \ {0}
        BY <1>0
    <2> HIDE DEF q
    <2> QED BY <1>1, <2>1, <2>2 DEF Progress
<1>4. becomeSnapshot(pr, i) \in Progress
    BY <1>1 DEF becomeSnapshot, resetState, Progress
<1> QED BY <1>2, <1>3, <1>4

\* maybeUpdate and maybeDecrTo leave Next above 0: the "< 1" test of maybeDecrTo.
LEMMA UpdateType ==
    ASSUME NEW pr \in Progress, NEW i \in Nat, NEW last \in Nat
    PROVE  /\ maybeUpdate(pr, i) \in Progress
           /\ maybeDecrTo(pr, i, last) \in Progress
<1>0. pr.Match \in Nat /\ pr.Next \in Nat \ {0} /\ pr.Paused \in BOOLEAN
    BY DEF Progress
<1>1. maybeUpdate(pr, i) \in Progress
    <2>1. max(pr.Match, i) \in Nat /\ max(pr.Next, i + 1) \in Nat \ {0}
        BY <1>0 DEF max
    <2> QED BY <2>1 DEF maybeUpdate, Progress
<1>2. maybeDecrTo(pr, i, last) \in Progress
    <2>1. max(min(i, last + 1), 1) \in Nat \ {0} /\ pr.Match + 1 \in Nat \ {0}
        BY <1>0 DEF max, min
    <2> QED BY <2>1 DEF maybeDecrTo, Progress
<1> QED BY <1>1, <1>2

\* freeTo leaves a window of indexes.
LEMMA FreeToType ==
    ASSUME NEW pr \in Progress, NEW to
    PROVE  freeTo(pr, to) \in Progress
<1> DEFINE n == Cardinality({j \in 1..Len(pr.ins) : \A k \in 1..j : pr.ins[k] <= to})
<1>1. pr.ins \in Seq(Nat) /\ Len(pr.ins) \in Nat
    BY LenProperties DEF Progress
<1>2. n \in Nat
    BY <1>1, CountType
<1>3. freeTo(pr, to) = [pr EXCEPT !.ins = SubSeq(@, n + 1, Len(@))]
    BY DEF freeTo
<1> HIDE DEF n
<1>4. SubSeq(pr.ins, n + 1, Len(pr.ins)) \in Seq(Nat)
    BY <1>1, <1>2, SubSeqType
<1> QED BY <1>3, <1>4 DEF Progress

-----------------------------------------------------------------------------
(* raft/raft.go: sending *)

\* The message that send completes carries the sender and its term.
LEMMA MsgType ==
    ASSUME NEW r \in RaftState, NEW type \in MessageType, NEW to \in Node
    PROVE  /\ msg(r, type, to) \in Message
           /\ msg(r, type, to).type = type
           /\ msg(r, type, to).from = r.id
           /\ msg(r, type, to).to = to
           /\ type # "Prop" => msg(r, type, to).term = r.Term
<1>1. NoSnapshot \in Snapshot
    BY DEF NoSnapshot, Snapshot
<1>2. << >> \in Seq(Entry)
    BY EmptySeq
<1>3. r.id \in Node /\ r.Term \in Nat
    BY DEF RaftState
<1> QED BY <1>1, <1>2, <1>3 DEF msg, Message

\* Sending a message outside of elections is quiet.
LEMMA SendOK ==
    ASSUME NEW C, NEW r, RaftOK(r, C), NEW m, MessageOK(m, C), PlainMessage(r, m)
    PROVE  RaftOK(send(r, m), C) /\ Quiet(r, send(r, m))
<1>1. send(r, m) \in RaftState
    BY DEF send, RaftOK, RaftState, MessageOK
<1>2. Quiet(r, send(r, m))
    BY DEF send, Quiet, RaftOK, RaftState
<1>3. /\ send(r, m).ents = r.ents /\ send(r, m).committed = r.committed
      /\ send(r, m).snapshot = r.snapshot /\ send(r, m).nodes = r.nodes
      /\ send(r, m).msgs = r.msgs \cup {m}
    BY DEF send, RaftOK, RaftState
<1>4. RaftOK(send(r, m), C)
    BY <1>1, <1>3, SameLogOK
<1> QED BY <1>2, <1>4

\* sendAppend sends an App, or a Snap whose entries are the whole prefix that its
\* snapshot stands for: the snapshot index is never beyond the log.
LEMMA AppendMsgsOK ==
    ASSUME NEW C, NEW r, RaftOK(r, C), NEW to \in Node, NEW m \in appendMsgs(r, to)
    PROVE  /\ MessageOK(m, C)
           /\ m.type \in LeaderMessage
           /\ m.from = r.id
           /\ m.term = r.Term
<1> DEFINE pr == r.prs[to]
           snap == [msg(r, "Snap", to) EXCEPT !.snapshot = r.snapshot,
                                              !.entries = SubSeq(r.ents, 1, r.snapshot.index)]
           app == [msg(r, "App", to) EXCEPT
                      !.index = pr.Next - 1, !.logTerm = term(r, pr.Next - 1),
                      !.entries = entries(r, pr.Next), !.commit = r.committed]
<1>1. m = snap \/ m = app
    BY DEF appendMsgs
<1>2. r \in RaftState /\ pr \in Progress /\ r.ents \in Seq(Entry) /\ r.snapshot \in Snapshot
    BY DEF RaftOK, RaftState
<1>3. CASE m = snap
    <2>1. /\ r.snapshot.index \in Nat /\ r.snapshot.index <= Len(r.ents)
          /\ r.snapshot.nodes = C
        BY <1>2, LenProperties DEF RaftOK, lastIndex, Snapshot, RaftState
    <2>2. SubSeq(r.ents, 1, r.snapshot.index) \in Seq(Entry)
        BY <1>2, <2>1, SubSeqType
    <2>3. Len(SubSeq(r.ents, 1, r.snapshot.index)) = r.snapshot.index
        BY <1>2, <2>1, SubSeqProperties, ElementOfSeq
    <2>4. msg(r, "Snap", to) \in Message /\ msg(r, "Snap", to).type = "Snap"
          /\ msg(r, "Snap", to).from = r.id /\ msg(r, "Snap", to).term = r.Term
        BY <1>2, MsgType DEF MessageType
    <2>5. m \in Message /\ m.type = "Snap" /\ m.from = r.id /\ m.term = r.Term
          /\ m.entries = SubSeq(r.ents, 1, r.snapshot.index) /\ m.snapshot = r.snapshot
        BY <1>2, <1>3, <2>2, <2>4 DEF Message
    <2> QED BY <2>1, <2>3, <2>5 DEF MessageOK, LeaderMessage
<1>4. CASE m = app
    <2>a. pr.Next \in Nat \ {0}
        BY <1>2 DEF Progress
    <2>b. r.committed \in Nat
        BY <1>2 DEF RaftState
    <2>1. pr.Next \in Nat \ {0} /\ pr.Next - 1 \in Nat /\ r.committed \in Nat
        <3> HIDE DEF pr
        <3> QED BY <2>a, <2>b
    <2>2. entries(r, pr.Next) \in Seq(Entry) /\ term(r, pr.Next - 1) \in Nat
        <3> HIDE DEF pr
        <3>1. entries(r, pr.Next) \in Seq(Entry)
            BY <1>2, <2>1, EntriesType
        <3>2. pr.Next - 1 \in Int
            BY <2>1
        <3>3. term(r, pr.Next - 1) \in Nat
            BY <1>2, <3>2, TermType
        <3> QED BY <3>1, <3>3
    <2>3. msg(r, "App", to) \in Message /\ msg(r, "App", to).type = "App"
          /\ msg(r, "App", to).from = r.id /\ msg(r, "App", to).term = r.Term
        BY <1>2, MsgType DEF MessageType
    <2>4. m \in Message /\ m.type = "App" /\ m.from = r.id /\ m.term = r.Term
        BY <1>4, <2>1, <2>2, <2>3 DEF Message
    <2> QED BY <2>4 DEF MessageOK, LeaderMessage
<1> QED BY <1>1, <1>3, <1>4

\* sendAppend leaves a progress.
LEMMA AppendProgressType ==
    ASSUME NEW r \in RaftState, NEW to \in Node
    PROVE  appendProgress(r, to) \in Progress
<1> DEFINE pr == r.prs[to]
           last == pr.Next - 1 + Len(entries(r, pr.Next))
<1>1. pr \in Progress /\ r.snapshot.index \in Nat
    BY DEF RaftState, Snapshot
<1>2. pr.Next \in Nat \ {0} /\ pr.ins \in Seq(Nat)
    BY <1>1 DEF Progress
<1>3. last \in Nat
    BY <1>2, EntriesType, LenProperties
<1>4. becomeSnapshot(pr, r.snapshot.index) \in Progress
    BY <1>1, BecomeType
<1>5. [pr EXCEPT !.Next = last + 1, !.ins = Append(@, last)] \in Progress
    <2> HIDE DEF last
    <2>1. Append(pr.ins, last) \in Seq(Nat) /\ last + 1 \in Nat \ {0}
        BY <1>2, <1>3, AppendProperties
    <2> QED BY <1>1, <2>1 DEF Progress
<1>6. [pr EXCEPT !.Paused = TRUE] \in Progress
    BY <1>1 DEF Progress
<1>7. appendProgress(r, to) \in {pr, becomeSnapshot(pr, r.snapshot.index),
                                 [pr EXCEPT !.Next = last + 1, !.ins = Append(@, last)],
                                 [pr EXCEPT !.Paused = TRUE]}
    BY DEF appendProgress
<1> HIDE DEF pr, last
<1> QED BY <1>1, <1>4, <1>5, <1>6, <1>7

\* A leader that sends entries to some members is quiet.
LEMMA SendAppendsOK ==
    ASSUME NEW C, NEW r, RaftOK(r, C), r.state = Leader, NEW to \in SUBSET Node
    PROVE  RaftOK(sendAppends(r, to), C) /\ Quiet(r, sendAppends(r, to))
<1> DEFINE s == sendAppends(r, to)
           prs == [p \in Node |-> IF p \in to THEN appendProgress(r, p) ELSE r.prs[p]]
           new == UNION {appendMsgs(r, p) : p \in to}
<1>1. r \in RaftState
    BY DEF RaftOK
<1>2. prs \in [Node -> Progress]
    BY <1>1, AppendProgressType DEF RaftState
<1>3. \A m \in new : MessageOK(m, C) /\ PlainMessage(r, m)
    BY AppendMsgsOK DEF PlainMessage, LeaderMessage
<1>4. /\ s.prs = prs /\ s.msgs = r.msgs \cup new /\ s.panicked \in BOOLEAN
      /\ s = [r EXCEPT !.prs = s.prs, !.msgs = s.msgs, !.panicked = s.panicked]
    BY <1>1 DEF sendAppends, RaftState
<1> HIDE DEF s, prs, new
<1>5. s \in RaftState
    <2>1. s.msgs \in SUBSET Message
        BY <1>1, <1>3, <1>4 DEF RaftState, MessageOK
    <2> QED BY <1>1, <1>2, <1>4, <2>1, ZenonT(60) DEF RaftState
<1>6. s.ents = r.ents /\ s.committed = r.committed /\ s.snapshot = r.snapshot /\ s.nodes = r.nodes
    BY <1>1, <1>4 DEF RaftState
<1>7. RaftOK(s, C)
    BY <1>3, <1>4, <1>5, <1>6, SameLogOK
<1>8. Quiet(r, s)
    BY <1>1, <1>3, <1>4 DEF Quiet, RaftState
<1> QED BY <1>7, <1>8 DEF s

\* bcastAppend is quiet.
LEMMA BcastAppendOK ==
    ASSUME NEW C, NEW r, RaftOK(r, C), r.state = Leader
    PROVE  RaftOK(bcastAppend(r), C) /\ Quiet(r, bcastAppend(r))
BY SendAppendsOK DEF bcastAppend, RaftOK, RaftState

\* sendAppend is quiet.
LEMMA SendAppendOK ==
    ASSUME NEW C, NEW r, RaftOK(r, C), r.state = Leader, NEW to \in Node
    PROVE  RaftOK(sendAppend(r, to), C) /\ Quiet(r, sendAppend(r, to))
BY SendAppendsOK DEF sendAppend

\* bcastHeartbeat is quiet, and the commit index it sends is one.
LEMMA BcastHeartbeatOK ==
    ASSUME NEW C, NEW r, RaftOK(r, C), r.state = Leader
    PROVE  RaftOK(bcastHeartbeat(r), C) /\ Quiet(r, bcastHeartbeat(r))
<1> DEFINE s == bcastHeartbeat(r)
           peers == r.nodes \ {r.id}
           prs == [p \in Node |-> IF p \in peers THEN [r.prs[p] EXCEPT !.Paused = FALSE]
                                                 ELSE r.prs[p]]
           new == {sendHeartbeat(r, p) : p \in peers}
<1>1. r \in RaftState /\ peers \subseteq Node
    BY DEF RaftOK, RaftState
<1>2. prs \in [Node -> Progress]
    <2>1. \A p \in Node : r.prs[p] \in Progress
        BY <1>1 DEF RaftState
    <2>2. \A p \in Node : [r.prs[p] EXCEPT !.Paused = FALSE] \in Progress
        BY <2>1 DEF Progress
    <2> QED BY <2>1, <2>2
<1>3. ASSUME NEW p \in Node
      PROVE  MessageOK(sendHeartbeat(r, p), C) /\ PlainMessage(r, sendHeartbeat(r, p))
    <2>1. r.prs[p].Match \in Nat /\ r.committed \in Nat
        BY <1>1 DEF RaftState, Progress
    <2>2. min(r.prs[p].Match, r.committed) \in Nat
        BY <2>1 DEF min
    <2>3. msg(r, "Heartbeat", p) \in Message /\ msg(r, "Heartbeat", p).type = "Heartbeat"
          /\ msg(r, "Heartbeat", p).from = r.id /\ msg(r, "Heartbeat", p).term = r.Term
        BY <1>1, MsgType DEF MessageType
    <2>4. /\ sendHeartbeat(r, p) \in Message /\ sendHeartbeat(r, p).type = "Heartbeat"
          /\ sendHeartbeat(r, p).from = r.id /\ sendHeartbeat(r, p).term = r.Term
        BY <2>2, <2>3 DEF sendHeartbeat, Message
    <2> QED BY <2>4 DEF MessageOK, PlainMessage
<1>4. /\ s.prs = prs /\ s.msgs = r.msgs \cup new
      /\ s = [r EXCEPT !.prs = s.prs, !.msgs = s.msgs]
    BY <1>1 DEF bcastHeartbeat, RaftState
<1>5. \A m \in new : MessageOK(m, C) /\ PlainMessage(r, m)
    BY <1>1, <1>3
<1> HIDE DEF s, prs, new
<1>6. s \in RaftState
    <2>1. s.msgs \in SUBSET Message
        BY <1>1, <1>4, <1>5 DEF RaftState, MessageOK
    <2> QED BY <1>1, <1>2, <1>4, <2>1, ZenonT(60) DEF RaftState
<1>7. s.ents = r.ents /\ s.committed = r.committed /\ s.snapshot = r.snapshot /\ s.nodes = r.nodes
    BY <1>1, <1>4 DEF RaftState
<1>8. RaftOK(s, C)
    BY <1>4, <1>5, <1>6, <1>7, SameLogOK
<1>9. Quiet(r, s)
    BY <1>1, <1>4, <1>5 DEF Quiet, RaftState
<1> QED BY <1>8, <1>9 DEF s

-----------------------------------------------------------------------------
(* raft/raft.go: commit, role changes *)

\* maybeCommit moves the commit index forward, inside of the log.
LEMMA MaybeCommitOK ==
    ASSUME NEW C, NEW r, RaftOK(r, C)
    PROVE  RaftOK(maybeCommit(r), C) /\ Quiet(r, maybeCommit(r))
<1>1. CASE Committable(r) = {}
    BY <1>1 DEF maybeCommit, Quiet
<1>2. CASE Committable(r) # {}
    <2> DEFINE n == CHOOSE k \in Committable(r) : TRUE
    <2>1. n \in Committable(r)
        BY <1>2
    <2>2. maybeCommit(r) = [r EXCEPT !.committed = n]
        BY <1>2 DEF maybeCommit
    <2> HIDE DEF n
    <2>3. n \in (r.committed + 1)..lastIndex(r)
        BY <2>1 DEF Committable
    <2>4. r \in RaftState /\ r.committed \in Nat /\ lastIndex(r) \in Nat
        BY LenProperties DEF RaftOK, RaftState, lastIndex
    <2>5. n \in Nat /\ n > r.committed /\ ~(lastIndex(r) < n)
        BY <2>3, <2>4
    <2>6. maybeCommit(r) = commitTo(r, n)
        BY <2>2, <2>4, <2>5 DEF commitTo
    <2> QED BY <2>5, <2>6, CommitToOK
<1> QED BY <1>1, <1>2

\* The progresses that reset and restore make are progresses.
LEMMA NewProgressesType ==
    ASSUME NEW nodes, NEW id, NEW last \in Nat
    PROVE  newProgresses(nodes, id, last) \in [Node -> Progress]
<1>1. newProgress(0, last + 1) \in Progress /\ newProgress(last, last + 1) \in Progress
      /\ noProgress \in Progress
    BY NewProgressType DEF noProgress
<1> QED BY <1>1 DEF newProgresses

\* reset keeps the log, and the vote exactly if the term stays.
LEMMA ResetOK ==
    ASSUME NEW C, NEW r, RaftOK(r, C), NEW t \in Nat
    PROVE  /\ RaftOK(reset(r, t), C)
           /\ reset(r, t).id = r.id
           /\ reset(r, t).state = r.state
           /\ reset(r, t).Term = t
           /\ reset(r, t).Vote = (IF t = r.Term THEN r.Vote ELSE None)
           /\ reset(r, t).granted = {}
           /\ reset(r, t).msgs = r.msgs
           /\ reset(r, t).ents = r.ents
           /\ reset(r, t).committed = r.committed
<1> DEFINE s == reset(r, t)
<1>1. r \in RaftState /\ lastIndex(r) \in Nat
    BY LenProperties DEF RaftOK, RaftState, lastIndex
<1>2. newProgresses(r.nodes, r.id, lastIndex(r)) \in [Node -> Progress]
    BY <1>1, NewProgressesType
<1>3. s \in RaftState
    BY <1>1, <1>2, ZenonT(60) DEF reset, RaftState
<1>4. /\ s.id = r.id /\ s.state = r.state /\ s.Term = t /\ s.granted = {} /\ s.msgs = r.msgs
      /\ s.ents = r.ents /\ s.committed = r.committed /\ s.snapshot = r.snapshot
      /\ s.nodes = r.nodes /\ s.Vote = (IF t = r.Term THEN r.Vote ELSE None)
    BY <1>1 DEF reset, RaftState
<1>5. RaftOK(s, C)
    <2> HIDE DEF s
    <2> QED BY <1>3, <1>4, SameLogOK
<1> QED BY <1>4, <1>5

\* appendEntry is quiet.
LEMMA AppendEntryOK ==
    ASSUME NEW C, NEW r, RaftOK(r, C), NEW e \in Entry
    PROVE  RaftOK(appendEntry(r, e), C) /\ Quiet(r, appendEntry(r, e))
<1> DEFINE es == <<[e EXCEPT !.term = r.Term]>>
           r1 == append(r, lastIndex(r), es)
           r2 == [r1 EXCEPT !.prs[r.id] = maybeUpdate(@, lastIndex(r1))]
<1>1. r \in RaftState /\ lastIndex(r) \in Nat /\ r.Term \in Nat /\ r.id \in Node
    BY LenProperties DEF RaftOK, RaftState, lastIndex
<1>2. es \in Seq(Entry)
    <2>1. [e EXCEPT !.term = r.Term] \in Entry
        BY <1>1 DEF Entry
    <2> QED BY <2>1
<1>3. RaftOK(r1, C) /\ Quiet(r, r1)
    <2> HIDE DEF es
    <2> QED BY <1>1, <1>2, AppendOK
<1> HIDE DEF r1
<1>4. r1 \in RaftState /\ lastIndex(r1) \in Nat
    BY <1>3, LenProperties DEF RaftOK, RaftState, lastIndex
<1>5. maybeUpdate(r1.prs[r.id], lastIndex(r1)) \in Progress
    BY <1>1, <1>4, UpdateType DEF RaftState
<1>6. r2 \in RaftState
    BY <1>4, <1>5 DEF RaftState
<1>7. /\ r2.id = r1.id /\ r2.state = r1.state /\ r2.Term = r1.Term /\ r2.granted = r1.granted
      /\ r2.msgs = r1.msgs /\ r2.ents = r1.ents /\ r2.committed = r1.committed
      /\ r2.snapshot = r1.snapshot /\ r2.nodes = r1.nodes /\ r2.Vote = r1.Vote
    BY <1>4 DEF RaftState
<1> HIDE DEF r2
<1>8. RaftOK(r2, C) /\ Quiet(r1, r2)
    BY <1>3, <1>6, <1>7, SameLogOK DEF Quiet
<1>9. RaftOK(maybeCommit(r2), C) /\ Quiet(r2, maybeCommit(r2))
    BY <1>8, MaybeCommitOK
<1>10. RaftOK(panic(r1), C) /\ Quiet(r1, panic(r1))
    BY <1>3, PanicOK
<1>11. appendEntry(r, e) \in {panic(r1), maybeCommit(r2)}
    BY DEF appendEntry, r1, r2
<1> QED BY <1>3, <1>8, <1>9, <1>10, <1>11, QuietTransitive

\* becomeFollower is calm when the term does not go back.
LEMMA BecomeFollowerOK ==
    ASSUME NEW C, NEW r, RaftOK(r, C), NEW t \in Nat, t >= r.Term, NEW l \in Node \cup {None}
    PROVE  LET s == becomeFollower(r, t, l)
           IN  RaftOK(s, C) /\ Calm(r, s) /\ s.msgs = r.msgs /\ s.state = Follower /\ s.Term = t
<1> DEFINE q == reset(r, t)
           s == becomeFollower(r, t, l)
<1>1. /\ RaftOK(q, C) /\ q.id = r.id /\ q.Term = t /\ q.msgs = r.msgs
      /\ q.Vote = (IF t = r.Term THEN r.Vote ELSE None)
    BY ResetOK
<1>2. s = [q EXCEPT !.lead = l, !.state = Follower]
    BY DEF becomeFollower
<1>3. r.Term \in Nat
    BY DEF RaftOK, RaftState
<1> HIDE DEF q, s
<1>4. q \in RaftState
    BY <1>1 DEF RaftOK
<1>5. s \in RaftState
    BY <1>2, <1>4 DEF RaftState
<1>6. /\ s.id = q.id /\ s.state = Follower /\ s.Term = q.Term /\ s.Vote = q.Vote
      /\ s.msgs = q.msgs /\ s.ents = q.ents /\ s.committed = q.committed
      /\ s.snapshot = q.snapshot /\ s.nodes = q.nodes
    BY <1>2, <1>4 DEF RaftState
<1>7. RaftOK(s, C)
    BY <1>1, <1>5, <1>6, SameLogOK
<1>8. Calm(r, s)
    BY <1>1, <1>3, <1>6 DEF Calm
<1> QED BY <1>1, <1>6, <1>7, <1>8 DEF s

\* becomeCandidate moves to the next term with a vote for itself.
LEMMA BecomeCandidateOK ==
    ASSUME NEW C, NEW r, RaftOK(r, C)
    PROVE  LET s == becomeCandidate(r)
           IN  /\ RaftOK(s, C) /\ s.id = r.id /\ s.Term = r.Term + 1 /\ s.Vote = r.id
               /\ s.state = Candidate /\ s.granted = {} /\ s.rejected = {} /\ s.msgs = r.msgs
<1> DEFINE q == reset(r, r.Term + 1)
           s == becomeCandidate(r)
<1>1. r.Term + 1 \in Nat /\ r.id \in Node
    BY DEF RaftOK, RaftState
<1>2. /\ RaftOK(q, C) /\ q.id = r.id /\ q.Term = r.Term + 1 /\ q.msgs = r.msgs /\ q.granted = {}
    BY <1>1, ResetOK
<1>3. s = [q EXCEPT !.Vote = r.id, !.state = Candidate]
    BY DEF becomeCandidate
<1>4. q.rejected = {}
    BY DEF reset, RaftOK, RaftState
<1> HIDE DEF q, s
<1>5. q \in RaftState
    BY <1>2 DEF RaftOK
<1>6. s \in RaftState
    BY <1>1, <1>3, <1>5 DEF RaftState
<1>7. /\ s.id = q.id /\ s.state = Candidate /\ s.Term = q.Term /\ s.Vote = r.id
      /\ s.msgs = q.msgs /\ s.ents = q.ents /\ s.committed = q.committed
      /\ s.snapshot = q.snapshot /\ s.nodes = q.nodes /\ s.granted = q.granted
      /\ s.rejected = q.rejected
    BY <1>3, <1>5 DEF RaftState
<1>8. RaftOK(s, C)
    BY <1>2, <1>6, <1>7, SameLogOK
<1> QED BY <1>2, <1>4, <1>7, <1>8 DEF s

\* becomeLeader keeps the term and the vote.
LEMMA BecomeLeaderOK ==
    ASSUME NEW C, NEW r, RaftOK(r, C)
    PROVE  LET s == becomeLeader(r)
           IN  /\ RaftOK(s, C) /\ s.id = r.id /\ s.Term = r.Term /\ s.Vote = r.Vote
               /\ s.state = Leader
               /\ \A m \in s.msgs : m \in r.msgs \/ PlainMessage(s, m)
<1> DEFINE q == reset(r, r.Term)
           pending == UncommittedConf(r) # {}
           panics == q.panicked \/ Cardinality(UncommittedConf(r)) > 1
           u == [q EXCEPT !.lead = r.id, !.state = Leader,
                          !.pendingConf = pending, !.panicked = panics]
           s == becomeLeader(r)
<1>1. r.Term \in Nat /\ r.id \in Node
    BY DEF RaftOK, RaftState
<1>2. RaftOK(q, C) /\ q.id = r.id /\ q.Term = r.Term /\ q.msgs = r.msgs /\ q.Vote = r.Vote
    BY <1>1, ResetOK
<1>3. s = appendEntry(u, Noop)
    BY DEF becomeLeader
<1> HIDE DEF q
<1>4. q \in RaftState
    BY <1>2 DEF RaftOK
<1>5. u \in RaftState
  <2>1. pending \in BOOLEAN /\ panics \in BOOLEAN
      OBVIOUS
  <2> HIDE DEF pending, panics
  <2> QED BY <1>1, <1>4, <2>1 DEF RaftState
<1>6. /\ u.id = q.id /\ u.state = Leader /\ u.Term = q.Term /\ u.Vote = q.Vote
      /\ u.msgs = q.msgs /\ u.ents = q.ents /\ u.committed = q.committed
      /\ u.snapshot = q.snapshot /\ u.nodes = q.nodes
    BY <1>4 DEF RaftState
<1> HIDE DEF u
<1>7. RaftOK(u, C)
    BY <1>2, <1>5, <1>6, SameLogOK
<1>8. Noop \in Entry
    BY DEF Noop, Entry
<1>9. RaftOK(s, C) /\ Quiet(u, s)
    BY <1>3, <1>7, <1>8, AppendEntryOK
<1> HIDE DEF s
<1>10. \A m \in s.msgs : m \in r.msgs \/ PlainMessage(s, m)
    BY <1>2, <1>6, <1>9 DEF Quiet, PlainMessage
<1> QED BY <1>2, <1>6, <1>9, <1>10 DEF Quiet, s

-----------------------------------------------------------------------------
(* raft/raft.go: elections *)

\* The outcomes of poll: the vote was counted before, or it counts for or against.
LEMMA PollOK ==
    ASSUME NEW C, NEW r, RaftOK(r, C), NEW id \in Node, NEW s,
           \/ s = r
           \/ s = [r EXCEPT !.granted = @ \cup {id}]
           \/ s = [r EXCEPT !.rejected = @ \cup {id}]
    PROVE  /\ RaftOK(s, C) /\ s.id = r.id /\ s.Term = r.Term /\ s.Vote = r.Vote
           /\ s.state = r.state /\ s.msgs = r.msgs /\ s.nodes = r.nodes
           /\ s.granted \subseteq r.granted \cup {id}
<1>1. r \in RaftState
    BY DEF RaftOK
<1>2. /\ s.id = r.id /\ s.state = r.state /\ s.Term = r.Term /\ s.Vote = r.Vote
      /\ s.msgs = r.msgs /\ s.ents = r.ents /\ s.committed = r.committed
      /\ s.snapshot = r.snapshot /\ s.nodes = r.nodes
      /\ s.granted \subseteq r.granted \cup {id}
    BY <1>1 DEF RaftState
<1>3. s \in RaftState
    BY <1>1 DEF RaftState
<1>4. RaftOK(s, C)
    BY <1>2, <1>3, SameLogOK
<1> QED BY <1>2, <1>4

\* A campaign moves to the next term, in which the member votes for itself.  It
\* leads only when its own vote is a quorum.
CampaignStep(r, s) ==
    /\ s.id = r.id
    /\ s.Term = r.Term + 1
    /\ s.Vote = r.id
    /\ \/ s.state = Candidate /\ s.granted \subseteq {r.id}
       \/ s.state = Leader /\ \E Q \in SUBSET {r.id} : Cardinality(Q) = quorum(r)
    /\ \A m \in s.msgs : m \in r.msgs \/ PlainMessage(s, m)

\* campaign takes a CampaignStep.
LEMMA CampaignOK ==
    ASSUME NEW C, NEW r, RaftOK(r, C)
    PROVE  RaftOK(campaign(r), C) /\ CampaignStep(r, campaign(r))
<1> DEFINE b == becomeCandidate(r)
           q == poll(b, r.id, TRUE)
           request(p) == [msg(q, "Vote", p) EXCEPT !.index = lastIndex(q),
                                                   !.logTerm = lastTerm(q)]
           new == {request(p) : p \in q.nodes \ {r.id}}
           u == [q EXCEPT !.msgs = @ \cup new]
<1>1. /\ RaftOK(b, C) /\ b.id = r.id /\ b.Term = r.Term + 1 /\ b.Vote = r.id
      /\ b.state = Candidate /\ b.granted = {} /\ b.msgs = r.msgs
    BY BecomeCandidateOK
<1>2. r.id \in Node /\ r.nodes = C /\ r.Term \in Nat
    BY DEF RaftOK, RaftState
<1> HIDE DEF b
<1>3. /\ RaftOK(q, C) /\ q.id = r.id /\ q.Term = r.Term + 1 /\ q.Vote = r.id
      /\ q.state = Candidate /\ q.granted \subseteq {r.id} /\ q.msgs = r.msgs
    <2>1. /\ RaftOK(q, C) /\ q.id = b.id /\ q.Term = b.Term /\ q.Vote = b.Vote
          /\ q.state = b.state /\ q.msgs = b.msgs
          /\ q.granted \subseteq b.granted \cup {r.id}
        <3>1. q = b \/ q = [b EXCEPT !.granted = @ \cup {r.id}]
            BY <1>1 DEF poll, RaftOK, RaftState
        <3> HIDE DEF q
        <3> QED BY <1>1, <1>2, <3>1, PollOK
    <2> HIDE DEF q
    <2> QED BY <1>1, <2>1
<1> HIDE DEF q
<1>4. q \in RaftState /\ q.nodes = C /\ C \subseteq Node
    BY <1>3 DEF RaftOK, RaftState
<1>5. quorum(q) = quorum(r)
    BY <1>2, <1>4 DEF quorum
<1>6. CASE quorum(q) = Cardinality(q.granted)
    <2>1. campaign(r) = becomeLeader(q)
        BY <1>6 DEF campaign, q, b
    <2> DEFINE s == becomeLeader(q)
    <2>2. /\ RaftOK(s, C) /\ s.id = q.id /\ s.Term = q.Term /\ s.Vote = q.Vote
          /\ s.state = Leader
          /\ \A m \in s.msgs : m \in q.msgs \/ PlainMessage(s, m)
        BY <1>3, BecomeLeaderOK
    <2> HIDE DEF s
    <2>3. CampaignStep(r, s)
        BY <1>3, <1>5, <1>6, <2>2 DEF CampaignStep
    <2> QED BY <2>1, <2>2, <2>3 DEF s
<1>7. CASE quorum(q) # Cardinality(q.granted)
    <2>1. campaign(r) = u
        BY <1>7 DEF campaign, q, b
    <2>2. lastIndex(q) \in Nat /\ lastTerm(q) \in Nat
        BY <1>4, LenProperties, TermType DEF lastIndex, lastTerm, RaftState
    <2>3. ASSUME NEW p \in Node
          PROVE  MessageOK(request(p), C) /\ PlainMessage(u, request(p))
        <3>1. msg(q, "Vote", p) \in Message /\ msg(q, "Vote", p).type = "Vote"
              /\ msg(q, "Vote", p).from = q.id
            BY <1>4, MsgType DEF MessageType
        <3>2. request(p) \in Message /\ request(p).type = "Vote" /\ request(p).from = q.id
            BY <2>2, <3>1 DEF Message
        <3>3. u.id = q.id
            BY <1>4 DEF RaftState
        <3> QED BY <3>2, <3>3 DEF MessageOK, PlainMessage, LeaderMessage
    <2>4. \A m \in new : MessageOK(m, C) /\ PlainMessage(u, m)
        BY <1>4, <2>3
    <2> HIDE DEF new
    <2>5. u \in RaftState
        BY <1>4, <2>4 DEF RaftState, MessageOK
    <2>6. /\ u.id = q.id /\ u.state = q.state /\ u.Term = q.Term /\ u.Vote = q.Vote
          /\ u.msgs = q.msgs \cup new /\ u.ents = q.ents /\ u.committed = q.committed
          /\ u.snapshot = q.snapshot /\ u.nodes = q.nodes /\ u.granted = q.granted
        BY <1>4 DEF RaftState
    <2> HIDE DEF u
    <2>7. RaftOK(u, C)
        BY <1>3, <2>4, <2>5, <2>6, SameLogOK
    <2>8. CampaignStep(r, u)
        BY <1>3, <2>4, <2>6 DEF CampaignStep
    <2> QED BY <2>1, <2>7, <2>8
<1> QED BY <1>6, <1>7

\* The answer to a request for a vote: the vote is given when it is free or was
\* given to the same member in this term.
VoteStep(r, s, to) ==
    /\ s.id = r.id
    /\ s.Term = r.Term
    /\ s.state = r.state
    /\ s.granted = r.granted
    /\ s.Vote = r.Vote \/ (r.Vote = None /\ s.Vote = to)
    /\ \A m \in s.msgs : \/ m \in r.msgs
                          \/ /\ m.type = "VoteResp" /\ m.from = r.id /\ m.to = to
                             /\ m.term = r.Term
                             /\ ~m.reject => s.Vote = to

\* The handler of MsgVote takes a VoteStep: one vote in a term.
LEMMA HandleVoteOK ==
    ASSUME NEW C, NEW r, RaftOK(r, C), NEW m \in Message
    PROVE  RaftOK(handleVote(r, m), C) /\ VoteStep(r, handleVote(r, m), m.from)
<1> DEFINE grant == /\ r.state = Follower
                    /\ r.Vote \in {None, m.from}
                    /\ isUpToDate(r, m.index, m.logTerm)
           q == IF grant THEN [r EXCEPT !.Vote = m.from] ELSE r
           x == [msg(q, "VoteResp", m.from) EXCEPT !.reject = ~grant]
           s == handleVote(r, m)
<1>1. r \in RaftState /\ m.from \in Node
    BY DEF RaftOK, Message
<1>2. q \in RaftState
    BY <1>1 DEF RaftState
<1>3. /\ q.id = r.id /\ q.state = r.state /\ q.Term = r.Term /\ q.granted = r.granted
      /\ q.msgs = r.msgs /\ q.ents = r.ents /\ q.committed = r.committed
      /\ q.snapshot = r.snapshot /\ q.nodes = r.nodes
      /\ IF grant THEN r.Vote \in {None, m.from} /\ q.Vote = m.from ELSE q.Vote = r.Vote
    BY <1>1 DEF RaftState
<1>4. s = send(q, x)
    BY DEF handleVote
<1> HIDE DEF q, grant
<1>5. msg(q, "VoteResp", m.from) \in Message /\ msg(q, "VoteResp", m.from).type = "VoteResp"
      /\ msg(q, "VoteResp", m.from).from = q.id /\ msg(q, "VoteResp", m.from).term = q.Term
      /\ msg(q, "VoteResp", m.from).to = m.from
    BY <1>1, <1>2, MsgType DEF MessageType
<1>6. /\ x \in Message /\ x.type = "VoteResp" /\ x.from = q.id /\ x.term = q.Term
      /\ x.to = m.from /\ x.reject = ~grant
    BY <1>5 DEF Message
<1> HIDE DEF x, s
<1>7. s \in RaftState
    BY <1>2, <1>4, <1>6 DEF send, RaftState
<1>8. /\ s.id = q.id /\ s.state = q.state /\ s.Term = q.Term /\ s.granted = q.granted
      /\ s.msgs = q.msgs \cup {x} /\ s.ents = q.ents /\ s.committed = q.committed
      /\ s.snapshot = q.snapshot /\ s.nodes = q.nodes /\ s.Vote = q.Vote
    BY <1>2, <1>4 DEF send, RaftState
<1>9. MessageOK(x, C)
    BY <1>6 DEF MessageOK
<1>10. RaftOK(s, C)
    BY <1>3, <1>7, <1>8, <1>9, SameLogOK
<1>11. VoteStep(r, s, m.from)
    BY <1>3, <1>6, <1>8 DEF VoteStep
<1> QED BY <1>10, <1>11 DEF s

\* What a vote changes at a candidate: it counts once, and the leader is elected
\* by a quorum of counted votes.
CountStep(r, s, m) ==
    /\ s.id = r.id
    /\ s.Term = r.Term
    /\ s.Vote = r.Vote
    /\ \/ s.state = r.state /\ s.granted \subseteq r.granted \cup {p \in {m.from} : ~m.reject}
       \/ s.state = Follower
       \/ /\ s.state = Leader
          /\ \E Q \in SUBSET (r.granted \cup {p \in {m.from} : ~m.reject}) :
                Cardinality(Q) = quorum(r)
    /\ \A x \in s.msgs : x \in r.msgs \/ PlainMessage(s, x)

\* The handler of MsgVoteResp takes a CountStep, and only as a candidate.
LEMMA HandleVoteRespOK ==
    ASSUME NEW C, NEW r, RaftOK(r, C), NEW m \in Message
    PROVE  /\ RaftOK(handleVoteResp(r, m), C)
           /\ CountStep(r, handleVoteResp(r, m), m)
           /\ r.state # Candidate => handleVoteResp(r, m) = r
<1> DEFINE q == poll(r, m.from, ~m.reject)
           l == becomeLeader(q)
           a == bcastAppend(l)
           f == becomeFollower(q, q.Term, None)
<1>1. m.from \in Node
    BY DEF Message
<1>2. /\ RaftOK(q, C) /\ q.id = r.id /\ q.Term = r.Term /\ q.Vote = r.Vote
      /\ q.state = r.state /\ q.msgs = r.msgs /\ q.nodes = r.nodes
      /\ q.granted \subseteq r.granted \cup {p \in {m.from} : ~m.reject}
    <2>1. /\ RaftOK(q, C) /\ q.id = r.id /\ q.Term = r.Term /\ q.Vote = r.Vote
          /\ q.state = r.state /\ q.msgs = r.msgs /\ q.nodes = r.nodes
          /\ q.granted \subseteq r.granted \cup {m.from}
          /\ m.reject => q.granted = r.granted
        <3>1. /\ \/ q = r
                 \/ q = [r EXCEPT !.granted = @ \cup {m.from}]
                 \/ q = [r EXCEPT !.rejected = @ \cup {m.from}]
              /\ m.reject => q.granted = r.granted
            BY DEF poll, RaftOK, RaftState
        <3> HIDE DEF q
        <3> QED BY <1>1, <3>1, PollOK
    <2> HIDE DEF q
    <2> QED BY <2>1
<1>3. handleVoteResp(r, m) =
        CASE r.state # Candidate -> r
          [] r.state = Candidate /\ Cardinality(q.granted) = quorum(q) -> a
          [] /\ r.state = Candidate
             /\ Cardinality(q.granted) # quorum(q)
             /\ Cardinality(q.rejected) = quorum(q) -> f
          [] OTHER -> q
    BY DEF handleVoteResp
<1> HIDE DEF q
<1>4. /\ RaftOK(l, C) /\ l.id = q.id /\ l.Term = q.Term /\ l.Vote = q.Vote /\ l.state = Leader
      /\ \A x \in l.msgs : x \in q.msgs \/ PlainMessage(l, x)
    BY <1>2, BecomeLeaderOK
<1> HIDE DEF l
<1>5. RaftOK(a, C) /\ Quiet(l, a)
    BY <1>4, BcastAppendOK
<1> HIDE DEF a
<1>6. quorum(q) = quorum(r)
    BY <1>2 DEF quorum
<1>7. CASE r.state # Candidate
    BY <1>3, <1>7 DEF CountStep
<1>8. CASE r.state = Candidate /\ Cardinality(q.granted) = quorum(q)
    <2>1. handleVoteResp(r, m) = a
        BY <1>3, <1>8
    <2>2. CountStep(r, a, m)
        BY <1>2, <1>4, <1>5, <1>6, <1>8 DEF CountStep, Quiet, PlainMessage
    <2> QED BY <1>5, <1>8, <2>1, <2>2
<1>9. CASE /\ r.state = Candidate
           /\ Cardinality(q.granted) # quorum(q)
           /\ Cardinality(q.rejected) = quorum(q)
    <2>1. handleVoteResp(r, m) = f
        BY <1>3, <1>9
    <2>2. q.Term \in Nat /\ q.Term >= q.Term
        BY <1>2 DEF RaftOK, RaftState
    <2>3. RaftOK(f, C) /\ Calm(q, f) /\ f.msgs = q.msgs /\ f.state = Follower /\ f.Term = q.Term
        BY <1>2, <2>2, BecomeFollowerOK
    <2> HIDE DEF f
    <2>4. f.Vote = q.Vote /\ f.id = q.id
        BY <2>2, <2>3 DEF Calm
    <2>5. CountStep(r, f, m)
        BY <1>2, <2>3, <2>4 DEF CountStep
    <2> QED BY <1>9, <2>1, <2>3, <2>5
<1>10. CASE /\ r.state = Candidate
            /\ Cardinality(q.granted) # quorum(q)
            /\ Cardinality(q.rejected) # quorum(q)
    <2>1. handleVoteResp(r, m) = q
        BY <1>3, <1>10
    <2> QED BY <1>2, <1>10, <2>1 DEF CountStep
<1> QED BY <1>7, <1>8, <1>9, <1>10

\* The term check of Step is calm and leaves the member at the term of the message.
LEMMA ObserveTermOK ==
    ASSUME NEW C, NEW r, RaftOK(r, C), NEW m \in Message, m.term >= r.Term
    PROVE  LET s == observeTerm(r, m)
           IN  /\ RaftOK(s, C) /\ Calm(r, s) /\ s.msgs = r.msgs /\ s.Term = m.term
               /\ s = r \/ s.state = Follower
<1>a. m.term \in Nat /\ m.from \in Node
    BY DEF Message
<1>b. r.Term \in Nat
    BY DEF RaftOK, RaftState
<1>1. m.term \in Nat /\ m.from \in Node /\ r.Term \in Nat
    BY <1>a, <1>b
<1>2. CASE m.term > r.Term
    <2> DEFINE l == IF m.type = "Vote" THEN None ELSE m.from
    <2>1. observeTerm(r, m) = becomeFollower(r, m.term, l)
        BY <1>2 DEF observeTerm
    <2>2. l \in Node \cup {None}
        BY <1>1
    <2> HIDE DEF l
    <2> QED BY <1>1, <2>1, <2>2, BecomeFollowerOK
<1>3. CASE m.term = r.Term
    BY <1>1, <1>3 DEF observeTerm, Calm
<1> QED BY <1>1, <1>2, <1>3

-----------------------------------------------------------------------------
(* raft/raft.go: replication, the follower's side *)

\* A candidate that hears of the leader gives up calmly.
LEMMA FollowLeaderOK ==
    ASSUME NEW C, NEW r, RaftOK(r, C), NEW m \in Message
    PROVE  LET s == followLeader(r, m)
           IN  RaftOK(s, C) /\ Calm(r, s) /\ s.msgs = r.msgs
<1> DEFINE u == [r EXCEPT !.lead = m.from]
           f == becomeFollower(r, r.Term, m.from)
<1>a. m.from \in Node
    BY DEF Message
<1>b. r \in RaftState /\ r.Term \in Nat /\ r.Term >= r.Term
    BY DEF RaftOK, RaftState
<1>1. r \in RaftState /\ m.from \in Node /\ r.Term \in Nat /\ r.Term >= r.Term
    BY <1>a, <1>b
<1>2. RaftOK(f, C) /\ Calm(r, f) /\ f.msgs = r.msgs
    BY <1>1, BecomeFollowerOK
<1>3. u \in RaftState
    BY <1>1 DEF RaftState
<1>4. /\ u.id = r.id /\ u.state = r.state /\ u.Term = r.Term /\ u.granted = r.granted
      /\ u.msgs = r.msgs /\ u.ents = r.ents /\ u.committed = r.committed
      /\ u.snapshot = r.snapshot /\ u.nodes = r.nodes /\ u.Vote = r.Vote
    BY <1>1 DEF RaftState
<1> HIDE DEF u, f
<1>5. RaftOK(u, C) /\ Calm(r, u)
    BY <1>3, <1>4, SameLogOK DEF Calm
<1>6. RaftOK(r, C) /\ Calm(r, r)
    BY DEF Calm
<1>7. followLeader(r, m) \in {f, u, r}
    BY DEF followLeader, f, u
<1> QED BY <1>2, <1>4, <1>5, <1>6, <1>7

\* An AppResp takes no part in elections.
LEMMA AppRespOK ==
    ASSUME NEW C, NEW r \in RaftState, NEW m \in Message, NEW i \in Nat
    PROVE  /\ MessageOK(appResp(r, m, i), C) /\ PlainMessage(r, appResp(r, m, i))
           /\ appResp(r, m, i) \in Message
           /\ appResp(r, m, i).type = "AppResp" /\ appResp(r, m, i).from = r.id
<1>1. m.from \in Node
    BY DEF Message
<1>2. msg(r, "AppResp", m.from) \in Message /\ msg(r, "AppResp", m.from).type = "AppResp"
      /\ msg(r, "AppResp", m.from).from = r.id
    BY <1>1, MsgType DEF MessageType
<1>3. appResp(r, m, i) \in Message /\ appResp(r, m, i).type = "AppResp"
      /\ appResp(r, m, i).from = r.id
    BY <1>2 DEF appResp, Message
<1> QED BY <1>3 DEF MessageOK, PlainMessage, LeaderMessage

\* handleAppendEntries is quiet.
LEMMA HandleAppendEntriesOK ==
    ASSUME NEW C, NEW r, RaftOK(r, C), NEW m \in Message
    PROVE  RaftOK(handleAppendEntries(r, m), C) /\ Quiet(r, handleAppendEntries(r, m))
<1> DEFINE q == maybeAppend(r, m)
           old == send(r, appResp(r, m, r.committed))
           ok == send(q, appResp(q, m, m.index + Len(m.entries)))
           no == [appResp(r, m, m.index) EXCEPT !.reject = TRUE, !.rejectHint = lastIndex(r)]
<1>a. r \in RaftState /\ r.committed \in Nat /\ lastIndex(r) \in Nat
    BY LenProperties DEF RaftOK, RaftState, lastIndex
<1>b. m.index \in Nat /\ Len(m.entries) \in Nat
    BY LenProperties DEF Message
<1>1. /\ r \in RaftState /\ r.committed \in Nat /\ lastIndex(r) \in Nat
      /\ m.index \in Nat /\ m.index + Len(m.entries) \in Nat
    BY <1>a, <1>b
<1>2. RaftOK(q, C) /\ Quiet(r, q) /\ q \in RaftState
    BY MaybeAppendOK DEF RaftOK
<1> HIDE DEF q
<1>3. RaftOK(old, C) /\ Quiet(r, old)
    BY <1>1, AppRespOK, SendOK
<1>4. RaftOK(ok, C) /\ Quiet(q, ok)
    BY <1>1, <1>2, AppRespOK, SendOK
<1>5. MessageOK(no, C) /\ PlainMessage(r, no)
    <2>1. appResp(r, m, m.index) \in Message /\ appResp(r, m, m.index).type = "AppResp"
          /\ appResp(r, m, m.index).from = r.id
        BY <1>1, AppRespOK
    <2>2. no \in Message /\ no.type = "AppResp" /\ no.from = r.id
        BY <1>1, <2>1 DEF Message
    <2> QED BY <2>2 DEF MessageOK, PlainMessage, LeaderMessage
<1> HIDE DEF no
<1>6. RaftOK(send(r, no), C) /\ Quiet(r, send(r, no))
    BY <1>5, SendOK
<1>7. handleAppendEntries(r, m) \in {old, ok, send(r, no)}
    BY DEF handleAppendEntries, q, no
<1> HIDE DEF old, ok
<1> QED BY <1>2, <1>3, <1>4, <1>6, <1>7, QuietTransitive

\* handleHeartbeat is quiet.
LEMMA HandleHeartbeatOK ==
    ASSUME NEW C, NEW r, RaftOK(r, C), NEW m \in Message
    PROVE  RaftOK(handleHeartbeat(r, m), C) /\ Quiet(r, handleHeartbeat(r, m))
<1> DEFINE q == commitTo(r, m.commit)
           x == msg(r, "HeartbeatResp", m.from)
<1>1. r \in RaftState /\ m.commit \in Nat /\ m.from \in Node
    BY DEF RaftOK, Message
<1>2. RaftOK(q, C) /\ Quiet(r, q)
    BY <1>1, CommitToOK
<1>3. x \in Message /\ x.type = "HeartbeatResp" /\ x.from = r.id
    BY <1>1, MsgType DEF MessageType
<1> HIDE DEF q, x
<1>4. MessageOK(x, C) /\ PlainMessage(q, x)
    BY <1>2, <1>3 DEF MessageOK, PlainMessage, LeaderMessage, Quiet
<1>5. RaftOK(send(q, x), C) /\ Quiet(q, send(q, x))
    BY <1>2, <1>4, SendOK
<1>6. handleHeartbeat(r, m) = send(q, x)
    BY DEF handleHeartbeat, q, x
<1> QED BY <1>2, <1>5, <1>6, QuietTransitive

\* restore replaces the log by the prefix of the snapshot, all of it committed.
LEMMA RestoreOK ==
    ASSUME NEW C, NEW r, RaftOK(r, C), NEW m, MessageOK(m, C), m.type = "Snap"
    PROVE  RaftOK(restore(r, m), C) /\ Quiet(r, restore(r, m))
<1> DEFINE s == restore(r, m)
           last == m.snapshot.index
<1>1. /\ r \in RaftState /\ last \in Nat /\ m.entries \in Seq(Entry) /\ m.snapshot \in Snapshot
      /\ Len(m.entries) = last /\ m.snapshot.nodes = C /\ C \subseteq Node
    BY DEF RaftOK, MessageOK, Message, Snapshot
<1>2. newProgresses(m.snapshot.nodes, r.id, last) \in [Node -> Progress]
    BY <1>1, NewProgressesType
<1>3. s \in RaftState
    <2> DEFINE prs == newProgresses(m.snapshot.nodes, r.id, last)
               snap == m.snapshot
               es == m.entries
    <2>1. s = [r EXCEPT !.ents = es, !.first = last + 1, !.offset = last + 1,
                        !.committed = last, !.snapshot = snap, !.unstableSnap = TRUE,
                        !.nodes = C, !.prs = prs]
        BY <1>1 DEF restore
    <2>2. /\ last \in Nat /\ last + 1 \in Nat \ {0} /\ prs \in [Node -> Progress]
          /\ snap \in Snapshot /\ es \in Seq(Entry) /\ C \in SUBSET Node
        BY <1>1, <1>2
    <2> HIDE DEF s, last, prs, snap, es
    <2> QED BY <1>1, <2>1, <2>2, ZenonT(60) DEF RaftState
<1>4. /\ s.id = r.id /\ s.state = r.state /\ s.Term = r.Term /\ s.granted = r.granted
      /\ s.msgs = r.msgs /\ s.ents = m.entries /\ s.committed = last
      /\ s.snapshot = m.snapshot /\ s.nodes = C /\ s.Vote = r.Vote
    BY <1>1 DEF restore, RaftState
<1> HIDE DEF s
<1>5. RaftOK(s, C)
    BY <1>1, <1>3, <1>4 DEF RaftOK, lastIndex
<1>6. Quiet(r, s)
    BY <1>4 DEF Quiet
<1> QED BY <1>5, <1>6 DEF s

\* handleSnapshot is quiet.
LEMMA HandleSnapshotOK ==
    ASSUME NEW C, NEW r, RaftOK(r, C), NEW m, MessageOK(m, C), m.type = "Snap"
    PROVE  RaftOK(handleSnapshot(r, m), C) /\ Quiet(r, handleSnapshot(r, m))
<1> DEFINE last == m.snapshot.index
           q == commitTo(r, last)
           u == restore(r, m)
           s1 == send(r, appResp(r, m, r.committed))
           s2 == send(q, appResp(q, m, q.committed))
           s3 == send(u, appResp(u, m, lastIndex(u)))
<1>1. m \in Message /\ last \in Nat /\ r \in RaftState /\ r.committed \in Nat
    BY DEF MessageOK, Message, Snapshot, RaftOK, RaftState
<1>2. RaftOK(q, C) /\ Quiet(r, q)
    BY <1>1, CommitToOK
<1>3. RaftOK(u, C) /\ Quiet(r, u)
    BY RestoreOK
<1> HIDE DEF q, u
<1>4. q \in RaftState /\ q.committed \in Nat /\ u \in RaftState /\ lastIndex(u) \in Nat
    BY <1>2, <1>3, LenProperties DEF RaftOK, RaftState, lastIndex
<1>5. RaftOK(s1, C) /\ Quiet(r, s1)
    BY <1>1, AppRespOK, SendOK
<1>6. RaftOK(s2, C) /\ Quiet(q, s2)
    BY <1>1, <1>2, <1>4, AppRespOK, SendOK
<1>7. RaftOK(s3, C) /\ Quiet(u, s3)
    BY <1>1, <1>3, <1>4, AppRespOK, SendOK
<1>8. handleSnapshot(r, m) \in {s1, s2, s3}
    BY DEF handleSnapshot, q, u
<1> HIDE DEF s1, s2, s3
<1> QED BY <1>2, <1>3, <1>5, <1>6, <1>7, <1>8, QuietTransitive

-----------------------------------------------------------------------------
(* raft/raft.go: replication, the leader's side *)

\* A change of one progress is quiet.
LEMMA SetProgressOK ==
    ASSUME NEW C, NEW r, RaftOK(r, C), NEW p \in Node, NEW pr \in Progress
    PROVE  LET s == [r EXCEPT !.prs[p] = pr]
           IN  RaftOK(s, C) /\ Quiet(r, s) /\ s.prs[p] = pr
<1> DEFINE s == [r EXCEPT !.prs[p] = pr]
<1>1. r \in RaftState
    BY DEF RaftOK
<1>2. s \in RaftState /\ s.prs[p] = pr
    BY <1>1 DEF RaftState
<1>3. /\ s.id = r.id /\ s.state = r.state /\ s.Term = r.Term /\ s.granted = r.granted
      /\ s.msgs = r.msgs /\ s.ents = r.ents /\ s.committed = r.committed
      /\ s.snapshot = r.snapshot /\ s.nodes = r.nodes /\ s.Vote = r.Vote
    BY <1>1 DEF RaftState
<1> HIDE DEF s
<1>4. RaftOK(s, C) /\ Quiet(r, s)
    BY <1>2, <1>3, SameLogOK DEF Quiet
<1> QED BY <1>2, <1>4 DEF s

\* Marking a follower as active is quiet.
LEMMA SetActiveOK ==
    ASSUME NEW C, NEW r, RaftOK(r, C), NEW p \in Node
    PROVE  LET s == setActive(r, p)
           IN  RaftOK(s, C) /\ Quiet(r, s) /\ s.prs[p] \in Progress
<1> DEFINE pr == [r.prs[p] EXCEPT !.RecentActive = TRUE]
<1>1. r \in RaftState /\ r.prs[p] \in Progress
    BY DEF RaftOK, RaftState
<1>2. pr \in Progress
    BY <1>1 DEF Progress
<1>3. setActive(r, p) = [r EXCEPT !.prs[p] = pr]
    BY DEF setActive
<1> HIDE DEF pr
<1> QED BY <1>2, <1>3, SetProgressOK

\* The handler of MsgUnreachable is quiet.
LEMMA HandleUnreachableOK ==
    ASSUME NEW C, NEW r, RaftOK(r, C), NEW p \in Node
    PROVE  RaftOK(handleUnreachable(r, p), C) /\ Quiet(r, handleUnreachable(r, p))
<1>1. r.prs[p] \in Progress
    BY DEF RaftOK, RaftState
<1>2. becomeProbe(r.prs[p]) \in Progress
    BY <1>1, BecomeType
<1>3. handleUnreachable(r, p) \in {r, [r EXCEPT !.prs[p] = becomeProbe(r.prs[p])]}
    BY DEF handleUnreachable
<1> DEFINE s == [r EXCEPT !.prs[p] = becomeProbe(r.prs[p])]
<1>4. RaftOK(s, C) /\ Quiet(r, s)
    BY <1>2, SetProgressOK
<1>5. Quiet(r, r)
    BY DEF Quiet
<1> HIDE DEF s
<1> QED BY <1>3, <1>4, <1>5 DEF s

\* The handler of MsgSnapStatus is quiet.
LEMMA HandleSnapStatusOK ==
    ASSUME NEW C, NEW r, RaftOK(r, C), NEW p \in Node, NEW failed
    PROVE  RaftOK(handleSnapStatus(r, p, failed), C) /\ Quiet(r, handleSnapStatus(r, p, failed))
<1> DEFINE pr == r.prs[p]
           aborted == IF failed THEN [pr EXCEPT !.PendingSnapshot = 0] ELSE pr
           done == [becomeProbe(aborted) EXCEPT !.Paused = TRUE]
<1>1. pr \in Progress
    BY DEF RaftOK, RaftState
<1>2. aborted \in Progress
    BY <1>1 DEF Progress
<1>3. becomeProbe(aborted) \in Progress
    <2> HIDE DEF aborted
    <2> QED BY <1>2, BecomeType
<1>4. done \in Progress
    <2> DEFINE b == becomeProbe(aborted)
    <2>1. b \in Progress /\ done = [b EXCEPT !.Paused = TRUE]
        BY <1>3
    <2> HIDE DEF b, done
    <2> QED BY <2>1 DEF Progress
<1>5. handleSnapStatus(r, p, failed) \in {r, [r EXCEPT !.prs[p] = done]}
    BY DEF handleSnapStatus
<1> HIDE DEF done
<1> DEFINE s == [r EXCEPT !.prs[p] = done]
<1>6. RaftOK(s, C) /\ Quiet(r, s)
    BY <1>4, SetProgressOK
<1>7. Quiet(r, r)
    BY DEF Quiet
<1> HIDE DEF s
<1> QED BY <1>5, <1>6, <1>7 DEF s

\* The handler of MsgAppResp is quiet.
LEMMA HandleAppRespOK ==
    ASSUME NEW C, NEW r, RaftOK(r, C), r.state = Leader, NEW m \in Message
    PROVE  RaftOK(handleAppResp(r, m), C) /\ Quiet(r, handleAppResp(r, m))
<1> DEFINE r1 == setActive(r, m.from)
           pr == r1.prs[m.from]
           decr == maybeDecrTo(pr, m.index, m.rejectHint)
           upd == maybeUpdate(pr, m.index)
           moved == CASE pr.State = "Probe" -> becomeReplicate(upd)
                      [] pr.State = "Snapshot" ->
                           IF upd.Match >= pr.PendingSnapshot THEN becomeProbe(upd) ELSE upd
                      [] pr.State = "Replicate" -> freeTo(upd, m.index)
           back == IF pr.State = "Replicate" THEN becomeProbe(decr) ELSE decr
           rejected == [r1 EXCEPT !.prs[m.from] = back]
           known == [r1 EXCEPT !.prs[m.from] = upd]
           r2 == [r1 EXCEPT !.prs[m.from] = moved]
<1>1. m.from \in Node /\ m.index \in Nat /\ m.rejectHint \in Nat
    BY DEF Message
<1>2. handleAppResp(r, m) \in {r1, sendAppend(rejected, m.from), known,
                              bcastAppend(maybeCommit(r2)), sendAppend(r2, m.from), r2}
    BY DEF handleAppResp
<1>3. RaftOK(r1, C) /\ Quiet(r, r1) /\ pr \in Progress
    BY <1>1, SetActiveOK
<1> HIDE DEF r1, pr
<1>4. upd \in Progress /\ decr \in Progress
    BY <1>1, <1>3, UpdateType
<1> HIDE DEF upd, decr
<1>5. pr.State \in {"Probe", "Replicate", "Snapshot"}
    BY <1>3 DEF Progress
<1>6. back \in Progress
    BY <1>4, BecomeType
<1>7. moved \in Progress
    <2>1. becomeReplicate(upd) \in Progress /\ becomeProbe(upd) \in Progress
          /\ freeTo(upd, m.index) \in Progress
        BY <1>4, BecomeType, FreeToType
    <2> QED BY <1>4, <1>5, <2>1
<1> HIDE DEF moved, back
<1>8. /\ RaftOK(rejected, C) /\ Quiet(r1, rejected) /\ RaftOK(known, C) /\ Quiet(r1, known)
      /\ RaftOK(r2, C) /\ Quiet(r1, r2)
    BY <1>1, <1>3, <1>4, <1>6, <1>7, SetProgressOK
<1> HIDE DEF rejected, known, r2
<1>9. r1.state = Leader /\ rejected.state = Leader /\ r2.state = Leader
    BY <1>3, <1>8 DEF Quiet
<1>10. /\ RaftOK(sendAppend(rejected, m.from), C) /\ Quiet(rejected, sendAppend(rejected, m.from))
       /\ RaftOK(sendAppend(r2, m.from), C) /\ Quiet(r2, sendAppend(r2, m.from))
    BY <1>1, <1>8, <1>9, SendAppendOK
<1> DEFINE c == maybeCommit(r2)
<1>11. RaftOK(c, C) /\ Quiet(r2, c)
    BY <1>8, MaybeCommitOK
<1> HIDE DEF c
<1>12. RaftOK(bcastAppend(c), C) /\ Quiet(c, bcastAppend(c))
    BY <1>9, <1>11, BcastAppendOK DEF Quiet
<1>13. Quiet(r, rejected) /\ Quiet(r, known) /\ Quiet(r, r2) /\ Quiet(r, c)
    BY <1>3, <1>8, <1>11, QuietTransitive
<1>14. /\ Quiet(r, sendAppend(rejected, m.from)) /\ Quiet(r, sendAppend(r2, m.from))
       /\ Quiet(r, bcastAppend(c))
    BY <1>10, <1>12, <1>13, QuietTransitive
<1>15. handleAppResp(r, m) \in {r1, sendAppend(rejected, m.from), known,
                               bcastAppend(c), sendAppend(r2, m.from), r2}
    BY <1>2 DEF c
<1> QED BY <1>3, <1>8, <1>10, <1>12, <1>13, <1>14, <1>15

\* The handler of MsgHeartbeatResp is quiet.
LEMMA HandleHeartbeatRespOK ==
    ASSUME NEW C, NEW r, RaftOK(r, C), r.state = Leader, NEW m \in Message
    PROVE  RaftOK(handleHeartbeatResp(r, m), C) /\ Quiet(r, handleHeartbeatResp(r, m))
<1> DEFINE r1 == setActive(r, m.from)
           pr == r1.prs[m.from]
           free == freeTo(pr, pr.ins[1])
           u == [r1 EXCEPT !.prs[m.from] = free]
           r2 == IF pr.State = "Replicate" /\ Len(pr.ins) = MaxInflight THEN u ELSE r1
<1>1. m.from \in Node
    BY DEF Message
<1>2. handleHeartbeatResp(r, m) \in {sendAppend(r2, m.from), r2}
    BY DEF handleHeartbeatResp
<1>3. RaftOK(r1, C) /\ Quiet(r, r1) /\ pr \in Progress
    BY <1>1, SetActiveOK
<1> HIDE DEF r1, pr
<1>4. free \in Progress
    BY <1>3, FreeToType
<1> HIDE DEF free
<1>5. RaftOK(u, C) /\ Quiet(r1, u)
    BY <1>1, <1>3, <1>4, SetProgressOK
<1> HIDE DEF u
<1>6. RaftOK(r2, C) /\ Quiet(r, r2)
    BY <1>3, <1>5, QuietTransitive
<1> HIDE DEF r2
<1>7. RaftOK(sendAppend(r2, m.from), C) /\ Quiet(r2, sendAppend(r2, m.from))
    BY <1>1, <1>6, SendAppendOK DEF Quiet
<1>8. Quiet(r, sendAppend(r2, m.from))
    BY <1>6, <1>7, QuietTransitive
<1> QED BY <1>2, <1>6, <1>7, <1>8

\* A proposal at the leader is quiet.
LEMMA HandlePropOK ==
    ASSUME NEW C, NEW r, RaftOK(r, C), r.state = Leader, NEW e \in Entry
    PROVE  RaftOK(handleProp(r, e), C) /\ Quiet(r, handleProp(r, e))
<1> DEFINE e1 == IF IsConfChange(e) /\ r.pendingConf THEN Noop ELSE e
           q == [r EXCEPT !.pendingConf = @ \/ IsConfChange(e)]
           a == appendEntry(q, e1)
<1>1. r \in RaftState
    BY DEF RaftOK
<1>2. e1 \in Entry
    BY DEF Noop, Entry
<1>3. q \in RaftState
    BY <1>1, ZenonT(60) DEF RaftState
<1>4. /\ q.id = r.id /\ q.state = r.state /\ q.Term = r.Term /\ q.granted = r.granted
      /\ q.msgs = r.msgs /\ q.ents = r.ents /\ q.committed = r.committed
      /\ q.snapshot = r.snapshot /\ q.nodes = r.nodes /\ q.Vote = r.Vote
    BY <1>1 DEF RaftState
<1>5. handleProp(r, e) \in {r, bcastAppend(a)}
    BY DEF handleProp
<1> HIDE DEF q, e1
<1>6. RaftOK(q, C) /\ Quiet(r, q)
    BY <1>3, <1>4, SameLogOK DEF Quiet
<1>7. RaftOK(a, C) /\ Quiet(q, a)
    BY <1>2, <1>6, AppendEntryOK
<1> HIDE DEF a
<1>8. RaftOK(bcastAppend(a), C) /\ Quiet(a, bcastAppend(a))
    BY <1>4, <1>7, BcastAppendOK DEF Quiet
<1>9. Quiet(r, bcastAppend(a)) /\ Quiet(r, r)
    <2>1. Quiet(r, a)
        BY <1>6, <1>7, QuietTransitive
    <2> QED BY <1>8, <2>1, QuietTransitive DEF Quiet
<1> QED BY <1>5, <1>8, <1>9

\* A leader that loses its quorum steps down calmly.
LEMMA HandleCheckQuorumOK ==
    ASSUME NEW C, NEW r, RaftOK(r, C)
    PROVE  RaftOK(handleCheckQuorum(r), C) /\ Calm(r, handleCheckQuorum(r))
<1> DEFINE prs == [p \in Node |-> IF p = r.id THEN r.prs[p]
                                 ELSE [r.prs[p] EXCEPT !.RecentActive = FALSE]]
           q == [r EXCEPT !.prs = prs]
           f == becomeFollower(q, q.Term, None)
<1>1. r \in RaftState
    BY DEF RaftOK
<1>2. prs \in [Node -> Progress]
    <2>1. \A p \in Node : r.prs[p] \in Progress
        BY <1>1 DEF RaftState
    <2>2. \A p \in Node : [r.prs[p] EXCEPT !.RecentActive = FALSE] \in Progress
        BY <2>1 DEF Progress
    <2> QED BY <2>1, <2>2
<1>3. handleCheckQuorum(r) \in {q, f}
    BY <1>1 DEF handleCheckQuorum, RaftState
<1> HIDE DEF prs
<1>4. q \in RaftState
    BY <1>1, <1>2 DEF RaftState
<1>5. /\ q.id = r.id /\ q.state = r.state /\ q.Term = r.Term /\ q.granted = r.granted
      /\ q.msgs = r.msgs /\ q.ents = r.ents /\ q.committed = r.committed
      /\ q.snapshot = r.snapshot /\ q.nodes = r.nodes /\ q.Vote = r.Vote
    BY <1>1 DEF RaftState
<1> HIDE DEF q
<1>6. RaftOK(q, C) /\ Calm(r, q)
    BY <1>4, <1>5, SameLogOK DEF Calm
<1>7. q.Term \in Nat /\ q.Term >= q.Term
    BY <1>4 DEF RaftState
<1>8. RaftOK(f, C) /\ Calm(q, f) /\ f.msgs = q.msgs /\ f.state = Follower /\ f.Term = q.Term
    BY <1>6, <1>7, BecomeFollowerOK
<1> HIDE DEF f
<1>9. Calm(r, f)
    BY <1>5, <1>7, <1>8 DEF Calm
<1> QED BY <1>3, <1>6, <1>8, <1>9

-----------------------------------------------------------------------------
(* raft/raft.go: Step, start *)

\* What Step does before the handler of a message of a leader is calm.
LEMMA FromLeaderOK ==
    ASSUME NEW C, NEW r, RaftOK(r, C), NEW m \in Message, m.term >= r.Term
    PROVE  RaftOK(fromLeader(r, m), C) /\ Calm(r, fromLeader(r, m))
<1> DEFINE q == observeTerm(r, m)
           s == followLeader(q, m)
<1>1. RaftOK(q, C) /\ Calm(r, q) /\ q.msgs = r.msgs
    BY ObserveTermOK
<1> HIDE DEF q
<1>2. RaftOK(s, C) /\ Calm(q, s) /\ s.msgs = q.msgs
    BY <1>1, FollowLeaderOK
<1> HIDE DEF s
<1>3. r.Term \in Nat /\ q.Term \in Nat /\ s.Term \in Nat
    BY <1>1, <1>2 DEF RaftOK, RaftState
<1>4. Calm(r, s)
    BY <1>1, <1>2, <1>3 DEF Calm
<1> QED BY <1>2, <1>4 DEF fromLeader, s, q

\* The messages of a leader: none of them takes part in an election.
LEMMA RecvFromLeaderOK ==
    ASSUME NEW C, NEW r, RaftOK(r, C), NEW m, MessageOK(m, C), m.term >= r.Term
    PROVE  /\ RaftOK(recvApp(r, m), C) /\ Calm(r, recvApp(r, m))
           /\ RaftOK(recvHeartbeat(r, m), C) /\ Calm(r, recvHeartbeat(r, m))
           /\ m.type = "Snap" => RaftOK(recvSnap(r, m), C) /\ Calm(r, recvSnap(r, m))
<1> DEFINE q == fromLeader(r, m)
<1>1. m \in Message
    BY DEF MessageOK
<1>2. RaftOK(q, C) /\ Calm(r, q)
    BY <1>1, FromLeaderOK
<1>3. /\ recvApp(r, m) \in {q, handleAppendEntries(q, m)}
      /\ recvHeartbeat(r, m) \in {q, handleHeartbeat(q, m)}
      /\ recvSnap(r, m) \in {q, handleSnapshot(q, m)}
    BY DEF recvApp, recvHeartbeat, recvSnap
<1> HIDE DEF q
<1>4. RaftOK(handleAppendEntries(q, m), C) /\ Calm(r, handleAppendEntries(q, m))
    BY <1>1, <1>2, HandleAppendEntriesOK, CalmQuiet
<1>5. RaftOK(handleHeartbeat(q, m), C) /\ Calm(r, handleHeartbeat(q, m))
    BY <1>1, <1>2, HandleHeartbeatOK, CalmQuiet
<1>6. m.type = "Snap" => RaftOK(handleSnapshot(q, m), C) /\ Calm(r, handleSnapshot(q, m))
    BY <1>2, HandleSnapshotOK, CalmQuiet
<1> QED BY <1>2, <1>3, <1>4, <1>5, <1>6

\* The answers of a follower.
LEMMA RecvFromFollowerOK ==
    ASSUME NEW C, NEW r, RaftOK(r, C), NEW m \in Message, m.term >= r.Term
    PROVE  /\ RaftOK(recvAppResp(r, m), C) /\ Calm(r, recvAppResp(r, m))
           /\ RaftOK(recvHeartbeatResp(r, m), C) /\ Calm(r, recvHeartbeatResp(r, m))
<1> DEFINE q == observeTerm(r, m)
<1>1. RaftOK(q, C) /\ Calm(r, q)
    BY ObserveTermOK
<1>2. /\ recvAppResp(r, m) = IF q.state = Leader THEN handleAppResp(q, m) ELSE q
      /\ recvHeartbeatResp(r, m) = IF q.state = Leader THEN handleHeartbeatResp(q, m) ELSE q
    BY DEF recvAppResp, recvHeartbeatResp
<1> HIDE DEF q
<1>3. q.state = Leader => RaftOK(handleAppResp(q, m), C) /\ Calm(r, handleAppResp(q, m))
    BY <1>1, HandleAppRespOK, CalmQuiet
<1>4. q.state = Leader => RaftOK(handleHeartbeatResp(q, m), C) /\ Calm(r, handleHeartbeatResp(q, m))
    BY <1>1, HandleHeartbeatRespOK, CalmQuiet
<1> QED BY <1>1, <1>2, <1>3, <1>4

\* newRaft restores term and vote from the HardState, and starts as a follower.
LEMMA NewRaftOK ==
    ASSUME NEW id \in Node, NEW hs, hs.Term \in Nat, hs.Vote \in Node \cup {None},
           NEW snap \in Snapshot, NEW ents \in Seq(Entry),
           hs.Commit \in snap.index..Len(ents)
    PROVE  LET s == newRaft(id, hs, snap, ents)
           IN  /\ RaftOK(s, snap.nodes) /\ s.id = id /\ s.Term = hs.Term /\ s.Vote = hs.Vote
               /\ s.state = Follower /\ s.msgs = {} /\ s.committed = hs.Commit
               /\ s.applied = snap.index
<1> DEFINE r == [id |-> id, Term |-> hs.Term, Vote |-> hs.Vote, state |-> Follower,
                 lead |-> None, granted |-> {}, rejected |-> {},
                 nodes |-> snap.nodes, prs |-> [p \in Node |-> noProgress],
                 pendingConf |-> FALSE, msgs |-> {}, ents |-> ents,
                 first |-> snap.index + 1, offset |-> Len(ents) + 1,
                 committed |-> hs.Commit, applied |-> snap.index,
                 snapshot |-> snap, unstableSnap |-> FALSE,
                 panicked |-> hs.Commit \notin snap.index..Len(ents)]
           s == becomeFollower(r, r.Term, None)
<1>1. newRaft(id, hs, snap, ents) = s
    BY DEF newRaft
<1>2. /\ snap.index \in Nat /\ Len(ents) \in Nat /\ snap.nodes \in SUBSET Node
      /\ snap.index + 1 \in Nat \ {0} /\ Len(ents) + 1 \in Nat \ {0} /\ hs.Commit \in Nat
      /\ snap.index <= hs.Commit /\ hs.Commit <= Len(ents)
    BY LenProperties DEF Snapshot
<1>3. [p \in Node |-> noProgress] \in [Node -> Progress]
    BY NewProgressType DEF noProgress
<1>4. r \in RaftState
    BY <1>2, <1>3 DEF RaftState, Follower
<1>5. /\ r.id = id /\ r.Term = hs.Term /\ r.Vote = hs.Vote /\ r.msgs = {}
      /\ r.ents = ents /\ r.committed = hs.Commit /\ r.applied = snap.index
      /\ r.snapshot = snap /\ r.nodes = snap.nodes
    OBVIOUS
<1> HIDE DEF r
<1>6. RaftOK(r, snap.nodes)
    BY <1>2, <1>4, <1>5 DEF RaftOK, lastIndex
<1>7. RaftOK(s, snap.nodes) /\ Calm(r, s) /\ s.msgs = r.msgs /\ s.state = Follower /\ s.Term = r.Term
    BY <1>5, <1>6, BecomeFollowerOK
<1>8. s.committed = r.committed /\ s.applied = r.applied
    BY <1>4 DEF becomeFollower, reset, RaftState
<1> HIDE DEF s
<1>9. s.id = r.id /\ s.Vote = r.Vote
    BY <1>5, <1>7 DEF Calm
<1> QED BY <1>1, <1>5, <1>7, <1>8, <1>9

=============================================================================
