------------------------------ MODULE Inflights ------------------------------
(***************************************************************************)
(* The ring buffer that bounds the MsgApp messages a leader may have in    *)
(* flight to one follower: type inflights of raft/progress.go.  The        *)
(* indexes are reused without being cleared, so that a wrong wrap-around   *)
(* would show a stale index as if it were in flight.                       *)
(***************************************************************************)
EXTENDS Integers, Sequences

CONSTANTS
    Size,      \* Config.MaxInflightMsgs
    MaxIndex   \* bound on the log indexes that are sent

ASSUME SizeAssumption == Size \in Nat \ {0}
ASSUME MaxIndexAssumption == MaxIndex \in Nat

VARIABLES
    start,     \* position in the buffer of the oldest index in flight
    count,     \* how many indexes are in flight
    buffer,    \* positions are 0..Size-1, as in Go
    acknowledged   \* history: the argument of the last freeTo

vars == <<start, count, buffer, acknowledged>>

\* "if next >= in.size { next -= in.size }"
Wrap(pos) == IF pos >= Size THEN pos - Size ELSE pos

\* The k-th oldest index in flight, for k in 0..count-1.
Flight(k) == buffer[Wrap(start + k)]

full == count = Size

newInflights == /\ start = 0
                /\ count = 0
                /\ buffer = [pos \in 0..(Size - 1) |-> 0]
                /\ acknowledged = 0

\* sendAppend adds the last index of the message it sends, after isPaused has
\* excluded a full window.  Next has passed every index in flight already.
add(x) == /\ ~full
          /\ \A k \in 0..(count - 1) : Flight(k) < x
          /\ buffer' = [buffer EXCEPT ![Wrap(start + count)] = x]
          /\ count' = count + 1
          /\ UNCHANGED <<start, acknowledged>>

\* The loop stops at the first flight that is larger than to.
Acked(to, i) == /\ \A k \in 0..(i - 1) : Flight(k) <= to
                /\ i = count \/ to < Flight(i)

\* Mutants of freeTo: the slots are not given back; the last flight is kept.
freeToKeepingCount(to) == \E i \in 0..count :
                            /\ Acked(to, i)
                            /\ start' = Wrap(start + i)
                            /\ acknowledged' = to
                            /\ UNCHANGED <<count, buffer>>
freeToAllButOne(to) == \E i \in 0..count :
                         /\ Acked(to, i)
                         /\ count' = IF i = 0 THEN count ELSE count - i + 1
                         /\ start' = IF i = 0 THEN start ELSE Wrap(start + i - 1)
                         /\ acknowledged' = to
                         /\ UNCHANGED buffer

freeTo(to) == \E i \in 0..count :
                /\ Acked(to, i)
                /\ count' = count - i
                /\ start' = Wrap(start + i)
                /\ acknowledged' = to
                /\ UNCHANGED buffer

\* A heartbeat response frees one slot of a full window.
freeFirstOne == full /\ freeTo(buffer[start])

reset == /\ count' = 0
         /\ start' = 0
         /\ UNCHANGED <<buffer, acknowledged>>

Init == newInflights

Next == \/ \E x \in 1..MaxIndex : add(x)
        \/ \E to \in 0..MaxIndex : freeTo(to)
        \/ freeFirstOne
        \/ reset

Spec == Init /\ [][Next]_vars

-----------------------------------------------------------------------------
(* Properties *)

\* The buffer positions and the number of flights stay inside the buffer.
TypeOK == /\ start \in 0..(Size - 1)
          /\ count \in 0..Size
          /\ buffer \in [0..(Size - 1) -> Nat]

\* The flights are in increasing order from start on, whatever the wrap-around:
\* freeTo stops at the first flight larger than the acknowledged index, and
\* would keep an acknowledged one, or free a pending one, were they not sorted.
FlightsAscend == \A j, k \in 0..(count - 1) : j < k => Flight(j) < Flight(k)

\* The ring buffer implements the FIFO window: the flights, oldest first.
InFlight == [k \in 1..count |-> Flight(k - 1)]

Window == INSTANCE InflightWindow WITH window <- InFlight

\* Every add, freeTo, freeFirstOne and reset is a push, an acknowledgement, the
\* loss of the oldest index or a clear of the abstract window; freeTo(to) drops
\* the indexes up to to and no other one.
ImplementsWindow == Window!Spec
=============================================================================
