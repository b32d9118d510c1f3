--------------------------- MODULE InflightWindow ---------------------------
(***************************************************************************)
(* What a leader relies on when it limits the MsgApp messages in flight to *)
(* one follower: a FIFO window of at most Size log indexes.  An index is   *)
(* pushed when a message that ends at that index is sent; acknowledging an *)
(* index drops every index of the window that is not greater than it, and  *)
(* no other one.                                                           *)
(* Module Inflights shows that the ring buffer of raft/progress.go is an   *)
(* implementation of this window.                                          *)
(***************************************************************************)
EXTENDS Integers, Sequences

CONSTANTS
    Size,      \* capacity of the window (Config.MaxInflightMsgs)
    MaxIndex   \* bound on the log indexes that are sent

VARIABLES
    window,
    acknowledged   \* the last index that was acknowledged

vars == <<window, acknowledged>>

Init == window = << >> /\ acknowledged = 0

\* An index is sent after all the indexes that are still in flight.
Push == /\ Len(window) < Size
        /\ \E x \in 1..MaxIndex :
              /\ \A j \in DOMAIN window : window[j] < x
              /\ window' = Append(window, x)
        /\ UNCHANGED acknowledged

\* The k oldest indexes are acknowledged by to, and no other one is.
Ack == \E to \in 0..MaxIndex, k \in 0..Len(window) :
          /\ \A j \in 1..k : window[j] <= to
          /\ \A j \in (k + 1)..Len(window) : to < window[j]
          /\ window' = SubSeq(window, k + 1, Len(window))
          /\ acknowledged' = to

DropOldest == /\ window # << >>
              /\ window' = Tail(window)
              /\ acknowledged' = Head(window)

Clear == window' = << >> /\ UNCHANGED acknowledged

Next == Push \/ Ack \/ DropOldest \/ Clear

Spec == Init /\ [][Next]_vars
=============================================================================
