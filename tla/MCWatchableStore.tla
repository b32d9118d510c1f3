-------------------------- MODULE MCWatchableStore --------------------------
(***************************************************************************)
(* Watchers of a store of two keys for TLC.                                  *)
(***************************************************************************)
EXTENDS WatchableStore

(* Of one key from now on, and of both from the first change on.             *)
Requests == {[keys |-> {1}, start |-> 0], [keys |-> {1, 2}, start |-> 2]}

(* The changes put key 1; one of them deletes it, or puts both keys.         *)
Special == {hist[i].rev : i \in {i \in DOMAIN hist : hist[i].del \/ hist[i].key = 2}}

Simple == /\ Cardinality(Special) <= 1
          /\ \A i \in DOMAIN hist : hist[i].key = 2 => i > 1 /\ hist[i - 1].rev = hist[i].rev

(* The first watcher is the one of both keys.                                *)
InTurn == /\ recv.id = 1 => recv.keys = {1, 2}
          /\ recv.id = 2 => recv.keys = {1}
=============================================================================
