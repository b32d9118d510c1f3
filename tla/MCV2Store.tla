----------------------------- MODULE MCV2Store ------------------------------
(***************************************************************************)
(* The v2 store for TLC: a directory a with a key x and a hidden key, and a  *)
(* key whose name begins like that of the directory.                         *)
(***************************************************************************)
EXTENDS V2Store

A  == <<"a">>
X  == <<"a", "x">>
AB == <<"ab">>
H  == <<"a", "_h">>

HiddenNames == {"_h"}
LongerNames == {<<"a", "ab">>}
UniqueNames == <<"1", "2", "3", "4", "5">>

Plain(method, path) ==
  [method |-> method, path |-> path, dir |-> FALSE, recursive |-> FALSE, val |-> "v",
   prevExist |-> "unset", prevValue |-> "", prevIndex |-> 0, refresh |-> FALSE,
   expiration |-> 0, time |-> 0]

PutUntil(path, t) == [Plain("PUT", path) EXCEPT !.expiration = t]

Requests ==
  {Plain("POST", A), Plain("PUT", X), PutUntil(X, 1), PutUntil(AB, 2), Plain("PUT", H),
   [PutUntil(A, 3) EXCEPT !.dir = TRUE, !.prevExist = "no"],
   [PutUntil(A, 4) EXCEPT !.val = "", !.prevExist = "yes"],
   [Plain("PUT", AB) EXCEPT !.prevExist = "yes"],
   [PutUntil(X, 5) EXCEPT !.refresh = TRUE],
   [PutUntil(X, 5) EXCEPT !.prevIndex = 2],
   [Plain("DELETE", A) EXCEPT !.recursive = TRUE],
   [Plain("DELETE", X) EXCEPT !.prevValue = "v"],
   [Plain("SYNC", <<>>) EXCEPT !.time = 2]}

WatchOf(path, recursive, stream, since) ==
  [path |-> path, recursive |-> recursive, stream |-> stream, since |-> since]

Watches ==
  {WatchOf(X, FALSE, FALSE, 0), WatchOf(X, FALSE, FALSE, 2), WatchOf(X, FALSE, TRUE, 0),
   WatchOf(A, TRUE, FALSE, 2), WatchOf(<<>>, TRUE, TRUE, 0), WatchOf(AB, FALSE, FALSE, 2)}

(* No two nodes expire at the same time.                                     *)
NoTies == \A p, q \in DOMAIN st.nodes :
            st.nodes[p].expire = st.nodes[q].expire => p = q \/ st.nodes[p].expire = 0

(* Either another member is looked at, or a watcher until it is removed.     *)
OneObserver == /\ peer = NoStore \/ \A x \in Watcher : w[x] = NoWatcher
               /\ \A x \in Watcher : w[x].state # "closed"

=============================================================================
