----------------------------- MODULE KVHistory ------------------------------
(***************************************************************************)
(* What the v3 store promises: the log of requests determines a history, one *)
(* map from keys to versions for every revision, whatever is compacted,      *)
(* committed late, lost in a crash and replayed.  A request that changes     *)
(* nothing makes no revision, a transaction makes one, and the end of a      *)
(* lease makes one for each of its keys.                                     *)
(***************************************************************************)
EXTENDS Integers, Sequences, SequencesExt

CONSTANTS NoLease

Empty == [hist |-> << [k \in {} |-> k] >>, leases |-> {}]

Current(h) == Last(h.hist)

PutVersion(m, k, l, v, rev) ==
  LET old == k \in DOMAIN m
      new == [val |-> v, lease |-> l, mod |-> rev,
              create |-> IF old THEN m[k].create ELSE rev,
              ver |-> IF old THEN m[k].ver + 1 ELSE 1]
  IN [x \in DOMAIN m \cup {k} |-> IF x = k THEN new ELSE m[x]]

Drop(m, K) == [x \in DOMAIN m \ K |-> m[x]]

OpResult(m, op, v, rev) ==
  IF op.type = "put" THEN PutVersion(m, op.key, op.lease, v, rev) ELSE Drop(m, op.keys)

(* The operations of a request, by the state it finds.                      *)
Chosen(h, r) == IF r.type # "txn" THEN <<r>>
                ELSE IF r.absent \in DOMAIN Current(h) THEN r.failure ELSE r.success

(* Whether an operation changes the map it finds.                           *)
Writes(m, op) == op.type = "put" \/ op.keys \cap DOMAIN m # {}

Transact(h, r, v) ==
  LET ops == Chosen(h, r)
      rev == Len(h.hist) + 1
      end == FoldLeft(LAMBDA x, op : [map |-> OpResult(x.map, op, v, rev),
                                      writes |-> x.writes \/ Writes(x.map, op)],
                      [map |-> Current(h), writes |-> FALSE], ops)
      known == \A i \in DOMAIN ops : ops[i].type = "put" => ops[i].lease \in h.leases \cup {NoLease}
  IN IF known /\ end.writes THEN [h EXCEPT !.hist = Append(@, end.map)] ELSE h

EndLease(h, l) ==
  LET m == Current(h)
      K == SetToSortSeq({k \in DOMAIN m : m[k].lease = l}, <)
  IN IF l \notin h.leases THEN h
     ELSE [hist   |-> h.hist \o [i \in DOMAIN K |-> Drop(m, ToSet(SubSeq(K, 1, i)))],
           leases |-> h.leases \ {l}]

Step(h, r, v) ==
  CASE r.type = "grant"   -> [h EXCEPT !.leases = @ \cup {r.lease}]
    [] r.type = "revoke"  -> EndLease(h, r.lease)
    [] r.type = "compact" -> h
    [] OTHER              -> Transact(h, r, v)

(* The history after the requests es.                                       *)
History(es) == FoldLeft(LAMBDA h, i : Step(h, es[i], i), Empty, [i \in DOMAIN es |-> i])
=============================================================================
