----------------------------- MODULE MCKVStore ------------------------------
(* Instances of KVStore.                                                    *)
EXTENDS KVStore

CONSTANTS l1, l2

Put(k, l) == [type |-> "put", key |-> k, lease |-> l]
Delete(K) == [type |-> "delete", keys |-> K]
CompactAt(r) == [type |-> "compact", rev |-> r]
GrantOf(l) == [type |-> "grant", lease |-> l]
RevokeOf(l) == [type |-> "revoke", lease |-> l]

(* Versions of one key, a transaction that writes two keys or deletes and    *)
(* recreates one at one revision, and compactions.                           *)
History == {Put(1, NoLease), Delete({1}), CompactAt(2), CompactAt(3),
            [type |-> "txn", absent |-> 1, success |-> <<Put(1, NoLease), Put(2, NoLease)>>,
             failure |-> <<Delete({1, 2}), Put(1, NoLease)>>]}

(* A key that is leased, and one that is not.                                *)
Leases == {GrantOf(l1), RevokeOf(l1), GrantOf(l2), Put(1, l1), Put(1, l2), Put(1, NoLease), Delete({1})}

Requests == History \cup Leases

(* A lease is granted once, before it is used, and not used after its end.   *)
Position(r) == {i \in DOMAIN log : log[i] = r}
Granted(i, l) == /\ \E g \in Position(GrantOf(l)) : g < i
                 /\ \A e \in Position(RevokeOf(l)) : e >= i
LeasesInOrder ==
  \A i \in DOMAIN log :
    /\ log[i].type = "put" => log[i].lease = NoLease \/ Granted(i, log[i].lease)
    /\ log[i].type = "revoke" => Granted(i, log[i].lease)
    /\ log[i].type = "grant" => Position(log[i]) = {i}

(* Bound: histories begin with a version of the first key; the others begin  *)
(* with two leases, and receive no snapshot.                                 *)
StartsWith(es) == IsPrefix(log, es) \/ IsPrefix(es, log)
OneKind ==
  \/ ToSet(log) \subseteq History /\ StartsWith(<<Put(1, NoLease)>>)
  \/ /\ ToSet(log) \subseteq Leases /\ LeasesInOrder /\ st.rd = "watchable"
     /\ StartsWith(<<GrantOf(l1), GrantOf(l2)>>)

(* The newest revision is not compacted.                                     *)
NewestKept == st'.compacted # st.compacted => st'.compacted < st'.rev.main

(* No key has changed its lease before a restart.                            *)
NoStaleItems == \A l \in DOMAIN st.leases : \A k \in st.leases[l] : LeaseAt(st, be, k, st.rev.main) = l
ExactRestarts == faults' # faults => NoStaleItems'
=============================================================================
