------------------------------ MODULE KeyIndex ------------------------------
(***************************************************************************)
(* The index of the v3 store: for every key the revisions of its versions,  *)
(* split into generations that a tombstone ends (src/storage/key_index.go). *)
(* The tree of src/storage/index.go is a function from the keys it holds to *)
(* their keyIndex.  A revision is [main, sub].                              *)
(***************************************************************************)
EXTENDS Integers, Sequences, SequencesExt, FiniteSets

GreaterThan(a, b) == a.main > b.main \/ (a.main = b.main /\ a.sub > b.sub)

NotFound == [found |-> FALSE]
ZeroRev  == [main |-> 0, sub |-> 0]
NewGen   == [ver |-> 0, created |-> ZeroRev, revs |-> <<>>]

(* The keyIndex of a key that is not in the tree, before its first version. *)
NewKeyIndex == [modified |-> ZeroRev, generations |-> <<>>]

IsEmptyGen(g) == g.revs = <<>>
IsEmpty(ki) == Len(ki.generations) = 1 /\ IsEmptyGen(ki.generations[1])

(* keyIndex.put: the revision is added to the last generation; one that is  *)
(* not newer than the last modification panics.                             *)
CanPut(idx, k, rev) == k \in DOMAIN idx => GreaterThan(rev, idx[k].modified)

AddRev(g, rev) == [ver     |-> g.ver + 1,
                   created |-> IF IsEmptyGen(g) THEN rev ELSE g.created,
                   revs    |-> Append(g.revs, rev)]

PutIn(gens, rev) == [modified    |-> rev,
                     generations |-> Append(Front(gens), AddRev(Last(gens), rev))]

PutRev(ki, rev) == PutIn(IF ki.generations = <<>> THEN <<NewGen>> ELSE ki.generations, rev)

(* treeIndex.Put *)
IndexPut(idx, k, rev) ==
  LET ki == IF k \in DOMAIN idx THEN idx[k] ELSE NewKeyIndex
  IN [x \in DOMAIN idx \cup {k} |-> IF x = k THEN PutRev(ki, rev) ELSE idx[x]]

(* treeIndex.Restore: the first version that is found of a key carries the  *)
(* creation and the version count of the ones a compaction has removed.     *)
IndexRestore(idx, k, created, rev, ver) ==
  IF k \in DOMAIN idx THEN IndexPut(idx, k, rev)
  ELSE [x \in DOMAIN idx \cup {k} |->
          IF x # k THEN idx[x]
          ELSE [modified    |-> rev,
                generations |-> <<[ver |-> ver, created |-> created, revs |-> <<rev>>]>>]]

(* treeIndex.Tombstone: nothing happens for a key that is unknown or        *)
(* deleted already (ErrRevisionNotFound).                                   *)
CanTombstone(idx, k) ==
  k \in DOMAIN idx /\ ~IsEmptyGen(Last(idx[k].generations))

IndexTombstone(idx, k, rev) ==
  IF ~CanTombstone(idx, k) THEN idx
  ELSE LET ki == PutRev(idx[k], rev)
       IN [idx EXCEPT ![k] = [ki EXCEPT !.generations = Append(@, NewGen)]]

(* keyIndex.findGeneration: walks down from the last generation, past the   *)
(* empty one and those created after rev, and stops at the gap above a      *)
(* tombstone; 0 when there is none.                                         *)
Ended(gens, i, rev) == i # Len(gens) /\ Last(gens[i].revs).main <= rev

Stops(gens, rev) == {i \in DOMAIN gens : /\ ~IsEmptyGen(gens[i])
                                         /\ Ended(gens, i, rev) \/ gens[i].revs[1].main <= rev}

Unended(gens, i, rev) == IF i = 0 \/ Ended(gens, i, rev) THEN 0 ELSE i

FindGeneration(ki, rev) == Unended(ki.generations, Max(Stops(ki.generations, rev) \cup {0}), rev)

(* The position of the newest revision of a generation at or below rev, 0   *)
(* when there is none: what generation.walk returns.                        *)
Walk(revs, rev) == Cardinality({i \in DOMAIN revs : revs[i].main <= rev})

(* keyIndex.get and treeIndex.Get *)
Version(g, n) == IF n = 0 THEN NotFound
                 ELSE [found |-> TRUE, modified |-> g.revs[n], created |-> g.created,
                       ver |-> g.ver - (Len(g.revs) - n)]

GetIn(gens, i, rev) == IF i = 0 THEN NotFound ELSE Version(gens[i], Walk(gens[i].revs, rev))

IndexGet(idx, k, rev) == IF k \notin DOMAIN idx THEN NotFound
                         ELSE GetIn(idx[k].generations, FindGeneration(idx[k], rev), rev)

(* keyIndex.compact: the first generation that is not ended at rev keeps    *)
(* its newest revision at or below rev, unless only its tombstone is left.  *)
KeepRevs(ki, i, n, revs) ==
  LET gens == ki.generations
      dead == Len(revs) = 1 /\ i # Len(gens)
      rest == SubSeq(gens, i + 1, Len(gens))
  IN [ki |-> [ki EXCEPT !.generations =
                IF dead THEN rest ELSE <<[gens[i] EXCEPT !.revs = revs]>> \o rest],
      available |-> IF n = 0 \/ dead THEN {} ELSE {revs[1]}]

CompactRevs(ki, i, n) ==
  LET revs == ki.generations[i].revs
  IN KeepRevs(ki, i, n, IF n = 0 THEN revs ELSE SubSeq(revs, n, Len(revs)))

CompactGen(ki, i, rev) == CompactRevs(ki, i, Walk(ki.generations[i].revs, rev))

CompactKey(ki, rev) ==
  CompactGen(ki, Min({i \in DOMAIN ki.generations : ~Ended(ki.generations, i, rev)}), rev)

(* treeIndex.Compact: the revisions to keep, and the tree without the keys  *)
(* that have become empty.                                                  *)
Compacted(done) ==
  [index |-> [k \in {x \in DOMAIN done : ~IsEmpty(done[x].ki)} |-> done[k].ki],
   keep  |-> UNION {done[k].available : k \in DOMAIN done}]

IndexCompact(idx, rev) == Compacted([k \in DOMAIN idx |-> CompactKey(idx[k], rev)])
=============================================================================
