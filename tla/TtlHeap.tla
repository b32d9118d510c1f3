------------------------------ MODULE TtlHeap -------------------------------
(***************************************************************************)
(* The heap of the v2 store that finds the node which expires first          *)
(* (src/store/ttl_key_heap.go): an array of nodes, and the position of every *)
(* node in it.  T gives the expiration time of a node.  Positions start at 1 *)
(* here.  up and down are those of Go's container/heap.                      *)
(***************************************************************************)
EXTENDS Integers, Sequences, SequencesExt, TLC

newTtlKeyHeap == [array |-> <<>>, keyMap |-> <<>>]

Less(h, T, i, j) == T[h.array[i]] < T[h.array[j]]

Swap(h, i, j) ==
  [array  |-> [h.array EXCEPT ![i] = h.array[j], ![j] = h.array[i]],
   keyMap |-> [h.keyMap EXCEPT ![h.array[i]] = j, ![h.array[j]] = i]]

Push(h, x) == [array |-> Append(h.array, x), keyMap |-> (x :> Len(h.array) + 1) @@ h.keyMap]

Pop(h) == [array  |-> Front(h.array),
           keyMap |-> [y \in DOMAIN h.keyMap \ {Last(h.array)} |-> h.keyMap[y]]]

RECURSIVE up(_, _, _)
up(h, T, j) ==
  IF j = 1 \/ ~Less(h, T, j, j \div 2) THEN h ELSE up(Swap(h, j \div 2, j), T, j \div 2)

RECURSIVE down(_, _, _, _)
down(h, T, i, n) ==
  LET j == IF 2 * i + 1 <= n /\ Less(h, T, 2 * i + 1, 2 * i) THEN 2 * i + 1 ELSE 2 * i
  IN IF 2 * i > n \/ ~Less(h, T, j, i) THEN h ELSE down(Swap(h, i, j), T, j, n)

top(h) == h.array[1]

push(h, T, x) == up(Push(h, x), T, Len(h.array) + 1)

pop(h, T) == LET n == Len(h.array) IN Pop(down(Swap(h, 1, n), T, 1, n - 1))

remove(h, T, x) ==
  IF x \notin DOMAIN h.keyMap THEN h
  ELSE LET i == h.keyMap[x]
           n == Len(h.array)
       IN IF i = n THEN Pop(h) ELSE Pop(up(down(Swap(h, i, n), T, i, n - 1), T, i))

update(h, T, x) == IF x \in DOMAIN h.keyMap THEN push(remove(h, T, x), T, x) ELSE h

(* What the heap is for: the array holds the nodes S in the order of a heap, *)
(* each once, and the map knows where.                                       *)
IsHeapOf(h, T, S) ==
  /\ ToSet(h.array) = S /\ DOMAIN h.keyMap = S
  /\ \A i \in DOMAIN h.array : h.keyMap[h.array[i]] = i
  /\ \A i \in DOMAIN h.array : i > 1 => ~Less(h, T, i, i \div 2)
=============================================================================
