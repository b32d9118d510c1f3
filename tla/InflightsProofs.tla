--------------------------- MODULE InflightsProofs ---------------------------
(***************************************************************************)
(* Proofs about the ring buffer of raft/progress.go, for every size of the *)
(* buffer: type correctness, the order of the flights, and that it         *)
(* implements the FIFO window of module InflightWindow.                    *)
(***************************************************************************)
EXTENDS Inflights, SequenceTheorems, TLAPS

\* A position computed from a legal one stays inside the buffer.
LEMMA WrapInRange ==
    ASSUME NEW pos \in 0..(2 * Size - 1)
    PROVE  Wrap(pos) \in 0..(Size - 1)
BY SizeAssumption DEF Wrap

\* Flights at different offsets of the window are at different positions.
LEMMA WrapInjective ==
    ASSUME NEW s \in 0..(Size - 1), NEW j \in 0..Size, NEW k \in 0..Size,
           j < k, k - j < Size
    PROVE  Wrap(s + j) # Wrap(s + k)
BY SizeAssumption DEF Wrap

\* Moving start by i shifts the window by i.
LEMMA WrapShift ==
    ASSUME NEW s \in 0..(Size - 1), NEW i \in 0..Size, NEW k \in 0..Size,
           i + k <= Size
    PROVE  Wrap(Wrap(s + i) + k) = Wrap(s + (i + k))
BY SizeAssumption DEF Wrap

\* The inductive invariant of the ring buffer.
IInv == TypeOK /\ FlightsAscend

\* A new window is empty.
LEMMA InitIInv == Init => IInv
<1> SUFFICES ASSUME Init PROVE IInv
    OBVIOUS
<1>1. TypeOK
    BY SizeAssumption DEF Init, newInflights, TypeOK
<1>2. FlightsAscend
    BY DEF Init, newInflights, FlightsAscend
<1> QED BY <1>1, <1>2 DEF IInv

\* Every operation keeps the inductive invariant.
LEMMA NextIInv == IInv /\ [Next]_vars => IInv'
<1> SUFFICES ASSUME IInv, [Next]_vars PROVE IInv'
    OBVIOUS
<1> USE SizeAssumption, MaxIndexAssumption
<1>1. ASSUME NEW x \in 1..MaxIndex, add(x) PROVE IInv'
  <2> DEFINE pos == Wrap(start + count)
  <2>1. pos \in 0..(Size - 1)
      BY <1>1, WrapInRange DEF IInv, TypeOK, add, full
  <2>2. TypeOK'
      BY <1>1, <2>1 DEF IInv, TypeOK, add, full
  <2>3. ASSUME NEW k \in 0..(count - 1) PROVE Flight(k)' = Flight(k)
    <3>1. /\ start \in 0..(Size - 1) /\ count \in 0..Size /\ k \in 0..Size
          /\ k < count /\ count - k < Size /\ start + k \in 0..(2 * Size - 1)
        BY <1>1, <2>3 DEF IInv, TypeOK, add, full
    <3>2. Wrap(start + k) \in 0..(Size - 1)
        BY <3>1, WrapInRange
    <3>3. Wrap(start + k) # pos
        BY <3>1, WrapInjective
    <3> QED BY <1>1, <3>2, <3>3, <2>1 DEF Flight, add, IInv, TypeOK, Wrap
  <2>4. ASSUME NEW k, k = count PROVE Flight(k)' = x
      BY <1>1, <2>1, <2>4 DEF Flight, add, IInv, TypeOK, Wrap
  <2>5. FlightsAscend'
    <3> SUFFICES ASSUME NEW j \in 0..count, NEW k \in 0..count, j < k
                 PROVE  Flight(j)' < Flight(k)'
        BY <1>1 DEF FlightsAscend, add, IInv, TypeOK
    <3>1. j \in 0..(count - 1)
        BY DEF IInv, TypeOK
    <3>2. CASE k = count
        BY <1>1, <3>1, <3>2, <2>3, <2>4 DEF add
    <3>3. CASE k # count
      <4>1. k \in 0..(count - 1)
          BY <3>3 DEF IInv, TypeOK
      <4> QED BY <3>1, <4>1, <2>3 DEF IInv, FlightsAscend
    <3> QED BY <3>2, <3>3
  <2> QED BY <2>2, <2>5 DEF IInv
<1>2. ASSUME NEW to, freeTo(to) PROVE IInv'
  <2>1. PICK i \in 0..count : /\ Acked(to, i)
                             /\ count' = count - i
                             /\ start' = Wrap(start + i)
                             /\ acknowledged' = to
                             /\ UNCHANGED buffer
      BY <1>2 DEF freeTo
  <2>2. TypeOK'
      BY <2>1, WrapInRange DEF IInv, TypeOK
  <2>3. ASSUME NEW k \in 0..(count' - 1) PROVE Flight(k)' = Flight(i + k)
      BY <2>1, WrapShift DEF IInv, TypeOK, Flight, Wrap
  <2>4. FlightsAscend'
    <3> SUFFICES ASSUME NEW j \in 0..(count' - 1), NEW k \in 0..(count' - 1), j < k
                 PROVE  Flight(j)' < Flight(k)'
        BY DEF FlightsAscend
    <3>1. /\ i + j \in 0..(count - 1)
          /\ i + k \in 0..(count - 1)
          /\ i + j < i + k
        BY <2>1 DEF IInv, TypeOK
    <3> QED BY <2>3, <3>1 DEF IInv, FlightsAscend
  <2> QED BY <2>2, <2>4 DEF IInv
<1>3. CASE reset
    BY <1>3 DEF IInv, TypeOK, FlightsAscend, reset
<1>4. CASE UNCHANGED vars
    BY <1>4 DEF IInv, TypeOK, FlightsAscend, Flight, Wrap, vars
<1> QED BY <1>1, <1>2, <1>3, <1>4 DEF Next, freeFirstOne

\* Start, count and buffer keep their types, for every Size.
THEOREM TypeCorrect == Spec => []TypeOK
<1>1. IInv => TypeOK
    BY DEF IInv
<1> QED BY InitIInv, NextIInv, <1>1, PTL DEF Spec

\* The flights are sorted from start on, for every Size: the test that ends the
\* loop of freeTo is enough to free exactly the acknowledged flights.
THEOREM FlightsSorted == Spec => []FlightsAscend
<1>1. IInv => FlightsAscend
    BY DEF IInv
<1> QED BY InitIInv, NextIInv, <1>1, PTL DEF Spec

\* The flights as a sequence: its length and its elements.
IsSeqOfFlights ==
    /\ InFlight \in Seq(Nat)
    /\ Len(InFlight) = count
    /\ DOMAIN InFlight = 1..count
    /\ \A k \in 1..count : InFlight[k] = Flight(k - 1)

\* The refinement mapping yields a sequence.
LEMMA InFlightSeq == TypeOK => IsSeqOfFlights
<1> SUFFICES ASSUME TypeOK PROVE IsSeqOfFlights
    OBVIOUS
<1>1. \A k \in 1..count : Flight(k - 1) \in Nat
    BY SizeAssumption DEF TypeOK, Flight, Wrap
<1> QED BY <1>1, SizeAssumption DEF InFlight, TypeOK, IsSeqOfFlights

\* A step that frees the i oldest flights is an Ack of the window.
LEMMA FreeIsAck ==
    ASSUME IInv, IInv', NEW to \in 0..MaxIndex, NEW i \in 0..count, Acked(to, i),
           count' = count - i, start' = Wrap(start + i), acknowledged' = to,
           UNCHANGED buffer
    PROVE  Window!Ack
<1> USE SizeAssumption, MaxIndexAssumption
<1>1. /\ count \in Nat /\ i \in Nat /\ count' \in Nat /\ to \in Nat
    BY DEF IInv, TypeOK
<1>2. /\ Len(InFlight) = count /\ InFlight \in Seq(Nat)
      /\ \A k \in 1..count : InFlight[k] = Flight(k - 1)
    BY InFlightSeq DEF IInv, IsSeqOfFlights
<1>3. \A k \in 0..(count - 1) : Flight(k) \in Nat
    BY DEF IInv, TypeOK, Flight, Wrap
<1>4. \A j \in 1..i : InFlight[j] <= to
    BY <1>1, <1>2 DEF Acked
<1>5. \A j \in (i + 1)..count : to < InFlight[j]
  <2> SUFFICES ASSUME NEW j \in (i + 1)..count PROVE to < Flight(j - 1)
      BY <1>1, <1>2
  <2>1. to < Flight(i)
      BY <1>1 DEF Acked
  <2>2. Flight(i) <= Flight(j - 1)
    <3>1. CASE j = i + 1
        BY <3>1, <1>1, <1>3
    <3>2. CASE j # i + 1
      <4>1. i < j - 1 /\ i \in 0..(count - 1) /\ j - 1 \in 0..(count - 1)
          BY <3>2, <1>1
      <4> QED BY <4>1, <1>3 DEF IInv, FlightsAscend
    <3> QED BY <3>1, <3>2
  <2>3. Flight(i) \in Nat /\ Flight(j - 1) \in Nat
      BY <1>1, <1>3
  <2> QED BY <2>1, <2>2, <2>3, <1>1
<1>6. ASSUME NEW k \in 0..(count' - 1) PROVE Flight(k)' = Flight(i + k)
    BY <1>1, WrapShift DEF IInv, TypeOK, Flight, Wrap
<1>7. InFlight' = SubSeq(InFlight, i + 1, count)
  <2>1. InFlight' = [k \in 1..(count - i) |-> Flight(k - 1)']
      BY DEF InFlight
  <2>2. SubSeq(InFlight, i + 1, count) = [k \in 1..(count - i) |-> InFlight[i + k]]
      BY <1>1, <1>2
  <2>3. ASSUME NEW k \in 1..(count - i) PROVE Flight(k - 1)' = InFlight[i + k]
    <3>1. k - 1 \in 0..(count' - 1) /\ i + k \in 1..count /\ i + (k - 1) = (i + k) - 1
        BY <1>1
    <3> QED BY <1>2, <1>6, <3>1
  <2> QED BY <2>1, <2>2, <2>3
<1> QED BY <1>1, <1>2, <1>4, <1>5, <1>7 DEF Window!Ack

\* The ring buffer implements the FIFO window, for every Size.
THEOREM RefinesWindow == Spec => ImplementsWindow
<1> USE SizeAssumption, MaxIndexAssumption
<1>1. Init => Window!Init
    BY DEF Init, newInflights, Window!Init, InFlight
<1>2. IInv /\ IInv' /\ [Next]_vars => [Window!Next]_(Window!vars)
  <2> SUFFICES ASSUME IInv, IInv', [Next]_vars PROVE [Window!Next]_(Window!vars)
      OBVIOUS
  <2>0. IsSeqOfFlights'
    <3>1. TypeOK' => IsSeqOfFlights'
        BY InFlightSeq, PTL
    <3> QED BY <3>1 DEF IInv
  <2>1. ASSUME NEW x \in 1..MaxIndex, add(x) PROVE Window!Push
    <3>1. /\ Len(InFlight) = count /\ InFlight \in Seq(Nat) /\ count < Size
          /\ DOMAIN InFlight = 1..count
          /\ \A k \in 1..count : InFlight[k] = Flight(k - 1)
        BY <2>1, InFlightSeq DEF IInv, TypeOK, IsSeqOfFlights, add, full
    <3>2. \A j \in DOMAIN InFlight : InFlight[j] < x
        BY <2>1, <3>1 DEF add, IInv, TypeOK
    <3>3. ASSUME NEW k \in 0..(count - 1) PROVE Flight(k)' = Flight(k)
      <4>1. start \in 0..(Size - 1) /\ count \in Nat /\ k \in Nat /\ k < count
          BY <3>1, <3>3 DEF IInv, TypeOK
      <4>2. Wrap(start + k) \in 0..(Size - 1) /\ Wrap(start + k) # Wrap(start + count)
          BY <3>1, <4>1 DEF Wrap
      <4> QED BY <2>1, <4>2 DEF Flight, add, IInv, TypeOK, Wrap
    <3>4. ASSUME NEW k, k = count PROVE Flight(k)' = x
      <4>1. Wrap(start + count) \in 0..(Size - 1)
          BY <3>1 DEF Wrap, IInv, TypeOK
      <4> QED BY <2>1, <3>4, <4>1 DEF Flight, add, IInv, TypeOK, Wrap
    <3>5. InFlight' = Append(InFlight, x)
      <4>1. /\ InFlight' \in Seq(Nat) /\ Len(InFlight') = count + 1
            /\ \A k \in 1..(count + 1) : InFlight'[k] = Flight(k - 1)'
          BY <2>0, <2>1 DEF IsSeqOfFlights, add
      <4>2. /\ Append(InFlight, x) \in Seq(Nat) /\ Len(Append(InFlight, x)) = count + 1
            /\ \A k \in 1..count : Append(InFlight, x)[k] = InFlight[k]
            /\ Append(InFlight, x)[count + 1] = x
          BY <3>1, AppendProperties
      <4>3. ASSUME NEW k \in 1..(count + 1)
            PROVE  InFlight'[k] = Append(InFlight, x)[k]
        <5>1. InFlight'[k] = Flight(k - 1)' /\ count \in Nat
            BY <4>1 DEF IInv, TypeOK
        <5>2. CASE k = count + 1
          <6>1. k - 1 = count
              BY <5>1, <5>2
          <6> QED BY <5>1, <5>2, <6>1, <3>4, <4>2
        <5>3. CASE k # count + 1
          <6>1. k \in 1..count /\ k - 1 \in 0..(count - 1)
              BY <5>1, <5>3
          <6>2. Flight(k - 1)' = Flight(k - 1)
              BY <6>1, <3>3
          <6> QED BY <5>1, <6>1, <6>2, <3>1, <4>2
        <5> QED BY <5>2, <5>3
      <4> QED BY <4>1, <4>2, <4>3, SeqEqual
    <3> QED BY <2>1, <3>1, <3>2, <3>5 DEF Window!Push, add
  <2>2. ASSUME NEW to \in 0..MaxIndex, freeTo(to) PROVE Window!Ack
      BY <2>2, FreeIsAck DEF freeTo
  <2>3. CASE freeFirstOne
    <3>1. PICK i \in 0..count : /\ Acked(buffer[start], i)
                               /\ count' = count - i
                               /\ start' = Wrap(start + i)
                               /\ acknowledged' = buffer[start]
                               /\ UNCHANGED buffer
        BY <2>3 DEF freeFirstOne, freeTo
    <3>2. i = 1
      <4>1. count = Size /\ count \in Nat /\ i \in Nat /\ Wrap(start) = start
            /\ buffer[start] \in Nat
          BY <2>3 DEF freeFirstOne, full, IInv, TypeOK, Wrap
      <4>2. Flight(0) = buffer[start]
          BY <4>1 DEF Flight, IInv, TypeOK
      <4>3. i # 0
          BY <3>1, <4>1, <4>2 DEF Acked
      <4>4. ASSUME i > 1 PROVE FALSE
        <5>1. 0 \in 0..(count - 1) /\ 1 \in 0..(count - 1) /\ 1 \in 0..(i - 1)
            BY <4>4, <4>1
        <5>2. Flight(0) < Flight(1)
            BY <5>1 DEF IInv, FlightsAscend
        <5>3. Flight(1) <= buffer[start]
            BY <3>1, <5>1 DEF Acked
        <5>4. Flight(1) \in Nat
            BY <4>1, <5>1 DEF Flight, Wrap, IInv, TypeOK
        <5> QED BY <5>2, <5>3, <5>4, <4>1, <4>2
      <4> QED BY <4>1, <4>3, <4>4
    <3>3. /\ Len(InFlight) = count /\ InFlight \in Seq(Nat) /\ count > 0 /\ count \in Nat
          /\ \A k \in 1..count : InFlight[k] = Flight(k - 1)
        BY <2>3, InFlightSeq DEF IInv, TypeOK, IsSeqOfFlights, freeFirstOne, full
    <3>4. ASSUME NEW k \in 1..(count - 1) PROVE Flight(k - 1)' = InFlight[k + 1]
      <4>0. start \in 0..(Size - 1) /\ k \in 1..(Size - 1)
          BY <3>3, <3>4 DEF IInv, TypeOK
      <4>1. Wrap(Wrap(start + 1) + (k - 1)) = Wrap(start + k)
          BY <4>0 DEF Wrap
      <4>2. InFlight[k + 1] = Flight(k)
          BY <3>3
      <4> QED BY <4>1, <4>2, <3>1, <3>2 DEF Flight, Wrap
    <3>5. InFlight' = Tail(InFlight)
      <4>1. /\ InFlight' \in Seq(Nat) /\ Len(InFlight') = count - 1
            /\ \A k \in 1..(count - 1) : InFlight'[k] = Flight(k - 1)'
          BY <2>0, <3>1, <3>2 DEF IsSeqOfFlights
      <4>2. /\ Tail(InFlight) \in Seq(Nat) /\ Len(Tail(InFlight)) = count - 1
            /\ \A k \in 1..(count - 1) : Tail(InFlight)[k] = InFlight[k + 1]
          BY <3>3, HeadTailProperties
      <4> QED BY <4>1, <4>2, <3>4, SeqEqual
    <3>6. InFlight # << >>
        BY <3>3
    <3>7. acknowledged' = Head(InFlight)
      <4>1. Head(InFlight) = Flight(0)
          BY <3>3, HeadTailProperties
      <4>2. Flight(0) = buffer[start]
          BY DEF Flight, Wrap, IInv, TypeOK
      <4> QED BY <3>1, <4>1, <4>2
    <3> QED BY <3>5, <3>6, <3>7 DEF Window!Next, Window!DropOldest
  <2>4. CASE reset
      BY <2>4 DEF reset, InFlight, Window!Next, Window!Clear
  <2>5. CASE UNCHANGED vars
      BY <2>5 DEF vars, InFlight, Flight, Wrap, Window!vars
  <2> QED BY <2>1, <2>2, <2>3, <2>4, <2>5 DEF Next, Window!Next
<1> QED BY <1>1, <1>2, InitIInv, NextIInv, PTL DEF Spec, ImplementsWindow, Window!Spec
=============================================================================
