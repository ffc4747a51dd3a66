--------------------------- MODULE EventBusProofs ---------------------------
(***************************************************************************)
(* Theorems about the event bus, for any number of clients, sessions,      *)
(* events and restarts and for a ring of any size.                         *)
(***************************************************************************)
EXTENDS EventBus, SequenceTheorems, WellFoundedInduction, TLAPS

USE CapacityAssumption, BoundAssumption

-----------------------------------------------------------------------------
(* Induction on a set of naturals. *)

LEMMA Least ==
    ASSUME NEW T, T \subseteq Nat, T # {}
    PROVE  \E x \in T : \A y \in T : x <= y
<1> DEFINE R == OpToRel(<, Nat)
<1>1. IsWellFoundedOn(R, Nat)
  BY NatLessThanWellFounded
<1>2. \A i, j \in Nat : <<i, j>> \in R <=> i < j
  BY DEF OpToRel
<1> HIDE DEF R
<1>3. PICK x \in T : \A y \in T : ~(<<y, x>> \in R)
  BY <1>1, WFMin
<1>4. \A y \in T : ~(y < x) /\ x \in Nat /\ y \in Nat
  BY <1>2, <1>3
<1>5. \A y \in T : x <= y
  BY <1>4
<1>6. QED BY <1>5

LEMMA Induction ==
    ASSUME NEW T, T \subseteq Nat, 0 \in T, \A n \in T : n + 1 \in T
    PROVE  T = Nat
<1> SUFFICES ASSUME T # Nat PROVE FALSE
    OBVIOUS
<1>1. PICK x \in Nat \ T : \A y \in Nat \ T : x <= y
  BY Least
<1>2. x - 1 \in Nat /\ x - 1 \in T
  BY <1>1
<1>3. (x - 1) + 1 = x
  OBVIOUS
<1>4. QED BY <1>1, <1>2, <1>3

-----------------------------------------------------------------------------
(* Increasing sequences of events. *)

LEMMA EventHasSeq == \A e \in Event : e.seq \in Nat \ {0} /\ e.seq <= MaxSeq
BY DEF Event

LEMMA EventSeqElements ==
    ASSUME NEW s \in Seq(Event)
    PROVE  /\ Len(s) \in Nat /\ DOMAIN s = 1..Len(s)
           /\ \A i \in DOMAIN s : s[i] \in Event /\ s[i].seq \in Nat
           /\ ToSet(s) = {s[i] : i \in 1..Len(s)} /\ ToSet(s) \subseteq Event
BY LenProperties, ElementOfSeq, EventHasSeq DEF ToSet

LEMMA EmptyIncreases == Increasing(<<>>) /\ ToSet(<<>>) = {}
<1>1. DOMAIN <<>> = {}
  OBVIOUS
<1>2. QED BY <1>1 DEF Increasing, ToSet

LEMMA AppendIncreases ==
    ASSUME NEW s \in Seq(Event), NEW e \in Event, Increasing(s),
           \A d \in ToSet(s) : d.seq < e.seq
    PROVE  Append(s, e) \in Seq(Event) /\ Increasing(Append(s, e))
<1> DEFINE t == Append(s, e)
<1>1. /\ t \in Seq(Event) /\ Len(t) = Len(s) + 1 /\ Len(s) \in Nat
      /\ DOMAIN s = 1..Len(s) /\ DOMAIN t = 1..Len(t)
      /\ \A i \in 1..Len(s) : t[i] = s[i] /\ s[i] \in ToSet(s)
      /\ t[Len(s) + 1] = e
  BY AppendProperties, LenProperties, EventSeqElements
<1> HIDE DEF t
<1>2. ASSUME NEW i \in DOMAIN t, NEW j \in DOMAIN t, i < j
      PROVE  t[i].seq < t[j].seq
  <2>1. i \in 1..Len(s)
    BY <1>1, <1>2
  <2>2. CASE j = Len(s) + 1
    BY <1>1, <2>1, <2>2
  <2>3. CASE j \in 1..Len(s)
    BY <1>1, <1>2, <2>1, <2>3 DEF Increasing
  <2>4. QED BY <1>1, <2>2, <2>3
<1>3. QED BY <1>1, <1>2 DEF Increasing, t

LEMMA AppendMembers ==
    ASSUME NEW s \in Seq(Event), NEW e \in Event
    PROVE  Append(s, e) \in Seq(Event) /\ ToSet(Append(s, e)) = ToSet(s) \cup {e}
<1>1. /\ Append(s, e) \in Seq(Event) /\ Len(Append(s, e)) = Len(s) + 1 /\ Len(s) \in Nat
      /\ DOMAIN s = 1..Len(s) /\ DOMAIN Append(s, e) = 1..(Len(s) + 1)
      /\ \A i \in 1..Len(s) : Append(s, e)[i] = s[i]
      /\ Append(s, e)[Len(s) + 1] = e
  BY AppendProperties, LenProperties
<1>2. QED BY <1>1 DEF ToSet

\* Two increasing sequences of the same events are one.
LEMMA IncreasingUnique ==
    ASSUME NEW s \in Seq(Event), NEW t \in Seq(Event), Increasing(s), Increasing(t),
           ToSet(s) = ToSet(t)
    PROVE  s = t
<1>1. /\ Len(s) \in Nat /\ Len(t) \in Nat
      /\ DOMAIN s = 1..Len(s) /\ DOMAIN t = 1..Len(t)
      /\ \A i \in 1..Len(s) : s[i].seq \in Nat
      /\ \A i \in 1..Len(t) : t[i].seq \in Nat
  BY EventSeqElements
<1>2. /\ \A i \in 1..Len(s) : \E j \in 1..Len(t) : s[i] = t[j]
      /\ \A j \in 1..Len(t) : \E i \in 1..Len(s) : s[i] = t[j]
  BY <1>1 DEF ToSet
<1> DEFINE Same(i) == i <= Len(s) /\ i <= Len(t) /\ s[i] = t[i]
           Odd == {i \in (1..Len(s)) \cup (1..Len(t)) : ~Same(i)}
<1>3. Odd = {}
  <2> SUFFICES ASSUME Odd # {} PROVE FALSE
      OBVIOUS
  <2>1. PICK i \in Odd : \A k \in Odd : i <= k
    <3>1. Odd \subseteq Nat
      OBVIOUS
    <3> HIDE DEF Odd
    <3>2. QED BY <3>1, Least
  <2>2. \A k \in 1..(i - 1) : k \in 1..Len(s) /\ k \in 1..Len(t) /\ s[k] = t[k]
    <3> SUFFICES ASSUME NEW k \in 1..(i - 1)
                 PROVE  k \in 1..Len(s) /\ k \in 1..Len(t) /\ s[k] = t[k]
        OBVIOUS
    <3>1. k \in Nat \ {0} /\ i \in Nat /\ k < i /\ k \notin Odd
      BY <2>1
    <3>2. \/ i \in 1..Len(s) /\ k \in 1..Len(s)
          \/ i \in 1..Len(t) /\ k \in 1..Len(t)
      BY <1>1, <2>1, <3>1
    <3>3. QED BY <1>1, <3>1, <3>2
  <2>3. CASE i \in 1..Len(s)
    <3>1. PICK j \in 1..Len(t) : s[i] = t[j]
      BY <1>2, <2>3
    <3>2. ~(j < i)
      <4>1. \A a, b \in 1..Len(s) : a < b => s[a].seq < s[b].seq
        BY <1>1 DEF Increasing
      <4>2. SUFFICES ASSUME j < i PROVE FALSE
        OBVIOUS
      <4>3. j \in 1..(i - 1)
        BY <1>1, <2>3, <3>1, <4>2
      <4>4. j \in 1..Len(s) /\ s[j] = s[i]
        BY <2>2, <3>1, <4>3
      <4>5. s[j].seq < s[i].seq /\ s[i].seq \in Nat
        BY <1>1, <2>3, <4>1, <4>2, <4>4
      <4>6. QED BY <4>4, <4>5
    <3>3. j > i /\ i \in 1..Len(t)
      BY <1>1, <2>1, <2>3, <3>1, <3>2
    <3>4. PICK k \in 1..Len(s) : s[k] = t[i]
      BY <1>2, <3>3
    <3>5. s[k].seq < s[i].seq
      BY <1>1, <3>1, <3>3, <3>4 DEF Increasing
    <3>6. k < i
      BY <1>1, <2>3, <3>5 DEF Increasing
    <3>7. t[k] = t[i] /\ k \in 1..Len(t)
      BY <2>2, <3>4, <3>6
    <3>8. t[k].seq < t[i].seq
      BY <1>1, <3>3, <3>6, <3>7 DEF Increasing
    <3>9. QED BY <1>1, <3>3, <3>7, <3>8
  <2>4. CASE i \in 1..Len(t) /\ i \notin 1..Len(s)
    <3>1. PICK j \in 1..Len(s) : s[j] = t[i]
      BY <1>2, <2>4
    <3>2. j < i /\ s[j] = t[j] /\ j \in 1..Len(t)
      BY <1>1, <2>2, <2>4, <3>1
    <3>3. t[j].seq < t[i].seq
      BY <1>1, <2>4, <3>2 DEF Increasing
    <3>4. QED BY <1>1, <2>4, <3>1, <3>2, <3>3
  <2>5. QED BY <2>1, <2>3, <2>4
<1>4. Len(s) = Len(t)
  <2>1. \A i \in (1..Len(s)) \cup (1..Len(t)) : i <= Len(s) /\ i <= Len(t)
    BY <1>3
  <2>2. Len(s) <= Len(t)
    BY <1>1, <2>1
  <2>3. Len(t) <= Len(s)
    BY <1>1, <2>1
  <2>4. Len(s) \in Nat /\ Len(t) \in Nat
    BY <1>1
  <2> HIDE DEF Odd
  <2>5. QED BY <2>2, <2>3, <2>4
<1>5. \A i \in 1..Len(s) : s[i] = t[i]
  BY <1>1, <1>3
<1>6. QED BY <1>4, <1>5, SeqEqual

-----------------------------------------------------------------------------
(* What Selected returns. *)

\* f gives, for each length up to n, what is selected of that many events.
Selection(f, events, filter, afterSeq, last, n) ==
    f = [i \in 0 .. n |->
            IF i = 0 THEN <<>>
            ELSE IF Wants(events[i], filter, afterSeq, last)
                 THEN Append(f[i - 1], events[i])
                 ELSE f[i - 1]]

LEMMA SelectionExists ==
    ASSUME NEW events, NEW filter, NEW afterSeq, NEW last, NEW n \in Nat
    PROVE  \E f : Selection(f, events, filter, afterSeq, last, n)
<1> DEFINE Wanting(i) == Wants(events[i], filter, afterSeq, last)
           Value(f, i) == IF i = 0 THEN <<>>
                          ELSE IF Wanting(i) THEN Append(f[i - 1], events[i]) ELSE f[i - 1]
           Known == {m \in Nat : \E f : f = [i \in 0..m |-> Value(f, i)]}
<1> HIDE DEF Wanting
<1>1. 0 \in Known
  <2>1. [i \in 0..0 |-> <<>>] = [i \in 0..0 |-> Value([j \in 0..0 |-> <<>>], i)]
    OBVIOUS
  <2>2. QED BY <2>1
<1>2. ASSUME NEW m \in Known PROVE m + 1 \in Known
  <2>1. PICK f : f = [i \in 0..m |-> Value(f, i)]
    OBVIOUS
  <2>2. m \in Nat
    OBVIOUS
  <2> HIDE DEF Known
  <2> DEFINE g == [i \in 0..(m + 1) |-> IF i <= m THEN f[i] ELSE Value(f, i)]
  <2>3. g = [i \in 0..(m + 1) |-> g[i]]
    OBVIOUS
  <2>4. /\ \A i \in 0..m : g[i] = f[i]
        /\ g[m + 1] = Value(f, m + 1)
    BY <2>2
  <2>5. \A i \in 0..m : f[i] = Value(f, i)
    BY <2>1
  <2> HIDE DEF g
  <2>6. ASSUME NEW i \in 0..(m + 1) PROVE g[i] = Value(g, i)
    <3>1. CASE i = 0
      BY <2>2, <2>4, <2>5, <3>1
    <3>2. CASE i \in 1..(m + 1)
      <4>1. i - 1 \in 0..m /\ g[i - 1] = f[i - 1]
        BY <2>2, <2>4, <3>2
      <4>2. CASE i = m + 1
        BY <2>2, <2>4, <4>1, <4>2
      <4>3. CASE i \in 1..m
        BY <2>2, <2>4, <2>5, <4>1, <4>3
      <4>4. QED BY <2>2, <3>2, <4>2, <4>3
    <3>3. QED BY <3>1, <3>2
  <2>7. g = [i \in 0..(m + 1) |-> Value(g, i)]
    BY <2>6, <2>3
  <2>8. \E h : h = [i \in 0..(m + 1) |-> Value(h, i)]
    BY <2>7
  <2> HIDE DEF Value
  <2>9. QED BY <2>2, <2>8 DEF Known
<1>3. Known \subseteq Nat
  OBVIOUS
<1> HIDE DEF Known
<1>4. Known = Nat
  BY <1>1, <1>2, <1>3, Induction
<1>5. QED BY <1>4 DEF Known, Selection, Wanting

LEMMA SelectedIs ==
    ASSUME NEW events, NEW filter, NEW afterSeq, NEW last, Len(events) \in Nat
    PROVE  \E f : /\ Selection(f, events, filter, afterSeq, last, Len(events))
                  /\ Selected(events, filter, afterSeq, last) = f[Len(events)]
<1> DEFINE f == CHOOSE g : Selection(g, events, filter, afterSeq, last, Len(events))
<1>1. Selection(f, events, filter, afterSeq, last, Len(events))
  BY SelectionExists
<1>2. Selected(events, filter, afterSeq, last) = f[Len(events)]
  BY DEF Selected, Selection
<1>3. QED BY <1>1, <1>2

\* The wanted events, all of them and in their order.
LEMMA SelectedProperties ==
    ASSUME NEW events \in Seq(Event), Increasing(events),
           NEW filter, NEW afterSeq, NEW last
    PROVE  /\ Selected(events, filter, afterSeq, last) \in Seq(Event)
           /\ Increasing(Selected(events, filter, afterSeq, last))
           /\ ToSet(Selected(events, filter, afterSeq, last))
                 = {e \in ToSet(events) : Wants(e, filter, afterSeq, last)}
<1>1. /\ Len(events) \in Nat /\ DOMAIN events = 1..Len(events)
      /\ \A i \in 1..Len(events) : events[i] \in Event /\ events[i].seq \in Nat
      /\ ToSet(events) = {events[i] : i \in 1..Len(events)}
  BY EventSeqElements
<1>2. PICK f : /\ Selection(f, events, filter, afterSeq, last, Len(events))
               /\ Selected(events, filter, afterSeq, last) = f[Len(events)]
  BY <1>1, SelectedIs
<1> DEFINE Wanting(e) == Wants(e, filter, afterSeq, last)
<1>3. /\ f[0] = <<>>
      /\ \A n \in 1..Len(events) :
            f[n] = IF Wanting(events[n]) THEN Append(f[n - 1], events[n]) ELSE f[n - 1]
  <2>1. \A n \in 0..Len(events) :
           f[n] = IF n = 0 THEN <<>>
                  ELSE IF Wanting(events[n]) THEN Append(f[n - 1], events[n]) ELSE f[n - 1]
    BY <1>2 DEF Selection
  <2> HIDE DEF Wanting
  <2>2. QED BY <1>1, <2>1
<1> HIDE DEF Wanting
<1> DEFINE Good(n) == /\ f[n] \in Seq(Event) /\ Increasing(f[n])
                      /\ ToSet(f[n]) = {events[i] : i \in {j \in 1..n : Wanting(events[j])}}
           Known == {n \in Nat : n <= Len(events) => Good(n)}
<1>4. 0 \in Known
  <2>1. <<>> \in Seq(Event) /\ Increasing(<<>>) /\ ToSet(<<>>) = {}
    BY EmptyIncreases
  <2>2. {events[i] : i \in {j \in 1..0 : Wanting(events[j])}} = {}
    OBVIOUS
  <2>3. QED BY <1>3, <2>1, <2>2
<1>5. ASSUME NEW n \in Known PROVE n + 1 \in Known
  <2> SUFFICES ASSUME n + 1 <= Len(events) PROVE Good(n + 1)
      OBVIOUS
  <2>1. Good(n)
    BY <1>1
  <2>2. n + 1 \in 1..Len(events) /\ (n + 1) - 1 = n /\ events[n + 1] \in Event
    BY <1>1
  <2>3. CASE Wanting(events[n + 1])
    <3>1. f[n + 1] = Append(f[n], events[n + 1])
      BY <1>3, <2>2, <2>3
    <3>2. \A d \in ToSet(f[n]) : d.seq < events[n + 1].seq
      BY <1>1, <2>1, <2>2 DEF Increasing
    <3>3. f[n + 1] \in Seq(Event) /\ Increasing(f[n + 1])
      BY <2>1, <2>2, <3>1, <3>2, AppendIncreases
    <3>4. ToSet(f[n + 1]) = ToSet(f[n]) \cup {events[n + 1]}
      BY <2>1, <2>2, <3>1, AppendMembers
    <3>5. {j \in 1..(n + 1) : Wanting(events[j])} = {j \in 1..n : Wanting(events[j])} \cup {n + 1}
      BY <2>3
    <3>6. QED BY <2>1, <3>3, <3>4, <3>5
  <2>4. CASE ~Wanting(events[n + 1])
    <3>1. f[n + 1] = f[n]
      BY <1>3, <2>2, <2>4
    <3>2. {j \in 1..(n + 1) : Wanting(events[j])} = {j \in 1..n : Wanting(events[j])}
      BY <2>4
    <3>3. QED BY <2>1, <3>1, <3>2
  <2>5. QED BY <2>3, <2>4
<1>6. Known \subseteq Nat
  OBVIOUS
<1>7. Known = Nat
  <2> HIDE DEF Known
  <2>1. QED BY <1>4, <1>5, <1>6, Induction
<1>8. Good(Len(events))
  <2> HIDE DEF Known
  <2>1. Len(events) \in Known
    BY <1>1, <1>7
  <2> USE DEF Known
  <2>2. QED BY <1>1, <2>1
<1>9. {events[i] : i \in {j \in 1..Len(events) : Wanting(events[j])}}
         = {e \in ToSet(events) : Wanting(e)}
  BY <1>1
<1>10. QED BY <1>2, <1>8, <1>9 DEF Wanting

-----------------------------------------------------------------------------
(* The ring. *)

\* The write cursor and the reader's index go around at most once.
LEMMA Modulo ==
    ASSUME NEW x \in Nat, x < 2 * Capacity
    PROVE  x % Capacity = IF x < Capacity THEN x ELSE x - Capacity
OBVIOUS

LEMMA EmittedIs ==
    ASSUME EmittedInOrder
    PROVE  /\ emitted \in Seq(Event) /\ Len(emitted) \in Nat /\ nextSeq = Len(emitted) + 1
           /\ DOMAIN emitted = 1..Len(emitted)
           /\ \A n \in 1..Len(emitted) : emitted[n] \in Event /\ emitted[n].seq = n
           /\ \A e \in ToSet(emitted) : e.seq \in 1..Len(emitted) /\ e = emitted[e.seq]
           /\ Increasing(emitted)
<1>1. /\ emitted \in Seq(Event) /\ nextSeq = Len(emitted) + 1
      /\ \A n \in 1..Len(emitted) : emitted[n].seq = n
  BY DEF EmittedInOrder
<1>2. /\ Len(emitted) \in Nat /\ DOMAIN emitted = 1..Len(emitted)
      /\ \A n \in 1..Len(emitted) : emitted[n] \in Event
  BY <1>1, EventSeqElements
<1>3. \A e \in ToSet(emitted) : e.seq \in 1..Len(emitted) /\ e = emitted[e.seq]
  BY <1>1, <1>2 DEF ToSet
<1>4. Increasing(emitted)
  <2> SUFFICES ASSUME NEW i \in 1..Len(emitted), NEW j \in 1..Len(emitted), i < j
               PROVE  emitted[i].seq < emitted[j].seq
      BY <1>2 DEF Increasing
  <2>1. QED BY <1>1
<1>5. QED BY <1>1, <1>2, <1>3, <1>4

\* What the readers see of the ring are the newest events, the oldest first.
LEMMA BufferedIs ==
    ASSUME TypeOK, EmittedInOrder, RingHoldsNewest
    PROVE  /\ historyCount \in 0..Len(emitted)
           /\ Buffered \in Seq(Event) /\ Len(Buffered) = historyCount
           /\ \A i \in 1..historyCount :
                 Buffered[i] = emitted[(Len(emitted) - historyCount) + i]
           /\ historyCount > 0 => Oldest.seq = (Len(emitted) - historyCount) + 1
<1>1. /\ historyHead \in 0..(Capacity - 1) /\ historyCount \in 0..Capacity
      /\ Len(emitted) \in Nat
  BY EmittedIs DEF TypeOK
<1>2. historyCount \in 0..Len(emitted)
  BY <1>1 DEF RingHoldsNewest
<1>3. ASSUME NEW i \in 1..historyCount
      PROVE  historyBuffer[(OldestIndex + i - 1) % Capacity]
                = emitted[(Len(emitted) - historyCount) + i]
  <2>1. CASE historyCount < Capacity
    <3>1. (OldestIndex + i - 1) % Capacity = i - 1
      BY <1>1, <2>1, Modulo DEF OldestIndex
    <3>2. historyHead = historyCount /\ historyCount = Len(emitted)
      BY <1>1, <2>1 DEF RingHoldsNewest
    <3>3. i - 1 \in 0..(historyHead - 1)
      BY <1>1, <3>2
    <3>4. historyBuffer[i - 1] = emitted[Len(emitted) - historyHead + (i - 1) + 1]
      BY <3>3 DEF RingHoldsNewest
    <3>5. Len(emitted) - historyHead + (i - 1) + 1 = (Len(emitted) - historyCount) + i
      BY <1>1, <3>2
    <3>6. QED BY <3>1, <3>4, <3>5
  <2>2. CASE historyCount = Capacity
    <3>1. OldestIndex = historyHead
      BY <1>1, <2>2 DEF OldestIndex
    <3>2. CASE historyHead + i - 1 < Capacity
      <4>1. (OldestIndex + i - 1) % Capacity = historyHead + i - 1
        BY <1>1, <3>1, <3>2, Modulo
      <4>2. historyHead + i - 1 \in historyHead..(Capacity - 1)
        BY <1>1, <3>2
      <4>3. historyBuffer[historyHead + i - 1]
               = emitted[Len(emitted) - historyHead - Capacity + (historyHead + i - 1) + 1]
        BY <2>2, <4>2 DEF RingHoldsNewest
      <4>4. Len(emitted) - historyHead - Capacity + (historyHead + i - 1) + 1
               = (Len(emitted) - historyCount) + i
        BY <1>1, <2>2
      <4>5. QED BY <4>1, <4>3, <4>4
    <3>3. CASE ~(historyHead + i - 1 < Capacity)
      <4>1. (OldestIndex + i - 1) % Capacity = historyHead + i - 1 - Capacity
        <5> DEFINE x == historyHead + i - 1
        <5>1. x \in Nat /\ x < 2 * Capacity /\ ~(x < Capacity)
          BY <1>1, <2>2, <3>3
        <5> HIDE DEF x
        <5>2. x % Capacity = IF x < Capacity THEN x ELSE x - Capacity
          BY <5>1, Modulo
        <5>3. OldestIndex + i - 1 = x
          BY <3>1 DEF x
        <5>4. (OldestIndex + i - 1) % Capacity = x - Capacity
          BY <5>1, <5>2, <5>3
        <5>5. QED BY <1>1, <3>1, <5>4 DEF x
      <4>2. historyHead + i - 1 - Capacity \in 0..(historyHead - 1)
        BY <1>1, <2>2, <3>3
      <4>3. historyBuffer[historyHead + i - 1 - Capacity]
               = emitted[Len(emitted) - historyHead + (historyHead + i - 1 - Capacity) + 1]
        BY <4>2 DEF RingHoldsNewest
      <4>4. Len(emitted) - historyHead + (historyHead + i - 1 - Capacity) + 1
               = (Len(emitted) - historyCount) + i
        BY <1>1, <2>2
      <4>5. QED BY <4>1, <4>3, <4>4
    <3>4. QED BY <3>2, <3>3
  <2>3. QED BY <1>1, <2>1, <2>2
<1>4. ASSUME NEW i \in 1..historyCount
      PROVE  (Len(emitted) - historyCount) + i \in 1..Len(emitted)
  BY <1>1, <1>2
<1>5. \A i \in 1..historyCount : emitted[(Len(emitted) - historyCount) + i] \in Event
  BY <1>4, EmittedIs
<1>6. /\ Buffered \in Seq(Event) /\ Len(Buffered) = historyCount
      /\ \A i \in 1..historyCount :
            Buffered[i] = emitted[(Len(emitted) - historyCount) + i]
  <2>1. Buffered = [i \in 1..historyCount |-> emitted[(Len(emitted) - historyCount) + i]]
    BY <1>3 DEF Buffered
  <2>2. historyCount \in Nat
    BY <1>1
  <2>3. QED BY <1>5, <2>1, <2>2, IsASeq
<1>7. ASSUME historyCount > 0
      PROVE  Oldest.seq = (Len(emitted) - historyCount) + 1
  <2>1. 1 \in 1..historyCount /\ OldestIndex \in 0..(Capacity - 1)
    BY <1>1, <1>7 DEF OldestIndex
  <2>2. (OldestIndex + 1 - 1) % Capacity = OldestIndex
    BY <2>1, Modulo
  <2>3. Oldest = emitted[(Len(emitted) - historyCount) + 1]
    BY <1>3, <2>1, <2>2 DEF Oldest
  <2>4. QED BY <1>4, <2>1, <2>3, EmittedIs
<1>8. QED BY <1>2, <1>6, <1>7

\* The replay holds what is in the ring of what the subscriber wants.
LEMMA SnapshotIs ==
    ASSUME TypeOK, EmittedInOrder, RingHoldsNewest, NEW filter, NEW afterSeq
    PROVE  /\ HistorySnapshot(filter, afterSeq) \in Seq(Event)
           /\ Increasing(HistorySnapshot(filter, afterSeq))
           /\ ToSet(HistorySnapshot(filter, afterSeq))
                 = {e \in ToSet(emitted) : /\ Len(emitted) - historyCount < e.seq
                                           /\ Wants(e, filter, afterSeq, nextSeq - 1)}
<1>1. /\ historyCount \in Nat /\ Len(emitted) \in Nat /\ historyCount <= Len(emitted)
      /\ Buffered \in Seq(Event) /\ Len(Buffered) = historyCount
      /\ \A i \in 1..historyCount :
            Buffered[i] = emitted[(Len(emitted) - historyCount) + i]
  BY BufferedIs, EmittedIs
<1>2. \A i \in 1..historyCount : /\ (Len(emitted) - historyCount) + i \in 1..Len(emitted)
                                 /\ Buffered[i].seq = (Len(emitted) - historyCount) + i
  BY <1>1, EmittedIs
<1>3. Increasing(Buffered)
  BY <1>1, <1>2, EventSeqElements DEF Increasing
<1>4. ToSet(Buffered) = {e \in ToSet(emitted) : Len(emitted) - historyCount < e.seq}
  <2>1. \A e \in ToSet(Buffered) : e \in ToSet(emitted) /\ Len(emitted) - historyCount < e.seq
    <3> SUFFICES ASSUME NEW i \in 1..historyCount
                 PROVE  Buffered[i] \in ToSet(emitted) /\ Len(emitted) - historyCount < Buffered[i].seq
        BY <1>1, EventSeqElements
    <3>1. (Len(emitted) - historyCount) + i \in DOMAIN emitted
      BY <1>2, EmittedIs
    <3>2. Buffered[i] \in ToSet(emitted)
      BY <1>1, <3>1 DEF ToSet
    <3>3. QED BY <1>1, <1>2, <3>2
  <2>2. ASSUME NEW e \in ToSet(emitted), Len(emitted) - historyCount < e.seq
        PROVE  e \in ToSet(Buffered)
    <3> DEFINE i == e.seq - (Len(emitted) - historyCount)
    <3>1. e.seq \in 1..Len(emitted) /\ e = emitted[e.seq]
      BY EmittedIs
    <3>2. i \in 1..historyCount /\ (Len(emitted) - historyCount) + i = e.seq
      BY <1>1, <2>2, <3>1
    <3>3. Buffered[i] = e /\ i \in DOMAIN Buffered
      BY <1>1, <3>1, <3>2, EventSeqElements
    <3>4. QED BY <3>3 DEF ToSet
  <2>3. QED BY <2>1, <2>2
<1>5. QED BY <1>1, <1>3, <1>4, SelectedProperties DEF HistorySnapshot

\* A stream is what Selected says.
LEMMA StreamIs ==
    ASSUME EmittedInOrder, NEW s \in Seq(Event), NEW filter, NEW afterSeq, NEW last,
           Stream(s, emitted, filter, afterSeq, last)
    PROVE  s = Selected(emitted, filter, afterSeq, last)
<1> DEFINE t == Selected(emitted, filter, afterSeq, last)
<1>1. t \in Seq(Event) /\ Increasing(t)
      /\ ToSet(t) = {e \in ToSet(emitted) : Wants(e, filter, afterSeq, last)}
  BY EmittedIs, SelectedProperties
<1> HIDE DEF t
<1>2. Increasing(s) /\ ToSet(s) = ToSet(t)
  BY <1>1 DEF Stream
<1>3. QED BY <1>1, <1>2, IncreasingUnique DEF t

LEMMA EmptyStream ==
    ASSUME NEW events, NEW filter, NEW afterSeq \in Nat, NEW last \in Nat, last <= afterSeq,
           \A e \in ToSet(events) : e.seq \in Nat
    PROVE  Stream(<<>>, events, filter, afterSeq, last)
BY EmptyIncreases DEF Stream, Wants

\* An event that comes later is in no stream that ends before it, ...
LEMMA StreamKept ==
    ASSUME NEW s, NEW events \in Seq(Event), NEW event \in Event, NEW filter,
           NEW afterSeq \in Nat, NEW last \in Nat, last < event.seq,
           Stream(s, events, filter, afterSeq, last)
    PROVE  Stream(s, Append(events, event), filter, afterSeq, last)
BY AppendMembers, EventHasSeq DEF Stream, Wants

\* ... nor in one of other events; ...
LEMMA StreamPasses ==
    ASSUME NEW s, NEW events \in Seq(Event), NEW event \in Event, NEW filter,
           NEW afterSeq \in Nat, ~Matches(filter, event),
           \A e \in ToSet(events) : e.seq < event.seq,
           Stream(s, events, filter, afterSeq, event.seq - 1)
    PROVE  Stream(s, Append(events, event), filter, afterSeq, event.seq)
<1>1. /\ ToSet(Append(events, event)) = ToSet(events) \cup {event}
      /\ \A e \in ToSet(events) : e.seq \in Nat
      /\ event.seq \in Nat
  BY AppendMembers, EventSeqElements, EventHasSeq
<1>2. \A e \in ToSet(events) :
         Wants(e, filter, afterSeq, event.seq) <=> Wants(e, filter, afterSeq, event.seq - 1)
  BY <1>1 DEF Wants
<1>3. ~Wants(event, filter, afterSeq, event.seq)
  BY DEF Wants
<1>4. QED BY <1>1, <1>2, <1>3 DEF Stream

\* ... it goes to the end of one that wants it.
LEMMA StreamGrows ==
    ASSUME NEW s \in Seq(Event), NEW events \in Seq(Event), NEW event \in Event, NEW filter,
           NEW afterSeq \in Nat, Matches(filter, event), afterSeq < event.seq,
           \A e \in ToSet(events) : e.seq < event.seq,
           Stream(s, events, filter, afterSeq, event.seq - 1)
    PROVE  Stream(Append(s, event), Append(events, event), filter, afterSeq, event.seq)
<1>1. /\ ToSet(Append(events, event)) = ToSet(events) \cup {event}
      /\ ToSet(Append(s, event)) = ToSet(s) \cup {event}
      /\ \A e \in ToSet(events) : e.seq \in Nat
      /\ event.seq \in Nat
  BY AppendMembers, EventSeqElements, EventHasSeq
<1>2. \A e \in ToSet(events) :
         Wants(e, filter, afterSeq, event.seq) <=> Wants(e, filter, afterSeq, event.seq - 1)
  BY <1>1 DEF Wants
<1>3. Wants(event, filter, afterSeq, event.seq)
  BY <1>1 DEF Wants
<1>4. Increasing(s) /\ ToSet(s) \subseteq ToSet(events)
  BY DEF Stream
<1>5. Increasing(Append(s, event))
  BY <1>4, AppendIncreases
<1>6. QED BY <1>1, <1>2, <1>3, <1>5 DEF Stream

\* One that has everything after a number queued, and nothing is queued, has everything.
LEMMA StreamUpTo ==
    ASSUME NEW s, NEW events \in Seq(Event), NEW filter,
           NEW afterSeq \in Nat, NEW cursor \in Nat, NEW last \in Nat, cursor <= last,
           afterSeq <= cursor,
           Stream(s, events, filter, afterSeq, cursor),
           Stream(<<>>, events, filter, cursor, last)
    PROVE  Stream(s, events, filter, afterSeq, last)
<1>1. \A e \in ToSet(events) : e.seq \in Nat
  BY EventSeqElements
<1>2. \A e \in ToSet(events) : ~Wants(e, filter, cursor, last)
  BY EmptyIncreases DEF Stream
<1>3. \A e \in ToSet(events) : Wants(e, filter, afterSeq, cursor) <=> Wants(e, filter, afterSeq, last)
  BY <1>1, <1>2 DEF Wants
<1>4. QED BY <1>3 DEF Stream

\* What is read is the next of the stream, and the rest is queued after it.
LEMMA StreamReads ==
    ASSUME NEW s \in Seq(Event), NEW q \in Seq(Event), NEW events \in Seq(Event), NEW filter,
           NEW afterSeq \in Nat, NEW cursor \in Nat, NEW last \in Nat, afterSeq <= cursor,
           Stream(s, events, filter, afterSeq, cursor),
           Stream(q, events, filter, cursor, last), q # <<>>
    PROVE  /\ Head(q) \in Event /\ cursor < Head(q).seq /\ Head(q).seq <= last
           /\ Tail(q) \in Seq(Event)
           /\ Stream(Append(s, Head(q)), events, filter, afterSeq, Head(q).seq)
           /\ Stream(Tail(q), events, filter, Head(q).seq, last)
<1> DEFINE h == Head(q)
           r == Tail(q)
<1>1. /\ Len(q) \in Nat \ {0} /\ h = q[1] /\ h \in Event
      /\ r \in Seq(Event) /\ Len(r) = Len(q) - 1 /\ \A i \in 1..Len(r) : r[i] = q[i + 1]
  BY HeadTailProperties, LenProperties, EmptySeq
<1>2. /\ \A e \in ToSet(events) : e.seq \in Nat
      /\ h.seq \in Nat
      /\ DOMAIN q = 1..Len(q) /\ DOMAIN r = 1..Len(r)
      /\ \A i \in 1..Len(q) : q[i].seq \in Nat
      /\ ToSet(q) = {q[i] : i \in 1..Len(q)} /\ ToSet(r) = {r[i] : i \in 1..Len(r)}
  BY <1>1, EventSeqElements, EventHasSeq
<1> HIDE DEF h, r
<1>3. h \in ToSet(q) /\ h \in ToSet(events) /\ Wants(h, filter, cursor, last)
  BY <1>1, <1>2 DEF Stream
<1>4. cursor < h.seq /\ h.seq <= last /\ Matches(filter, h)
  BY <1>3 DEF Wants
<1>5. \A i, j \in 1..Len(q) : i < j => q[i].seq < q[j].seq
  BY <1>2 DEF Stream, Increasing
<1>6. Increasing(r)
  <2> SUFFICES ASSUME NEW i \in 1..Len(r), NEW j \in 1..Len(r), i < j
               PROVE  r[i].seq < r[j].seq
      BY <1>2 DEF Increasing
  <2>1. i + 1 \in 1..Len(q) /\ j + 1 \in 1..Len(q) /\ i + 1 < j + 1
    BY <1>1
  <2>2. QED BY <1>1, <1>5, <2>1
<1>7. ToSet(r) = {e \in ToSet(q) : h.seq < e.seq}
  <2>1. ASSUME NEW i \in 1..Len(r)
        PROVE  r[i] \in ToSet(q) /\ h.seq < r[i].seq
    <3>1. i + 1 \in 1..Len(q) /\ 1 \in 1..Len(q) /\ 1 < i + 1
      BY <1>1
    <3>2. QED BY <1>1, <1>2, <1>5, <3>1
  <2>2. ASSUME NEW i \in 1..Len(q), h.seq < q[i].seq
        PROVE  q[i] \in ToSet(r)
    <3>1. i # 1
      BY <1>1, <1>2, <2>2
    <3>2. i - 1 \in 1..Len(r) /\ r[i - 1] = q[(i - 1) + 1] /\ (i - 1) + 1 = i
      BY <1>1, <3>1
    <3>3. QED BY <1>2, <3>2
  <2>3. QED BY <1>2, <2>1, <2>2
<1>8. \A e \in ToSet(events) : Wants(e, filter, h.seq, last) <=>
                                  Wants(e, filter, cursor, last) /\ h.seq < e.seq
  BY <1>2, <1>4 DEF Wants
<1>9. Stream(r, events, filter, h.seq, last)
  BY <1>6, <1>7, <1>8 DEF Stream
<1>10. \A e \in ToSet(q) : e = h \/ h.seq < e.seq
  <2> SUFFICES ASSUME NEW i \in 1..Len(q), i # 1 PROVE h.seq < q[i].seq
      BY <1>1, <1>2
  <2>1. 1 \in 1..Len(q) /\ 1 < i
    OBVIOUS
  <2>2. QED BY <1>1, <1>5, <2>1
<1>11. \A e \in ToSet(events) : Wants(e, filter, afterSeq, h.seq) <=>
                                   Wants(e, filter, afterSeq, cursor) \/ e = h
  <2> SUFFICES ASSUME NEW e \in ToSet(events)
               PROVE  Wants(e, filter, afterSeq, h.seq) <=>
                         Wants(e, filter, afterSeq, cursor) \/ e = h
      OBVIOUS
  <2>1. CASE e.seq <= cursor
    BY <1>2, <1>4, <2>1 DEF Wants
  <2>2. CASE ~(e.seq <= cursor)
    <3>1. Wants(e, filter, afterSeq, h.seq) => e \in ToSet(q) /\ ~(h.seq < e.seq)
      BY <1>2, <1>4, <2>2 DEF Wants, Stream
    <3>2. Wants(e, filter, afterSeq, h.seq) => e = h
      BY <1>10, <3>1
    <3>3. e = h => Wants(e, filter, afterSeq, h.seq)
      BY <1>2, <1>4 DEF Wants
    <3>4. ~Wants(e, filter, afterSeq, cursor)
      BY <2>2 DEF Wants
    <3>5. QED BY <3>2, <3>3, <3>4
  <2>3. QED BY <2>1, <2>2
<1>12. \A d \in ToSet(s) : d.seq < h.seq
  BY <1>2, <1>4 DEF Stream, Wants
<1>13. Increasing(Append(s, h)) /\ ToSet(Append(s, h)) = ToSet(s) \cup {h}
  BY <1>1, <1>12, AppendIncreases, AppendMembers DEF Stream
<1>14. Stream(Append(s, h), events, filter, afterSeq, h.seq)
  BY <1>3, <1>11, <1>13 DEF Stream
<1>15. QED BY <1>1, <1>4, <1>9, <1>14 DEF h, r

\* What was got and what is queued are one stream.
LEMMA StreamJoins ==
    ASSUME NEW s \in Seq(Event), NEW q \in Seq(Event), NEW events \in Seq(Event), NEW filter,
           NEW afterSeq \in Nat, NEW cursor \in Nat, NEW last \in Nat,
           afterSeq <= cursor, cursor <= last,
           Stream(s, events, filter, afterSeq, cursor),
           Stream(q, events, filter, cursor, last)
    PROVE  s \o q \in Seq(Event) /\ Stream(s \o q, events, filter, afterSeq, last)
<1> DEFINE t == s \o q
<1>1. /\ Len(s) \in Nat /\ Len(q) \in Nat
      /\ t \in Seq(Event) /\ Len(t) = Len(s) + Len(q)
      /\ \A i \in 1..Len(t) : t[i] = IF i <= Len(s) THEN s[i] ELSE q[i - Len(s)]
  BY LenProperties, ConcatProperties
<1> HIDE DEF t
<1>2. /\ \A e \in ToSet(events) : e.seq \in Nat
      /\ DOMAIN s = 1..Len(s) /\ DOMAIN q = 1..Len(q) /\ DOMAIN t = 1..Len(t)
      /\ \A i \in 1..Len(s) : s[i].seq \in Nat /\ s[i] \in ToSet(s)
      /\ \A i \in 1..Len(q) : q[i].seq \in Nat /\ q[i] \in ToSet(q)
  BY <1>1, EventSeqElements
<1>3. /\ \A i \in 1..Len(s) : s[i].seq <= cursor
      /\ \A i \in 1..Len(q) : cursor < q[i].seq
  BY <1>2 DEF Stream, Wants
<1>4. Increasing(t)
  <2> SUFFICES ASSUME NEW i \in 1..Len(t), NEW j \in 1..Len(t), i < j
               PROVE  t[i].seq < t[j].seq
      BY <1>2 DEF Increasing
  <2>1. CASE j <= Len(s)
    <3>1. i \in 1..Len(s) /\ j \in 1..Len(s) /\ t[i] = s[i] /\ t[j] = s[j]
      BY <1>1, <2>1
    <3>2. QED BY <1>2, <3>1 DEF Stream, Increasing
  <2>2. CASE i <= Len(s) /\ ~(j <= Len(s))
    <3>1. i \in 1..Len(s) /\ j - Len(s) \in 1..Len(q) /\ t[i] = s[i] /\ t[j] = q[j - Len(s)]
      <4>1. i \in 1..Len(s) /\ j - Len(s) \in 1..Len(q)
        BY <1>1, <2>2
      <4>2. t[i] = s[i]
        BY <1>1, <2>2
      <4>3. t[j] = q[j - Len(s)]
        BY <1>1, <2>2
      <4>4. QED BY <4>1, <4>2, <4>3
    <3>2. QED BY <1>2, <1>3, <3>1
  <2>3. CASE ~(i <= Len(s))
    <3>1. /\ i - Len(s) \in 1..Len(q) /\ j - Len(s) \in 1..Len(q)
          /\ i - Len(s) < j - Len(s)
          /\ t[i] = q[i - Len(s)] /\ t[j] = q[j - Len(s)]
      BY <1>1, <2>3
    <3>2. QED BY <1>2, <3>1 DEF Stream, Increasing
  <2>4. QED BY <2>1, <2>2, <2>3
<1>5. ToSet(t) = ToSet(s) \cup ToSet(q)
  <2>1. ASSUME NEW i \in 1..Len(t) PROVE t[i] \in ToSet(s) \cup ToSet(q)
    <3>1. CASE i <= Len(s)
      BY <1>1, <1>2, <3>1
    <3>2. CASE ~(i <= Len(s))
      <4>1. i - Len(s) \in 1..Len(q)
        BY <1>1, <3>2
      <4>2. QED BY <1>1, <1>2, <3>2, <4>1
    <3>3. QED BY <3>1, <3>2
  <2>2. ASSUME NEW i \in 1..Len(s) PROVE s[i] \in ToSet(t)
    <3>1. i \in 1..Len(t) /\ t[i] = s[i]
      BY <1>1
    <3>2. QED BY <1>2, <3>1 DEF ToSet
  <2>3. ASSUME NEW i \in 1..Len(q) PROVE q[i] \in ToSet(t)
    <3>1. /\ i + Len(s) \in 1..Len(t) /\ ~(i + Len(s) <= Len(s))
          /\ (i + Len(s)) - Len(s) = i
      BY <1>1
    <3>2. t[i + Len(s)] = q[i]
      BY <1>1, <3>1
    <3>3. QED BY <1>2, <3>1, <3>2 DEF ToSet
  <2>4. QED BY <1>2, <2>1, <2>2, <2>3 DEF ToSet
<1>6. \A e \in ToSet(events) : Wants(e, filter, afterSeq, last) <=>
         Wants(e, filter, afterSeq, cursor) \/ Wants(e, filter, cursor, last)
  BY <1>2 DEF Wants
<1>7. Stream(t, events, filter, afterSeq, last)
  BY <1>4, <1>5, <1>6 DEF Stream
<1>8. QED BY <1>1, <1>7 DEF t

-----------------------------------------------------------------------------
(* The steps. *)

Subscription == [open : BOOLEAN, queue : Seq(Event), waiting : BOOLEAN]

ClientUpTo(e) == [filter : Session \cup {AllSessions}, epoch : 0 .. e,
                  cursor : 0 .. MaxSeq, since : 0 .. MaxSeq, gap : BOOLEAN,
                  log : Seq(Event)]

LEMMA Typed ==
    ASSUME IInv
    PROVE  /\ epoch \in 1..MaxEpoch /\ nextSeq \in 1..(MaxSeq + 1)
           /\ historyBuffer \in [0..(Capacity - 1) -> Event \cup {NoEvent}]
           /\ historyHead \in 0..(Capacity - 1) /\ historyCount \in 0..Capacity
           /\ sub \in [Client -> Subscription] /\ client \in [Client -> ClientUpTo(epoch)]
           /\ emitted \in Seq(Event) /\ Len(emitted) \in Nat /\ nextSeq = Len(emitted) + 1
BY EmittedIs DEF IInv, TypeOK, Subscription, ClientUpTo

LEMMA ClientTyped ==
    ASSUME IInv, NEW c \in Client
    PROVE  /\ sub[c] \in Subscription /\ client[c] \in ClientUpTo(epoch)
           /\ sub[c].open \in BOOLEAN /\ sub[c].waiting \in BOOLEAN /\ sub[c].queue \in Seq(Event)
           /\ client[c].filter \in Session \cup {AllSessions} /\ client[c].log \in Seq(Event)
           /\ client[c].epoch \in 0..epoch
           /\ client[c].cursor \in 0..MaxSeq /\ client[c].since \in 0..MaxSeq
           /\ client[c].cursor \in Nat /\ client[c].since \in Nat
           /\ StreamInOrder(c)
<1>1. sub[c] \in Subscription /\ client[c] \in ClientUpTo(epoch) /\ epoch \in Nat
  BY Typed
<1>2. /\ sub[c].open \in BOOLEAN /\ sub[c].waiting \in BOOLEAN /\ sub[c].queue \in Seq(Event)
  BY <1>1 DEF Subscription
<1>3. /\ client[c].filter \in Session \cup {AllSessions} /\ client[c].log \in Seq(Event)
      /\ client[c].epoch \in 0..epoch
      /\ client[c].cursor \in 0..MaxSeq /\ client[c].since \in 0..MaxSeq
  BY <1>1 DEF ClientUpTo
<1>4. client[c].cursor \in Nat /\ client[c].since \in Nat
  BY <1>3
<1>5. StreamInOrder(c)
  BY DEF IInv, StreamsInOrder
<1>6. QED BY <1>1, <1>2, <1>3, <1>4, <1>5

\* A step of one client, or of none: the bus and the others are as they were.
LEMMA ClientStep ==
    ASSUME IInv, UNCHANGED <<bus, emitted>>, NEW c \in Client,
           NEW s \in Subscription, NEW k \in ClientUpTo(epoch),
           sub' = [sub EXCEPT ![c] = s], client' = [client EXCEPT ![c] = k],
           s.open => k.epoch = epoch, s.waiting => s.queue = <<>>,
           k.epoch = epoch =>
              /\ k.since <= k.cursor /\ k.cursor < nextSeq
              /\ Stream(k.log, emitted, k.filter, k.since, k.cursor)
              /\ s.open => Stream(s.queue, emitted, k.filter, k.cursor, nextSeq - 1)
    PROVE  IInv'
<1>1. /\ epoch' = epoch /\ nextSeq' = nextSeq /\ historyBuffer' = historyBuffer
      /\ historyHead' = historyHead /\ historyCount' = historyCount /\ emitted' = emitted
  BY DEF bus
<1>2. sub' \in [Client -> Subscription] /\ client' \in [Client -> ClientUpTo(epoch)]
  BY Typed
<1>3. TypeOK'
  BY <1>1, <1>2, Typed DEF TypeOK, Subscription, ClientUpTo
<1>4. EmittedInOrder' /\ RingHoldsNewest'
  BY <1>1 DEF IInv, EmittedInOrder, RingHoldsNewest
<1>5. ASSUME NEW d \in Client PROVE StreamInOrder(d)'
  <2>1. CASE d = c
    <3>1. sub'[d] = s /\ client'[d] = k
      BY <2>1, Typed
    <3>2. QED BY <1>1, <3>1 DEF StreamInOrder
  <2>2. CASE d # c
    <3>1. sub'[d] = sub[d] /\ client'[d] = client[d]
      BY <2>2, Typed
    <3>2. QED BY <1>1, <3>1, ClientTyped DEF StreamInOrder
  <2>3. QED BY <2>1, <2>2
<1>6. QED BY <1>3, <1>4, <1>5 DEF IInv, StreamsInOrder

LEMMA SubscribeAfreshStep ==
    ASSUME IInv, NEW c \in Client, NEW filter \in Session \cup {AllSessions},
           SubscribeAfresh(c, filter)
    PROVE  IInv'
<1>1. PICK afterSeq \in {IF historyCount = 0 THEN nextSeq - 1 ELSE Oldest.seq - 1, nextSeq - 1} :
         /\ Open(c, filter, afterSeq)
         /\ client' = [client EXCEPT ![c] =
                          [filter |-> filter, epoch |-> epoch, cursor |-> afterSeq,
                           since |-> afterSeq, gap |-> FALSE, log |-> <<>>]]
  BY DEF SubscribeAfresh
<1> DEFINE q == HistorySnapshot(filter, afterSeq)
           s == [open |-> TRUE, waiting |-> FALSE, queue |-> q]
           k == [filter |-> filter, epoch |-> epoch, cursor |-> afterSeq,
                 since |-> afterSeq, gap |-> FALSE, log |-> <<>>]
<1>2. /\ historyCount \in 0..Len(emitted)
      /\ historyCount > 0 => Oldest.seq = (Len(emitted) - historyCount) + 1
  BY BufferedIs DEF IInv
<1>3. /\ afterSeq \in 0..MaxSeq /\ afterSeq < nextSeq
      /\ Len(emitted) - historyCount <= afterSeq
  BY <1>1, <1>2, Typed
<1>4. /\ q \in Seq(Event) /\ Increasing(q)
      /\ ToSet(q) = {e \in ToSet(emitted) : /\ Len(emitted) - historyCount < e.seq
                                            /\ Wants(e, filter, afterSeq, nextSeq - 1)}
  BY SnapshotIs DEF IInv
<1>5. \A e \in ToSet(emitted) : e.seq \in Nat
  BY Typed, EventSeqElements
<1>6. Stream(q, emitted, filter, afterSeq, nextSeq - 1)
  BY <1>2, <1>3, <1>4, <1>5, Typed DEF Stream, Wants
<1>7. Stream(<<>>, emitted, filter, afterSeq, afterSeq)
  BY <1>3, <1>5, EmptyStream
<1>8. s \in Subscription /\ k \in ClientUpTo(epoch)
  BY <1>3, <1>4, Typed, EmptySeq DEF Subscription, ClientUpTo
<1>9. /\ sub' = [sub EXCEPT ![c] = s] /\ client' = [client EXCEPT ![c] = k]
      /\ UNCHANGED <<bus, emitted>>
  BY <1>1 DEF Open, SubscribeAfresh
<1>10. /\ s.open /\ ~s.waiting /\ s.queue = q
       /\ k.epoch = epoch /\ k.filter = filter /\ k.log = <<>>
       /\ k.since = afterSeq /\ k.cursor = afterSeq
  OBVIOUS
<1> HIDE DEF q, s, k
<1>11. /\ Stream(k.log, emitted, k.filter, k.since, k.cursor)
       /\ Stream(s.queue, emitted, k.filter, k.cursor, nextSeq - 1)
       /\ k.since <= k.cursor /\ k.cursor < nextSeq
  BY <1>3, <1>6, <1>7, <1>10
<1>12. QED BY <1>8, <1>9, <1>10, <1>11, ClientStep

LEMMA ResumeStep ==
    ASSUME IInv, NEW c \in Client, Resume(c)
    PROVE  IInv'
<1> DEFINE cursor == client[c].cursor
           filter == client[c].filter
           q == HistorySnapshot(filter, cursor)
           s == [open |-> TRUE, waiting |-> FALSE, queue |-> q]
<1>1. /\ client[c].epoch = epoch
      /\ sub' = [sub EXCEPT ![c] = s] /\ UNCHANGED <<bus, emitted>>
  BY DEF Resume, Open
<1>2. /\ historyCount \in 0..Len(emitted)
      /\ historyCount > 0 => Oldest.seq = (Len(emitted) - historyCount) + 1
      /\ historyCount = 0 => Len(emitted) = 0
      /\ Len(emitted) \in Nat /\ nextSeq = Len(emitted) + 1 /\ nextSeq <= MaxSeq + 1
  <2>1. historyCount = 0 => Len(emitted) = 0
    BY Typed DEF IInv, RingHoldsNewest
  <2>2. QED BY <2>1, BufferedIs, Typed DEF IInv
<1>3. /\ q \in Seq(Event) /\ Increasing(q)
      /\ ToSet(q) = {e \in ToSet(emitted) : /\ Len(emitted) - historyCount < e.seq
                                            /\ Wants(e, filter, cursor, nextSeq - 1)}
  BY SnapshotIs DEF IInv
<1>4. /\ filter \in Session \cup {AllSessions} /\ cursor \in 0..MaxSeq /\ cursor \in Nat
      /\ client[c] \in ClientUpTo(epoch)
      /\ client[c].since <= cursor /\ cursor < nextSeq
      /\ Stream(client[c].log, emitted, filter, client[c].since, cursor)
  BY <1>1, ClientTyped DEF StreamInOrder
<1>5. \A e \in ToSet(emitted) : e.seq \in Nat
  BY Typed, EventSeqElements
<1>6. s \in Subscription /\ s.open /\ ~s.waiting /\ s.queue = q
  BY <1>3 DEF Subscription
<1> HIDE DEF q, s
<1>7. CASE IsReplayTruncated(cursor)
  <2> DEFINE first == Oldest.seq - 1
             k == [client[c] EXCEPT !.log = <<>>, !.gap = TRUE, !.since = first, !.cursor = first]
  <2>1. /\ historyCount > 0 /\ Oldest.seq > cursor + 1
        /\ client' = [client EXCEPT ![c].log = <<>>, ![c].gap = TRUE,
                                     ![c].since = first, ![c].cursor = first]
    BY <1>7 DEF Resume, IsReplayTruncated
  <2>2. first = Len(emitted) - historyCount
    BY <1>2, <2>1
  <2>3. first \in 0..MaxSeq /\ first < nextSeq /\ cursor < first
    BY <1>2, <1>4, <2>1, <2>2
  <2>4. Stream(q, emitted, filter, first, nextSeq - 1)
    <3>1. \A e \in ToSet(emitted) :
             Wants(e, filter, first, nextSeq - 1) <=>
                /\ Len(emitted) - historyCount < e.seq
                /\ Wants(e, filter, cursor, nextSeq - 1)
      BY <1>4, <1>5, <2>2, <2>3 DEF Wants
    <3>2. QED BY <1>3, <3>1 DEF Stream
  <2>5. Stream(<<>>, emitted, filter, first, first)
    BY <1>5, <2>3, EmptyStream
  <2>6. client' = [client EXCEPT ![c] = k]
    BY <2>1, Typed
  <2>7. k \in ClientUpTo(epoch)
    BY <1>4, <2>3, EmptySeq DEF ClientUpTo
  <2>8. /\ k.epoch = epoch /\ k.filter = filter /\ k.log = <<>>
        /\ k.since = first /\ k.cursor = first
    BY <1>1, <1>4 DEF ClientUpTo
  <2> HIDE DEF k, first
  <2>9. first <= first
    BY <2>3
  <2>10. QED BY <1>1, <1>6, <2>3, <2>4, <2>5, <2>6, <2>7, <2>8, <2>9, ClientStep
<1>8. CASE ~IsReplayTruncated(cursor)
  <2>1. client' = client
    BY <1>8 DEF Resume
  <2>2. client' = [client EXCEPT ![c] = client[c]]
    BY <2>1, Typed
  <2>3. Len(emitted) - historyCount <= cursor
    BY <1>2, <1>4, <1>8, Typed DEF IsReplayTruncated
  <2>4. Stream(q, emitted, filter, cursor, nextSeq - 1)
    <3>1. \A e \in ToSet(emitted) :
             Wants(e, filter, cursor, nextSeq - 1) => Len(emitted) - historyCount < e.seq
      BY <1>2, <1>4, <1>5, <2>3, Typed DEF Wants
    <3>2. QED BY <1>3, <3>1 DEF Stream
  <2>5. QED BY <1>1, <1>4, <1>6, <2>2, <2>4, ClientStep
<1>9. QED BY <1>7, <1>8

LEMMA ResumeStaleStep ==
    ASSUME IInv, NEW c \in Client, ResumeStale(c)
    PROVE  IInv'
<1>1. /\ ~sub[c].open /\ client' = [client EXCEPT ![c] = NewClient]
      /\ sub' = sub /\ UNCHANGED <<bus, emitted>>
  BY DEF ResumeStale
<1>2. sub' = [sub EXCEPT ![c] = sub[c]] /\ sub[c] \in Subscription
  BY <1>1, Typed
<1>3. /\ NewClient \in ClientUpTo(epoch) /\ NewClient.epoch # epoch
  BY Typed, EmptySeq DEF NewClient, ClientUpTo
<1>4. sub[c].waiting => sub[c].queue = <<>>
  BY ClientTyped DEF StreamInOrder
<1>5. QED BY <1>1, <1>2, <1>3, <1>4, ClientStep

LEMMA ReadNextStep ==
    ASSUME IInv, NEW c \in Client, ReadNext(c)
    PROVE  IInv'
<1>1. /\ sub[c].open /\ ~sub[c].waiting /\ UNCHANGED <<bus, emitted>>
  BY DEF ReadNext
<1>2. /\ sub[c] \in Subscription /\ client[c] \in ClientUpTo(epoch)
      /\ client[c].epoch = epoch /\ sub[c].queue \in Seq(Event) /\ client[c].log \in Seq(Event)
      /\ client[c].since \in Nat /\ client[c].cursor \in Nat
      /\ client[c].since <= client[c].cursor /\ client[c].cursor < nextSeq
      /\ Stream(client[c].log, emitted, client[c].filter, client[c].since, client[c].cursor)
      /\ Stream(sub[c].queue, emitted, client[c].filter, client[c].cursor, nextSeq - 1)
  BY <1>1, ClientTyped DEF StreamInOrder
<1>3. CASE sub[c].queue = <<>>
  <2> DEFINE s == [sub[c] EXCEPT !.waiting = TRUE]
  <2>1. sub' = [sub EXCEPT ![c] = s] /\ client' = client
    BY <1>3, Typed DEF ReadNext
  <2>2. client' = [client EXCEPT ![c] = client[c]]
    BY <2>1, Typed
  <2>3. s \in Subscription /\ s.open /\ s.queue = <<>>
    BY <1>1, <1>2, <1>3 DEF Subscription
  <2> HIDE DEF s
  <2>4. QED BY <1>1, <1>2, <1>3, <2>1, <2>2, <2>3, ClientStep
<1>4. CASE sub[c].queue # <<>>
  <2> DEFINE h == Head(sub[c].queue)
             s == [sub[c] EXCEPT !.queue = Tail(@)]
             k == [client[c] EXCEPT !.log = Append(@, h), !.cursor = h.seq]
  <2>1. sub' = [sub EXCEPT ![c] = s] /\ client' = [client EXCEPT ![c] = k]
    BY <1>4, Typed DEF ReadNext, Receive
  <2>2. /\ h \in Event /\ client[c].cursor < h.seq /\ h.seq <= nextSeq - 1
        /\ Tail(sub[c].queue) \in Seq(Event)
        /\ Stream(Append(client[c].log, h), emitted, client[c].filter, client[c].since, h.seq)
        /\ Stream(Tail(sub[c].queue), emitted, client[c].filter, h.seq, nextSeq - 1)
    <3>1. nextSeq - 1 \in Nat /\ emitted \in Seq(Event)
      BY Typed
    <3>2. QED BY <1>2, <1>4, <3>1, StreamReads
  <2>3. h.seq \in 0..MaxSeq /\ Append(client[c].log, h) \in Seq(Event)
    BY <1>2, <2>2, EventHasSeq, AppendMembers
  <2>4. /\ s \in Subscription /\ s.open /\ ~s.waiting /\ s.queue = Tail(sub[c].queue)
    BY <1>1, <1>2, <2>2 DEF Subscription
  <2> DEFINE seq == h.seq
             log == Append(client[c].log, h)
  <2>5. /\ k \in ClientUpTo(epoch) /\ k.epoch = epoch /\ k.filter = client[c].filter
        /\ k.since = client[c].since /\ k.cursor = h.seq /\ k.log = Append(client[c].log, h)
    <3>1. /\ seq \in 0..MaxSeq /\ log \in Seq(Event)
          /\ k = [client[c] EXCEPT !.log = log, !.cursor = seq]
      BY <2>3
    <3> HIDE DEF seq, log, k
    <3>2. /\ k \in ClientUpTo(epoch) /\ k.epoch = epoch /\ k.filter = client[c].filter
          /\ k.since = client[c].since /\ k.cursor = seq /\ k.log = log
      BY <1>2, <3>1 DEF ClientUpTo
    <3>3. QED BY <3>2 DEF seq, log
  <2> HIDE DEF h, s, k, seq, log
  <2>6. k.since <= k.cursor /\ k.cursor < nextSeq
    <3>1. h.seq \in Nat /\ nextSeq \in Nat
      BY <2>3, Typed
    <3>2. client[c].since <= h.seq /\ h.seq < nextSeq
      BY <1>2, <2>2, <3>1
    <3>3. QED BY <2>5, <3>2
  <2>7. QED BY <1>1, <2>1, <2>2, <2>4, <2>5, <2>6, ClientStep
<1>5. QED BY <1>3, <1>4

LEMMA CloseStep ==
    ASSUME IInv, NEW c \in Client, Close(c)
    PROVE  IInv'
<1>1. /\ sub' = [sub EXCEPT ![c] = NoSubscription] /\ client' = client
      /\ UNCHANGED <<bus, emitted>>
  BY DEF Close
<1>2. client' = [client EXCEPT ![c] = client[c]] /\ client[c] \in ClientUpTo(epoch)
  BY <1>1, Typed
<1>3. /\ NoSubscription \in Subscription /\ ~NoSubscription.open /\ ~NoSubscription.waiting
  BY EmptySeq DEF NoSubscription, Subscription
<1>4. StreamInOrder(c)
  BY ClientTyped
<1>5. QED BY <1>1, <1>2, <1>3, <1>4, ClientStep DEF StreamInOrder

LEMMA EmitRingStep ==
    ASSUME IInv, NEW s \in Session, Emit(s)
    PROVE  RingHoldsNewest'
<1> DEFINE event == [seq |-> nextSeq, session |-> s]
           n == Len(emitted)
<1>1. /\ historyBuffer' = [historyBuffer EXCEPT ![historyHead] = event]
      /\ historyHead' = (historyHead + 1) % Capacity
      /\ historyCount' = IF historyCount < Capacity THEN historyCount + 1 ELSE historyCount
      /\ emitted' = Append(emitted, event)
  BY DEF Emit
<1> HIDE DEF event
<1>2. /\ n \in Nat /\ Len(emitted') = n + 1 /\ emitted'[n + 1] = event
      /\ \A i \in 1..n : emitted'[i] = emitted[i]
  BY <1>1, Typed, AppendProperties
<1>3. /\ historyHead \in 0..(Capacity - 1) /\ historyCount \in 0..Capacity
      /\ historyBuffer'[historyHead] = event
      /\ \A i \in 0..(Capacity - 1) : i # historyHead => historyBuffer'[i] = historyBuffer[i]
  BY <1>1, Typed
<1>4. historyHead' = IF historyHead + 1 < Capacity THEN historyHead + 1 ELSE 0
  <2> DEFINE x == historyHead + 1
  <2>1. x \in Nat /\ x < 2 * Capacity /\ x <= Capacity
    BY <1>3, CapacityAssumption
  <2>2. historyHead' = x % Capacity
    BY <1>1
  <2> HIDE DEF x
  <2>3. x % Capacity = IF x < Capacity THEN x ELSE x - Capacity
    BY <2>1, Modulo
  <2>4. x % Capacity = IF x < Capacity THEN x ELSE 0
    BY <2>1, <2>3, CapacityAssumption
  <2>5. QED BY <2>2, <2>4 DEF x
<1>5. /\ historyCount = IF n < Capacity THEN n ELSE Capacity
      /\ historyCount < Capacity => historyHead = historyCount
      /\ \A i \in 0..(historyHead - 1) : historyBuffer[i] = emitted[n - historyHead + i + 1]
      /\ historyCount = Capacity =>
            \A i \in historyHead..(Capacity - 1) :
               historyBuffer[i] = emitted[n - historyHead - Capacity + i + 1]
  BY DEF IInv, RingHoldsNewest
<1> HIDE DEF n
<1>6. historyHead <= n
  BY <1>2, <1>3, <1>5
<1>7. historyCount' = IF n + 1 < Capacity THEN n + 1 ELSE Capacity
  BY <1>1, <1>2, <1>5
<1>8. historyCount' < Capacity => historyHead' = historyCount'
  BY <1>1, <1>2, <1>3, <1>4, <1>5, <1>7
<1>9. ASSUME NEW i \in 0..(historyHead' - 1)
      PROVE  historyBuffer'[i] = emitted'[(n + 1) - historyHead' + i + 1]
  <2>1. historyHead' = historyHead + 1 /\ i \in 0..historyHead
    BY <1>3, <1>4
  <2>2. CASE i = historyHead
    <3>1. (n + 1) - historyHead' + i + 1 = n + 1
      BY <1>2, <1>3, <2>1, <2>2
    <3>2. QED BY <1>2, <1>3, <2>2, <3>1
  <2>3. CASE i \in 0..(historyHead - 1)
    <3>1. /\ (n + 1) - historyHead' + i + 1 = n - historyHead + i + 1
          /\ n - historyHead + i + 1 \in 1..n
      <4>1. n \in Int /\ historyHead \in Int /\ i \in Int /\ 0 <= i /\ i <= historyHead - 1
        BY <1>2, <1>3, <2>3
      <4>2. n - historyHead + i + 1 \in 1..n
        BY <1>6, <4>1
      <4>3. (n + 1) - (historyHead + 1) + i + 1 = n - historyHead + i + 1
        BY <4>1
      <4>4. QED BY <2>1, <4>2, <4>3
    <3>2. historyBuffer'[i] = historyBuffer[i]
      BY <1>3, <2>3
    <3>3. QED BY <1>2, <1>5, <2>3, <3>1, <3>2
  <2>4. QED BY <1>3, <2>1, <2>2, <2>3
<1>10. ASSUME historyCount' = Capacity, NEW i \in historyHead'..(Capacity - 1)
       PROVE  historyBuffer'[i] = emitted'[(n + 1) - historyHead' - Capacity + i + 1]
  <2>1. CASE historyHead + 1 < Capacity
    <3>1. historyHead' = historyHead + 1 /\ i \in (historyHead + 1)..(Capacity - 1)
      BY <1>4, <2>1
    <3>2. historyCount = Capacity /\ Capacity <= n
      BY <1>1, <1>2, <1>3, <1>5, <1>10, <2>1
    <3>3. /\ (n + 1) - historyHead' - Capacity + i + 1 = n - historyHead - Capacity + i + 1
          /\ n - historyHead - Capacity + i + 1 \in 1..n
      BY <1>2, <1>3, <3>1, <3>2
    <3>4. historyBuffer'[i] = historyBuffer[i] /\ i \in historyHead..(Capacity - 1)
      BY <1>3, <3>1
    <3>5. QED BY <1>2, <1>5, <3>2, <3>3, <3>4
  <2>2. CASE ~(historyHead + 1 < Capacity)
    <3>1. historyHead' = 0 /\ historyHead = Capacity - 1 /\ i \in 0..historyHead
      BY <1>3, <1>4, <2>2
    <3>2. CASE i = historyHead
      <4>1. (n + 1) - historyHead' - Capacity + i + 1 = n + 1
        BY <1>2, <3>1, <3>2
      <4>2. QED BY <1>2, <1>3, <3>2, <4>1
    <3>3. CASE i \in 0..(historyHead - 1)
      <4>1. /\ (n + 1) - historyHead' - Capacity + i + 1 = n - historyHead + i + 1
            /\ n - historyHead + i + 1 \in 1..n
        BY <1>2, <1>6, <3>1, <3>3
      <4>2. historyBuffer'[i] = historyBuffer[i]
        BY <1>3, <3>3
      <4>3. QED BY <1>2, <1>5, <3>3, <4>1, <4>2
    <3>4. QED BY <1>3, <3>1, <3>2, <3>3
  <2>3. QED BY <2>1, <2>2
<1>11. QED BY <1>2, <1>7, <1>8, <1>9, <1>10 DEF RingHoldsNewest

LEMMA EmitStreamStep ==
    ASSUME IInv, NEW s \in Session, Emit(s), NEW c \in Client
    PROVE  /\ sub'[c] \in Subscription /\ client'[c] \in ClientUpTo(epoch)
           /\ StreamInOrder(c)'
<1> DEFINE event == [seq |-> nextSeq, session |-> s]
           reached == sub[c].open /\ Matches(client[c].filter, event)
<1>1. /\ nextSeq <= MaxSeq /\ nextSeq' = nextSeq + 1 /\ epoch' = epoch
      /\ emitted' = Append(emitted, event)
      /\ sub'[c] = IF ~reached THEN sub[c]
                   ELSE IF sub[c].waiting THEN [sub[c] EXCEPT !.waiting = FALSE]
                   ELSE [sub[c] EXCEPT !.queue = Append(@, event)]
      /\ client'[c] = IF reached /\ sub[c].waiting
                      THEN [client[c] EXCEPT !.log = Append(@, event), !.cursor = event.seq]
                      ELSE client[c]
  BY DEF Emit, Push, Receive
<1>2. /\ event \in Event /\ event.seq = nextSeq /\ nextSeq \in Nat /\ nextSeq - 1 \in Nat
      /\ emitted \in Seq(Event)
      /\ \A e \in ToSet(emitted) : e.seq < event.seq /\ e.seq \in Nat
  <2>1. \A e \in ToSet(emitted) : e.seq \in 1..Len(emitted)
    BY EmittedIs DEF IInv
  <2>2. QED BY <1>1, <2>1, Typed DEF Event
<1> HIDE DEF event, reached
<1>3. /\ sub[c] \in Subscription /\ client[c] \in ClientUpTo(epoch)
      /\ sub[c].queue \in Seq(Event) /\ client[c].log \in Seq(Event)
      /\ client[c].cursor \in Nat /\ client[c].since \in Nat
      /\ StreamInOrder(c)
  BY ClientTyped
<1> DEFINE k == client[c]
           q == sub[c].queue
<1>4. CASE client[c].epoch # epoch
  <2>1. ~sub[c].open
    BY <1>3, <1>4 DEF StreamInOrder
  <2>2. sub'[c] = sub[c] /\ client'[c] = client[c]
    BY <1>1, <2>1 DEF reached
  <2>3. QED BY <1>1, <1>3, <1>4, <2>1, <2>2 DEF StreamInOrder
<1>5. CASE client[c].epoch = epoch /\ ~reached
  <2>1. sub'[c] = sub[c] /\ client'[c] = client[c]
    BY <1>1, <1>5
  <2>2. /\ k.since <= k.cursor /\ k.cursor < nextSeq
        /\ Stream(k.log, emitted, k.filter, k.since, k.cursor)
        /\ sub[c].open => Stream(q, emitted, k.filter, k.cursor, nextSeq - 1)
        /\ sub[c].waiting => q = <<>>
    BY <1>3, <1>5 DEF StreamInOrder
  <2>3. Stream(k.log, emitted', k.filter, k.since, k.cursor)
    BY <1>1, <1>2, <1>3, <2>2, StreamKept
  <2>4. sub[c].open => Stream(q, emitted', k.filter, k.cursor, nextSeq)
    <3>1. sub[c].open => ~Matches(k.filter, event)
      BY <1>5 DEF reached
    <3>2. QED BY <1>1, <1>2, <1>3, <2>2, <3>1, StreamPasses
  <2>5. k.cursor < nextSeq' /\ nextSeq' - 1 = nextSeq
    <3>1. k.cursor \in Nat /\ nextSeq \in Nat /\ k.cursor < nextSeq /\ nextSeq' = nextSeq + 1
      BY <1>1, <1>2, <1>3, <2>2
    <3>2. QED BY <3>1
  <2>6. QED BY <1>1, <1>3, <1>5, <2>1, <2>2, <2>3, <2>4, <2>5 DEF StreamInOrder
<1>6. CASE client[c].epoch = epoch /\ reached
  <2>1. /\ k.since <= k.cursor /\ k.cursor < nextSeq
        /\ Stream(k.log, emitted, k.filter, k.since, k.cursor)
        /\ Stream(q, emitted, k.filter, k.cursor, nextSeq - 1)
        /\ sub[c].open /\ Matches(k.filter, event)
        /\ sub[c].waiting => q = <<>>
    BY <1>3, <1>6 DEF StreamInOrder, reached
  <2>2. nextSeq' - 1 = nextSeq /\ nextSeq < nextSeq'
    BY <1>1, <1>2
  <2>3. CASE sub[c].waiting
    <3>1. /\ sub'[c] = [sub[c] EXCEPT !.waiting = FALSE]
          /\ client'[c] = [client[c] EXCEPT !.log = Append(@, event), !.cursor = event.seq]
      BY <1>1, <1>6, <2>3
    <3>2. Stream(k.log, emitted, k.filter, k.since, nextSeq - 1)
      BY <1>2, <1>3, <2>1, <2>3, StreamUpTo
    <3>3. Stream(Append(k.log, event), emitted', k.filter, k.since, nextSeq)
      <4>1. k.since < event.seq
        BY <1>2, <1>3, <2>1
      <4>2. k.log \in Seq(Event) /\ k.since \in Nat
        BY <1>3
      <4>3. QED BY <1>1, <1>2, <2>1, <3>2, <4>1, <4>2, StreamGrows
    <3>4. Stream(<<>>, emitted', k.filter, nextSeq, nextSeq)
      <4>1. \A e \in ToSet(emitted') : e.seq \in Nat
        BY <1>1, <1>2, AppendMembers
      <4>2. QED BY <1>2, <4>1, EmptyStream
    <3>5. /\ sub'[c] \in Subscription /\ sub'[c].open /\ ~sub'[c].waiting
          /\ sub'[c].queue = <<>>
      BY <1>3, <2>1, <2>3, <3>1 DEF Subscription
    <3>6. /\ client'[c] \in ClientUpTo(epoch) /\ client'[c].epoch = epoch
          /\ client'[c].filter = k.filter /\ client'[c].since = k.since
          /\ client'[c].log = Append(k.log, event) /\ client'[c].cursor = nextSeq
      <4>1. nextSeq \in 0..MaxSeq /\ Append(k.log, event) \in Seq(Event)
        BY <1>1, <1>2, <1>3, AppendMembers
      <4>2. QED BY <1>2, <1>3, <1>6, <3>1, <4>1 DEF ClientUpTo
    <3>7. k.since <= nextSeq
      BY <1>2, <1>3, <2>1
    <3>8. QED BY <1>1, <2>2, <3>3, <3>4, <3>5, <3>6, <3>7 DEF StreamInOrder
  <2>4. CASE ~sub[c].waiting
    <3>1. /\ sub'[c] = [sub[c] EXCEPT !.queue = Append(@, event)]
          /\ client'[c] = client[c]
      BY <1>1, <1>6, <2>4
    <3>2. Stream(k.log, emitted', k.filter, k.since, k.cursor)
      BY <1>1, <1>2, <1>3, <2>1, StreamKept
    <3>3. Stream(Append(q, event), emitted', k.filter, k.cursor, nextSeq)
      BY <1>1, <1>2, <1>3, <2>1, StreamGrows
    <3>4. /\ sub'[c] \in Subscription /\ sub'[c].open /\ ~sub'[c].waiting
          /\ sub'[c].queue = Append(q, event)
      <4>1. Append(q, event) \in Seq(Event)
        BY <1>2, <1>3, AppendMembers
      <4>2. QED BY <1>3, <2>1, <2>4, <3>1, <4>1 DEF Subscription
    <3>5. k.cursor < nextSeq'
      BY <1>2, <1>3, <2>1, <2>2, <1>1
    <3>6. QED BY <1>1, <1>3, <1>6, <2>1, <2>2, <3>1, <3>2, <3>3, <3>4, <3>5 DEF StreamInOrder
  <2>5. QED BY <2>3, <2>4
<1>7. QED BY <1>4, <1>5, <1>6

LEMMA EmitStep ==
    ASSUME IInv, NEW s \in Session, Emit(s)
    PROVE  IInv'
<1> DEFINE event == [seq |-> nextSeq, session |-> s]
<1>1. /\ nextSeq <= MaxSeq /\ nextSeq' = nextSeq + 1 /\ epoch' = epoch
      /\ historyBuffer' = [historyBuffer EXCEPT ![historyHead] = event]
      /\ historyHead' = (historyHead + 1) % Capacity
      /\ historyCount' = IF historyCount < Capacity THEN historyCount + 1 ELSE historyCount
      /\ emitted' = Append(emitted, event)
  BY DEF Emit
<1>2. event \in Event /\ event.seq = nextSeq
  BY <1>1, Typed DEF Event
<1> HIDE DEF event
<1>3. EmittedInOrder'
  <2>1. /\ emitted' \in Seq(Event) /\ Len(emitted') = Len(emitted) + 1
        /\ \A i \in 1..Len(emitted) : emitted'[i] = emitted[i]
        /\ emitted'[Len(emitted) + 1] = event
    BY <1>1, <1>2, Typed, AppendProperties
  <2>2. ASSUME NEW i \in 1..Len(emitted') PROVE emitted'[i].seq = i
    <3>1. CASE i \in 1..Len(emitted)
      BY <2>1, <3>1 DEF IInv, EmittedInOrder
    <3>2. CASE i = Len(emitted) + 1
      BY <1>2, <2>1, <3>2, Typed
    <3>3. QED BY <2>1, <3>1, <3>2, Typed
  <2>3. QED BY <1>1, <2>1, <2>2, Typed DEF EmittedInOrder
<1>4. RingHoldsNewest'
  BY EmitRingStep
<1>5. StreamsInOrder'
  BY EmitStreamStep DEF StreamsInOrder
<1>6. TypeOK'
  <2>1. historyHead' \in 0..(Capacity - 1) /\ historyCount' \in 0..Capacity
    <3>1. historyHead + 1 \in Nat /\ historyHead + 1 < 2 * Capacity
      BY Typed
    <3>2. (historyHead + 1) % Capacity \in 0..(Capacity - 1)
      BY <3>1
    <3>3. historyCount' \in 0..Capacity
      BY <1>1, Typed
    <3>4. QED BY <1>1, <3>2, <3>3
  <2>2. historyBuffer' \in [0..(Capacity - 1) -> Event \cup {NoEvent}]
    BY <1>1, <1>2, Typed
  <2>3. sub' \in [Client -> Subscription] /\ client' \in [Client -> ClientUpTo(epoch)]
    <3>1. /\ sub' = [c \in Client |-> sub'[c]]
          /\ client' = [c \in Client |-> client'[c]]
      BY DEF Emit, Push
    <3>2. QED BY <3>1, EmitStreamStep
  <2>4. epoch' \in 1..MaxEpoch /\ nextSeq' \in 1..(MaxSeq + 1)
    BY <1>1, Typed
  <2>5. client' \in [Client -> ClientUpTo(epoch')]
    BY <1>1, <2>3
  <2>6. QED BY <2>1, <2>2, <2>3, <2>4, <2>5 DEF TypeOK, Subscription, ClientUpTo
<1>7. QED BY <1>3, <1>4, <1>5, <1>6 DEF IInv

LEMMA RestartStep ==
    ASSUME IInv, Restart
    PROVE  IInv'
<1>1. /\ epoch < MaxEpoch /\ epoch' = epoch + 1 /\ nextSeq' = 1
      /\ historyBuffer' = [i \in 0..(Capacity - 1) |-> NoEvent]
      /\ historyHead' = 0 /\ historyCount' = 0
      /\ sub' = [c \in Client |-> NoSubscription]
      /\ emitted' = <<>> /\ client' = client
  BY DEF Restart, FreshBus
<1>2. \A c \in Client : client[c].epoch # epoch'
  BY <1>1, ClientTyped, Typed
<1>3. ClientUpTo(epoch) \subseteq ClientUpTo(epoch')
  BY <1>1, Typed DEF ClientUpTo
<1>4. NoSubscription \in Subscription
  BY EmptySeq DEF NoSubscription, Subscription
<1>5. TypeOK'
  BY <1>1, <1>3, <1>4, Typed DEF TypeOK, Subscription, ClientUpTo
<1>6. EmittedInOrder'
  BY <1>1, EmptySeq, LenProperties DEF EmittedInOrder
<1>7. RingHoldsNewest'
  BY <1>1, EmptySeq DEF RingHoldsNewest
<1>8. StreamsInOrder'
  BY <1>1, <1>2 DEF StreamsInOrder, StreamInOrder, NoSubscription
<1>9. QED BY <1>5, <1>6, <1>7, <1>8 DEF IInv

LEMMA InitInvariant == Init => IInv
<1> SUFFICES ASSUME Init PROVE IInv
    OBVIOUS
<1>1. NoSubscription \in Subscription /\ NewClient \in ClientUpTo(1) /\ NewClient.epoch # 1
  BY EmptySeq DEF NoSubscription, Subscription, NewClient, ClientUpTo
<1>2. TypeOK
  BY <1>1 DEF Init, TypeOK, Subscription, ClientUpTo
<1>3. EmittedInOrder
  BY EmptySeq, LenProperties DEF Init, EmittedInOrder
<1>4. RingHoldsNewest
  BY EmptySeq DEF Init, RingHoldsNewest
<1>5. StreamsInOrder
  BY <1>1 DEF Init, StreamsInOrder, StreamInOrder, NoSubscription
<1>6. QED BY <1>2, <1>3, <1>4, <1>5 DEF IInv

LEMMA InvariantStep == IInv /\ [Next]_vars => IInv'
<1> SUFFICES ASSUME IInv, [Next]_vars PROVE IInv'
    OBVIOUS
<1>1. ASSUME NEW s \in Session, Emit(s) PROVE IInv'
  BY <1>1, EmitStep
<1>2. ASSUME NEW c \in Client, NEW filter \in Session \cup {AllSessions},
             SubscribeAfresh(c, filter)
      PROVE  IInv'
  BY <1>2, SubscribeAfreshStep
<1>3. ASSUME NEW c \in Client, Resume(c) PROVE IInv'
  BY <1>3, ResumeStep
<1>4. ASSUME NEW c \in Client, ResumeStale(c) PROVE IInv'
  BY <1>4, ResumeStaleStep
<1>5. ASSUME NEW c \in Client, ReadNext(c) PROVE IInv'
  BY <1>5, ReadNextStep
<1>6. ASSUME NEW c \in Client, Close(c) PROVE IInv'
  BY <1>6, CloseStep
<1>7. ASSUME Restart PROVE IInv'
  BY <1>7, RestartStep
<1>8. CASE UNCHANGED vars
  BY <1>8 DEF vars, bus, IInv, TypeOK, EmittedInOrder, RingHoldsNewest, OldestIndex,
              StreamsInOrder, StreamInOrder
<1>9. QED BY <1>1, <1>2, <1>3, <1>4, <1>5, <1>6, <1>7, <1>8 DEF Next

LEMMA BusInvariant == Spec => []IInv
BY InitInvariant, InvariantStep, PTL DEF Spec

-----------------------------------------------------------------------------

\* The ring's counters stay within the ring, whatever its capacity, and no client is
\* ahead of the process.
THEOREM TypeCorrect == Spec => []TypeOK
<1>1. IInv => TypeOK
  BY DEF IInv
<1>2. QED BY <1>1, BusInvariant, PTL

\* What the replay reads of the ring are the newest events there are, in order, however
\* often it went around.
THEOREM RingIsNewest == Spec => [](EmittedInOrder /\ RingHoldsNewest)
<1>1. IInv => EmittedInOrder /\ RingHoldsNewest
  BY DEF IInv
<1>2. QED BY <1>1, BusInvariant, PTL

\* A client gets every event it wants exactly once and in order, whenever it came and
\* went, or it is told of the gap: subscribe joins replay and live events without a seam.
THEOREM StreamsAreComplete == Spec => []StreamComplete
<1>1. ASSUME IInv, NEW c \in Client, client[c].epoch = epoch
      PROVE  /\ client[c].log = Wanted(c, client[c].cursor)
             /\ sub[c].open => client[c].log \o sub[c].queue = Wanted(c, nextSeq - 1)
  <2> DEFINE k == client[c]
             q == sub[c].queue
  <2>1. StreamInOrder(c) /\ k.epoch = epoch
    BY <1>1, ClientTyped
  <2>2. /\ k.since <= k.cursor /\ k.cursor < nextSeq
        /\ Stream(k.log, emitted, k.filter, k.since, k.cursor)
        /\ sub[c].open => Stream(q, emitted, k.filter, k.cursor, nextSeq - 1)
    BY <2>1 DEF StreamInOrder
  <2>3. /\ k.log \in Seq(Event) /\ q \in Seq(Event)
        /\ k.since \in Nat /\ k.cursor \in Nat
    BY <1>1, ClientTyped
  <2>4. /\ emitted \in Seq(Event) /\ nextSeq \in Nat /\ nextSeq - 1 \in Nat
        /\ EmittedInOrder
    BY <1>1, Typed DEF IInv
  <2>5. k.cursor <= nextSeq - 1
    BY <2>2, <2>3, <2>4
  <2>6. k.log = Selected(emitted, k.filter, k.since, k.cursor)
    BY <2>2, <2>3, <2>4, StreamIs
  <2>7. ASSUME sub[c].open
        PROVE  k.log \o q = Selected(emitted, k.filter, k.since, nextSeq - 1)
    <3>1. /\ k.log \o q \in Seq(Event)
          /\ Stream(k.log \o q, emitted, k.filter, k.since, nextSeq - 1)
      BY <2>2, <2>3, <2>4, <2>5, <2>7, StreamJoins
    <3>2. QED BY <2>4, <3>1, StreamIs
  <2>8. QED BY <2>6, <2>7 DEF Wanted
<1>2. IInv => StreamComplete
  BY <1>1 DEF StreamComplete
<1>3. QED BY <1>2, BusInvariant, PTL

-----------------------------------------------------------------------------
(* The bus implements EventLog. *)

Logged == [Log!Next]_(Log!vars)

\* What a client has still to get: the events its subscription would queue now.
LEMMA AwaitedIs ==
    ASSUME IInv, NEW c \in Client
    PROVE  /\ Log!Awaited(c) \subseteq 1..Len(emitted)
           /\ \A n \in 1..Len(emitted) :
                 n \in Log!Awaited(c) <=> Wants(emitted[n], client[c].filter, client[c].cursor,
                                               nextSeq - 1)
<1>1. /\ Len(emitted) \in Nat /\ nextSeq = Len(emitted) + 1
      /\ \A n \in 1..Len(emitted) : emitted[n].seq = n
  BY EmittedIs DEF IInv
<1>2. \A n \in 1..Len(emitted) :
         Matches(client[c].filter, emitted[n])
            <=> client[c].filter \in {Log!AllSessions, emitted[n].session}
  BY DEF Matches, AllSessions, Log!AllSessions
<1>3. client[c].cursor \in Nat
  BY ClientTyped
<1>4. QED BY <1>1, <1>2, <1>3 DEF Log!Awaited, Wants

\* An open subscription has queued exactly that, so whoever waits has everything.
LEMMA QueuedIsAwaited ==
    ASSUME IInv, NEW c \in Client, sub[c].open
    PROVE  /\ client[c].epoch = epoch
           /\ \A n \in 1..Len(emitted) :
                 n \in Log!Awaited(c) <=> emitted[n] \in ToSet(sub[c].queue)
           /\ sub[c].queue = <<>> => Log!Awaited(c) = {}
<1>1. /\ client[c].epoch = epoch
      /\ Stream(sub[c].queue, emitted, client[c].filter, client[c].cursor, nextSeq - 1)
  BY ClientTyped DEF StreamInOrder
<1>2. \A n \in 1..Len(emitted) : emitted[n] \in ToSet(emitted)
  BY Typed, EventSeqElements
<1>3. \A n \in 1..Len(emitted) :
         n \in Log!Awaited(c) <=> emitted[n] \in ToSet(sub[c].queue)
  BY <1>1, <1>2, AwaitedIs DEF Stream
<1>4. ASSUME sub[c].queue = <<>> PROVE Log!Awaited(c) = {}
  BY <1>3, <1>4, AwaitedIs, EmptyIncreases
<1>5. QED BY <1>1, <1>3, <1>4

LEMMA EmitPublishes ==
    ASSUME IInv, NEW s \in Session, Emit(s)
    PROVE  Log!Publish(s)
<1> DEFINE event == [seq |-> nextSeq, session |-> s]
           reached(c) == sub[c].open /\ Matches(client[c].filter, event)
           now == {c \in Client : reached(c) /\ sub[c].waiting}
<1>1. /\ emitted' = Append(emitted, event) /\ epoch' = epoch
      /\ client' = [c \in Client |-> IF reached(c) /\ sub[c].waiting THEN Receive(c, event)
                                     ELSE client[c]]
  BY DEF Emit, Push
<1>2. nextSeq = Len(emitted) + 1
  BY Typed
<1>3. ASSUME NEW c \in now
      PROVE  /\ client[c].epoch = epoch /\ Log!Awaited(c) = {}
             /\ client[c].filter \in {Log!AllSessions, s}
  <2>1. sub[c].open /\ sub[c].waiting /\ Matches(client[c].filter, event)
    OBVIOUS
  <2>2. sub[c].queue = <<>>
    BY <2>1, ClientTyped DEF StreamInOrder
  <2>3. client[c].filter \in {Log!AllSessions, s}
    BY <2>1 DEF Matches, AllSessions, Log!AllSessions
  <2>4. QED BY <2>1, <2>2, <2>3, QueuedIsAwaited
<1>4. client' = [c \in Client |-> IF c \in now THEN Log!Got(c, event) ELSE client[c]]
  BY <1>1 DEF Receive, Log!Got
<1>5. now \in SUBSET {c \in Client : /\ client[c].epoch = epoch
                                     /\ Log!Awaited(c) = {}
                                     /\ client[c].filter \in {Log!AllSessions, s}}
  BY <1>3
<1>6. event = [seq |-> Len(emitted) + 1, session |-> s]
  BY <1>2
<1> HIDE DEF event, now
<1>7. QED BY <1>1, <1>4, <1>5, <1>6 DEF Log!Publish

\* The head of a queue is the next event its client awaits.
LEMMA ReadNextReads ==
    ASSUME IInv, NEW c \in Client, ReadNext(c), sub[c].queue # <<>>
    PROVE  Log!Read(c)
<1> DEFINE q == sub[c].queue
           n == Head(q).seq
<1>1. /\ sub[c].open /\ UNCHANGED <<epoch, emitted>>
      /\ client' = [client EXCEPT ![c] = Receive(c, Head(q))]
  BY DEF ReadNext, bus
<1>2. /\ q \in Seq(Event) /\ client[c].epoch = epoch
      /\ Stream(q, emitted, client[c].filter, client[c].cursor, nextSeq - 1)
  BY <1>1, ClientTyped DEF StreamInOrder
<1>3. /\ Len(q) \in Nat /\ Len(q) > 0 /\ DOMAIN q = 1..Len(q) /\ Head(q) = q[1]
      /\ ToSet(q) = {q[i] : i \in 1..Len(q)}
      /\ \A i \in 1..Len(q) : q[i].seq \in Nat
  BY <1>2, EventSeqElements, EmptySeq, LenProperties
<1>4. \A e \in ToSet(emitted) : e.seq \in 1..Len(emitted) /\ e = emitted[e.seq]
  BY EmittedIs DEF IInv
<1>5. ToSet(q) \subseteq ToSet(emitted) /\ Head(q) \in ToSet(q)
  BY <1>2, <1>3 DEF Stream
<1>6. n \in 1..Len(emitted) /\ emitted[n] = Head(q)
  BY <1>4, <1>5
<1>7. n \in Log!Awaited(c)
  BY <1>1, <1>5, <1>6, QueuedIsAwaited
<1>8. ASSUME NEW m \in Log!Awaited(c) PROVE n <= m
  <2>1. m \in 1..Len(emitted) /\ emitted[m] \in ToSet(q) /\ emitted[m].seq = m
    BY <1>1, AwaitedIs, QueuedIsAwaited, EmittedIs DEF IInv
  <2>2. PICK i \in 1..Len(q) : q[i] = emitted[m]
    BY <1>3, <2>1
  <2>3. 1 < i => q[1].seq < q[i].seq
    BY <1>2, <1>3 DEF Stream, Increasing
  <2>4. QED BY <1>3, <2>1, <2>2, <2>3
<1>9. client' = [client EXCEPT ![c] = Log!Got(c, emitted[n])]
  BY <1>1, <1>6 DEF Receive, Log!Got
<1> HIDE DEF n, q
<1>10. QED BY <1>1, <1>2, <1>7, <1>8, <1>9 DEF Log!Read

LEMMA SubscribeAfreshFollows ==
    ASSUME IInv, NEW c \in Client, NEW filter \in Session \cup {AllSessions},
           SubscribeAfresh(c, filter)
    PROVE  Log!Follow(c, filter)
<1>1. PICK from \in {IF historyCount = 0 THEN nextSeq - 1 ELSE Oldest.seq - 1, nextSeq - 1} :
         client' = [client EXCEPT ![c] =
                       [filter |-> filter, epoch |-> epoch, cursor |-> from,
                        since |-> from, gap |-> FALSE, log |-> <<>>]]
  BY DEF SubscribeAfresh
<1>2. UNCHANGED <<epoch, emitted>>
  BY DEF SubscribeAfresh, bus
<1>3. /\ historyCount \in 0..Len(emitted) /\ historyCount <= Capacity
      /\ historyCount > 0 => Oldest.seq = (Len(emitted) - historyCount) + 1
      /\ Len(emitted) \in Nat /\ nextSeq = Len(emitted) + 1
  BY BufferedIs, Typed DEF IInv
<1>4. from \in 0..Len(emitted) /\ Len(emitted) - from <= Capacity
  BY <1>1, <1>3
<1>5. QED BY <1>1, <1>2, <1>4 DEF Log!Follow

\* A replay is truncated only when the ring is full and the cursor is behind it.
LEMMA ResumeTells ==
    ASSUME IInv, NEW c \in Client, Resume(c)
    PROVE  client' = client \/ Log!FallBehind(c)
<1> DEFINE reach == Len(emitted) - Capacity
<1>1. CASE ~IsReplayTruncated(client[c].cursor)
  BY <1>1 DEF Resume
<1>2. CASE IsReplayTruncated(client[c].cursor)
  <2>1. /\ client[c].epoch = epoch /\ UNCHANGED <<epoch, emitted>>
        /\ historyCount > 0 /\ Oldest.seq > client[c].cursor + 1
        /\ client' = [client EXCEPT ![c].log = <<>>, ![c].gap = TRUE,
                                   ![c].since = Oldest.seq - 1, ![c].cursor = Oldest.seq - 1]
    BY <1>2 DEF Resume, IsReplayTruncated, bus
  <2>2. /\ historyCount \in 0..Len(emitted) /\ Len(emitted) \in Nat
        /\ Oldest.seq = (Len(emitted) - historyCount) + 1
        /\ historyCount = IF Len(emitted) < Capacity THEN Len(emitted) ELSE Capacity
    BY <2>1, BufferedIs DEF IInv, RingHoldsNewest
  <2>3. client[c].cursor \in Nat
    BY ClientTyped
  <2>4. Oldest.seq - 1 = reach /\ client[c].cursor < reach
    BY <2>1, <2>2, <2>3
  <2> HIDE DEF reach
  <2>5. client' = [client EXCEPT ![c].log = <<>>, ![c].gap = TRUE,
                                 ![c].since = reach, ![c].cursor = reach]
    BY <2>1, <2>4
  <2>6. QED BY <2>1, <2>4, <2>5 DEF Log!FallBehind, reach
<1>3. QED BY <1>1, <1>2

LEMMA LogInit == Init => Log!Init
BY DEF Init, NewClient, AllSessions, Log!Init, Log!NewReader, Log!AllSessions

\* Every step of the bus is one of the log or leaves it alone.
LEMMA LogStep == IInv /\ [Next]_vars => Logged
<1> SUFFICES ASSUME IInv, [Next]_vars PROVE Logged
    OBVIOUS
<1>1. ASSUME UNCHANGED <<epoch, emitted, client>> PROVE Logged
  BY <1>1 DEF Logged, Log!vars
<1>2. ASSUME NEW s \in Session, Emit(s) PROVE Logged
  BY <1>2, EmitPublishes DEF Logged, Log!Next
<1>3. ASSUME NEW c \in Client, NEW filter \in Session \cup {AllSessions},
             SubscribeAfresh(c, filter)
      PROVE  Logged
  BY <1>3, SubscribeAfreshFollows DEF Logged, Log!Next, AllSessions, Log!AllSessions
<1>4. ASSUME NEW c \in Client, Resume(c) PROVE Logged
  <2>1. UNCHANGED <<epoch, emitted>>
    BY <1>4 DEF Resume, bus
  <2>2. QED BY <1>1, <1>4, <2>1, ResumeTells DEF Logged, Log!Next
<1>5. ASSUME NEW c \in Client, ResumeStale(c) PROVE Logged
  <2>1. Log!Forget(c)
    BY <1>5 DEF ResumeStale, bus, NewClient, AllSessions, Log!Forget, Log!NewReader,
                Log!AllSessions
  <2>2. QED BY <2>1 DEF Logged, Log!Next
<1>6. ASSUME NEW c \in Client, ReadNext(c) PROVE Logged
  <2>1. CASE sub[c].queue = <<>>
    BY <1>1, <1>6, <2>1 DEF ReadNext, bus
  <2>2. CASE sub[c].queue # <<>>
    BY <1>6, <2>2, ReadNextReads DEF Logged, Log!Next
  <2>3. QED BY <2>1, <2>2
<1>7. ASSUME NEW c \in Client, Close(c) PROVE Logged
  BY <1>1, <1>7 DEF Close, bus
<1>8. ASSUME Restart PROVE Logged
  <2>1. Log!NewLog
    BY <1>8 DEF Restart, FreshBus, Log!NewLog
  <2>2. QED BY <2>1 DEF Logged, Log!Next
<1>9. CASE UNCHANGED vars
  BY <1>1, <1>9 DEF vars, bus
<1>10. QED BY <1>2, <1>3, <1>4, <1>5, <1>6, <1>7, <1>8, <1>9 DEF Next

\* Whatever the ring overwrites and whoever comes and goes, the bus is a log whose
\* readers get the next event they await: only who is more than the ring's capacity
\* behind the end is told of a gap, and loses no more than that.
THEOREM Implements == Spec => ImplementsLog
<1>1. Init => Log!Init
  BY LogInit
<1>2. IInv /\ [Next]_vars => [Log!Next]_(Log!vars)
  BY LogStep DEF Logged
<1>3. QED BY <1>1, <1>2, BusInvariant, PTL DEF Spec, ImplementsLog, Log!Spec

=============================================================================
