---------------------------- MODULE Pipeline_proofs ---------------------------
(***************************************************************************)
(* First SpscQueue, for every capacity, every width of the indices and     *)
(* every number of pushes: it has no data race, its tests are exact and it *)
(* implements BoundedFifo.                                                 *)
(*                                                                         *)
(* Then Pipeline, for every script and every ring: the program runs the    *)
(* queue as SpscQueue says, so that what is proved of Push and Pop holds   *)
(* of it, and the parsers are given a prefix of the script.                *)
(***************************************************************************)
EXTENDS Pipeline, NumberLemmas, SequenceTheorems, TLAPS

\* What the constants give about slots and words.
LEMMA IndexRangeNat ==
    /\ IndexRange \in Nat \ {0} /\ Capacity \in Nat \ {0}
    /\ Capacity < IndexRange
<1>1. Capacity * Laps \in Nat /\ Capacity * Laps >= Capacity * 2
  BY CapacityAssumption, LapsAssumption
<1> QED BY <1>1, CapacityAssumption DEF IndexRange

LEMMA SlotAtIsRemainder ==
    ASSUME NEW n \in Nat
    PROVE  SlotAt(n) = n % Capacity /\ SlotAt(n) \in Slots
<1>1. SlotAt(n) = n % Capacity
  <2>1. Laps \in Nat \ {0}
    BY LapsAssumption
  <2>2. (n % (Capacity * Laps)) % Capacity = n % Capacity
    BY <2>1, CapacityAssumption, RemainderNested
  <2> QED BY <2>2 DEF SlotAt, SlotOf, Word, IndexRange
<1>2. n % Capacity \in 0 .. Capacity - 1
  BY CapacityAssumption, DivisionNat
<1> QED BY <1>1, <1>2 DEF Slots

\* Packets less than Capacity apart lie in different slots.
LEMMA SlotsDistinct ==
    ASSUME NEW a \in Nat, NEW b \in Nat, a < b, b < a + Capacity
    PROVE  SlotAt(a) # SlotAt(b)
<1>1. a % Capacity # b % Capacity
  BY CapacityAssumption, RemainderDistinct
<1> QED BY <1>1, SlotAtIsRemainder

\* Storing the incremented word is the next position of the modification order.
LEMMA WordSucc ==
    ASSUME NEW n \in Nat
    PROVE  Word(Word(n) + 1) = Word(n + 1) /\ Word(n) \in 0 .. IndexRange - 1
<1>1. Word(Word(n) + 1) = Word(n + 1)
  BY IndexRangeNat, RemainderSucc DEF Word
<1>2. Word(n) \in 0 .. IndexRange - 1
  BY IndexRangeNat, DivisionNat DEF Word
<1> QED BY <1>1, <1>2

\* The wrapping tests mean what they say while the positions are close.
LEMMA TestsExact ==
    ASSUME NEW a \in Nat, NEW b \in Nat, b <= a, a - b <= Capacity
    PROVE  /\ IsFull(Word(a), Word(b)) <=> a - b = Capacity
           /\ IsEmpty(Word(b), Word(a)) <=> a = b
<1>1. a - b < IndexRange
  BY IndexRangeNat
<1>2. (Word(a) - Word(b)) % IndexRange = a - b
  BY <1>1, IndexRangeNat, RemainderDifference DEF Word
<1>3. IsFull(Word(a), Word(b)) <=> a - b = Capacity
  BY <1>2 DEF IsFull
<1>4. ASSUME Word(a) = Word(b) PROVE a = b
  <2>1. Word(a) - Word(b) = 0 /\ 0 = IndexRange * 0 + 0
    BY <1>4, WordSucc, IndexRangeNat
  <2>2. 0 % IndexRange = 0
    BY <2>1, IndexRangeNat, RemainderUnique
  <2>3. a - b = 0
    BY <2>1, <2>2, <1>2
  <2> QED BY <2>3
<1> QED BY <1>3, <1>4 DEF IsEmpty
------------------------------------------------------------------------------
LEMMA InitIInv == Init => IInv
<1> SUFFICES ASSUME Init PROVE IInv
  OBVIOUS
<1>1. Word(0) = 0
  <2>1. 0 = IndexRange * 0 + 0
    BY IndexRangeNat
  <2> QED BY <2>1, IndexRangeNat, RemainderUnique DEF Word
<1>2. TypeOK
  BY IndexRangeNat DEF Init, TypeOK, Packets, Steps
<1> QED BY <1>1, <1>2, IndexRangeNat DEF Init, IInv

LEMMA NextIInv == IInv /\ [Next]_vars => IInv'
<1> SUFFICES ASSUME IInv, [Next]_vars PROVE IInv'
  OBVIOUS
<1> USE IndexRangeNat
<1>0. TypeOK
  BY DEF IInv
<1>1. CASE PushFull
  BY <1>0, <1>1 DEF PushFull, IInv, TypeOK, Acquire, rvars, views, SlotAt
<1>2. ASSUME NEW x \in Items, PushAccept(x)
      PROVE  IInv'
  <2>1. n_write - w_view < Capacity
    <3>1. ~ IsFull(Word(n_write), Word(w_view))
      BY <1>2 DEF PushAccept, IInv
    <3>2. n_write - w_view <= Capacity /\ w_view <= n_write
      BY <1>0 DEF IInv, TypeOK
    <3> QED BY <3>1, <3>2, <1>0, TestsExact DEF TypeOK
  <2> QED BY <1>0, <1>2, <2>1
          DEF PushAccept, IInv, TypeOK, Acquire, rvars, views, SlotAt,
              Packets, Steps
<1>3. CASE PushCopyBegin \/ PushCopyEnd
  <2>1. SlotOf(m_write_idx) = SlotAt(n_write) /\ SlotAt(n_write) \in Slots
    BY <1>0, SlotAtIsRemainder DEF IInv, TypeOK, SlotAt
  <2>2. PICK v \in Packets : buffer' = [buffer EXCEPT ![SlotAt(n_write)] = v]
    BY <1>0, <1>3, <2>1 DEF PushCopyBegin, PushCopyEnd, TypeOK, Packets
  <2>3. /\ wpc # "idle" /\ wpc' \in {"copy", "store"}
        /\ wpc' = "store" => v = w_item
        /\ UNCHANGED <<m_write_idx, m_read_idx, w_item, w_sync, rvars, views,
                       n_write, n_read>>
    <3>1. CASE PushCopyBegin
      BY <3>1 DEF PushCopyBegin
    <3>2. CASE PushCopyEnd
      <4>1. buffer'[SlotAt(n_write)] = w_item /\ buffer'[SlotAt(n_write)] = v
        BY <3>2, <2>1, <2>2, <1>0 DEF PushCopyEnd, TypeOK
      <4> QED BY <3>2, <4>1 DEF PushCopyEnd
    <3> QED BY <1>3, <3>1, <3>2
  <2>4. \A n \in n_read .. n_write - 1 : buffer'[SlotAt(n)] = buffer[SlotAt(n)]
    <3> SUFFICES ASSUME NEW n \in n_read .. n_write - 1
                 PROVE  buffer'[SlotAt(n)] = buffer[SlotAt(n)]
      OBVIOUS
    <3>1. n \in Nat /\ n < n_write /\ n_write < n + Capacity
      BY <1>0, <2>3 DEF IInv, TypeOK
    <3>2. SlotAt(n) # SlotAt(n_write)
      BY <3>1, <1>0, SlotsDistinct DEF TypeOK
    <3>3. SlotAt(n) \in Slots
      BY <3>1, SlotAtIsRemainder
    <3> QED BY <3>2, <3>3, <2>2, <1>0 DEF TypeOK
  <2>5. TypeOK'
    BY <1>0, <2>2, <2>3 DEF TypeOK, Steps, rvars, views
  <2>6. SlotAt(n_write)' = SlotAt(n_write) /\ SlotAt(n_read)' = SlotAt(n_read)
    BY <2>3 DEF SlotAt
  <2>7. (rpc \in {"copy", "store"} => r_item = buffer[SlotAt(n_read)])'
    BY <1>0, <2>3, <2>4, <2>6 DEF IInv, TypeOK, rvars, views
  <2>8. (wpc = "store" => buffer[SlotAt(n_write)] = w_item)'
    BY <1>0, <2>1, <2>2, <2>3, <2>6 DEF TypeOK
  <2>9. (\A n \in n_read .. n_write - 1 : buffer[SlotAt(n)] \in Items)'
    BY <2>3, <2>4 DEF IInv, SlotAt
  <2> QED BY <1>0, <2>3, <2>5, <2>7, <2>8, <2>9 DEF IInv, rvars, views
<1>4. CASE PushStore
  <2>1. m_write_idx' = Word(n_write + 1)
    BY <1>0, <1>4, WordSucc DEF PushStore, IInv, TypeOK
  <2>2. TypeOK'
    BY <1>0, <1>4, <2>1, WordSucc
       DEF PushStore, TypeOK, Steps, rvars, views
  <2>3. (\A n \in n_read .. n_write - 1 : buffer[SlotAt(n)] \in Items)'
    <3> SUFFICES ASSUME NEW n \in n_read .. n_write
                 PROVE  buffer[SlotAt(n)] \in Items
      BY <1>0, <1>4 DEF PushStore, SlotAt, TypeOK
    <3>1. CASE n = n_write
      BY <3>1, <1>4 DEF PushStore, IInv
    <3>2. CASE n # n_write
      <4>1. n \in n_read .. n_write - 1
        BY <3>2, <1>0 DEF TypeOK
      <4> QED BY <4>1 DEF IInv
    <3> QED BY <3>1, <3>2
  <2> QED BY <1>0, <1>4, <2>1, <2>2, <2>3
          DEF PushStore, IInv, TypeOK, rvars, views, SlotAt
<1>5. CASE PopEmpty
  BY <1>0, <1>5 DEF PopEmpty, IInv, TypeOK, Acquire, wvars, views, SlotAt
<1>6. CASE PopAccept
  <2>1. n_read < r_view
    <3>1. ~ IsEmpty(Word(n_read), Word(r_view))
      BY <1>6 DEF PopAccept, IInv
    <3>2. n_read <= r_view /\ r_view - n_read <= Capacity
      BY <1>0 DEF IInv, TypeOK
    <3> QED BY <3>1, <3>2, <1>0, TestsExact DEF TypeOK
  <2> QED BY <1>0, <1>6, <2>1
          DEF PopAccept, IInv, TypeOK, Acquire, wvars, views, SlotAt, Steps
<1>7. CASE PopCopyBegin
  <2>1. r_item' = buffer[SlotAt(n_read)] /\ SlotAt(n_read) \in Slots
    BY <1>0, <1>7, SlotAtIsRemainder DEF PopCopyBegin, IInv, TypeOK, SlotAt
  <2> QED BY <1>0, <1>7, <2>1
          DEF PopCopyBegin, IInv, TypeOK, wvars, views, SlotAt, Steps
<1>8. CASE PopCopyEnd
  <2>1. r_item' = r_item
    BY <1>8 DEF PopCopyEnd, IInv, SlotAt
  <2> QED BY <1>0, <1>8, <2>1
          DEF PopCopyEnd, IInv, TypeOK, wvars, views, SlotAt, Steps
<1>9. CASE PopStore
  <2>1. m_read_idx' = Word(n_read + 1)
    BY <1>0, <1>9, WordSucc DEF PopStore, IInv, TypeOK
  <2>2. TypeOK'
    BY <1>0, <1>9, <2>1, WordSucc DEF PopStore, TypeOK, Steps, wvars, views
  <2>3. (\A n \in n_read .. n_write - 1 : buffer[SlotAt(n)] \in Items)'
    BY <1>0, <1>9 DEF PopStore, IInv, TypeOK, SlotAt
  <2> QED BY <1>0, <1>9, <2>1, <2>2, <2>3
          DEF PopStore, IInv, TypeOK, wvars, views, SlotAt
<1>10. CASE PropagateRead
  BY <1>0, <1>10 DEF PropagateRead, IInv, TypeOK, wvars, rvars, SlotAt
<1>11. CASE PropagateWrite
  BY <1>0, <1>11 DEF PropagateWrite, IInv, TypeOK, wvars, rvars, SlotAt
<1>12. CASE UNCHANGED vars
  BY <1>12 DEF vars, wvars, rvars, views, IInv, TypeOK, SlotAt
<1> QED BY <1>1, <1>2, <1>3, <1>4, <1>5, <1>6, <1>7, <1>8, <1>9, <1>10,
           <1>11, <1>12 DEF Next, PushSteps, PopSteps

\* IInv holds in every reachable state of Push and Pop.
THEOREM InductiveInvariant == Spec => []IInv
BY InitIInv, NextIInv, PTL DEF Spec

\* The words, the positions and the slots keep their types.
THEOREM TypeCorrect == Spec => []TypeOK
<1>1. IInv => TypeOK
  BY DEF IInv
<1> QED BY <1>1, InductiveInvariant, PTL

\* The tests of lines 30 and 44 are exact and the ring never overfills, however
\* often the indices have wrapped and however stale the loads are.
THEOREM TestsAreExact == Spec => []IndexTestsExact
<1>1. IInv => IndexTestsExact
  <2> SUFFICES ASSUME IInv PROVE IndexTestsExact
    OBVIOUS
  <2>1. /\ n_write \in Nat /\ n_read \in Nat /\ w_view \in Nat
        /\ r_view \in Nat
        /\ w_view <= n_write /\ n_write - w_view <= Capacity
        /\ n_read <= r_view /\ r_view - n_read <= Capacity
        /\ n_read <= n_write /\ n_write - n_read <= Capacity
    BY IndexRangeNat DEF IInv, TypeOK
  <2>2. IsFull(Word(n_write), Word(w_view)) <=> n_write - w_view = Capacity
    BY <2>1, TestsExact
  <2>3. IsEmpty(Word(n_read), Word(r_view)) <=> n_read = r_view
    BY <2>1, TestsExact
  <2> QED BY <2>1, <2>2, <2>3 DEF IInv, IndexTestsExact
<1> QED BY <1>1, InductiveInvariant, PTL

\* Two packets in one slot are at least a lap apart.
LEMMA SameSlot ==
    ASSUME NEW a \in Nat, NEW b \in Nat, a <= b, SlotAt(a) = SlotAt(b)
    PROVE  a = b \/ a + Capacity <= b
<1>1. ASSUME a < b, b < a + Capacity PROVE FALSE
  BY <1>1, SlotsDistinct
<1> QED BY <1>1, IndexRangeNat

\* Push and Pop never access a slot without a happens-before edge between them.
THEOREM NoDataRace == Spec => []RaceFree
<1>1. IInv => RaceFree
  <2> SUFFICES ASSUME IInv PROVE RaceFree
    OBVIOUS
  <2> USE IndexRangeNat
  <2>0. n_write \in Nat /\ n_read \in Nat /\ w_sync \in Nat /\ r_sync \in Nat
    BY DEF IInv, TypeOK
  <2>1. ASSUME wpc = "copy", NEW k \in 0 .. n_read,
               Read(k), SlotAt(k) = SlotAt(n_write)
        PROVE  k < w_sync
    <3>1. k <= n_write /\ n_write - w_sync < Capacity /\ k \in Nat
      BY <2>0, <2>1 DEF IInv, TypeOK
    <3>2. k # n_write
      <4>1. ASSUME k = n_write PROVE FALSE
        <5>1. k = n_read /\ rpc \in {"copy", "store"}
          BY <4>1, <2>0, <2>1 DEF Read, IInv, TypeOK
        <5> QED BY <5>1, <4>1, <2>0 DEF IInv, TypeOK
      <4> QED BY <4>1
    <3>3. k + Capacity <= n_write
      BY <3>1, <3>2, <2>0, <2>1, SameSlot
    <3> QED BY <3>1, <3>3, <2>0
  <2>2. ASSUME rpc = "copy", NEW k \in 0 .. n_write,
               Written(k), SlotAt(k) = SlotAt(n_read)
        PROVE  k < r_sync
    <3>1. k \in Nat /\ n_read < r_sync /\ r_sync <= n_write
          /\ n_write - w_sync <= Capacity /\ w_sync <= n_read
          /\ (wpc # "idle" => n_write - w_sync < Capacity)
      BY <2>2, <2>0 DEF IInv, TypeOK
    <3>2. CASE k <= n_read
      BY <3>1, <3>2, <2>0
    <3>3. CASE n_read < k
      <4>1. n_read + Capacity <= k
        BY <3>3, <3>1, <2>0, <2>2, SameSlot
      <4>2. k = n_write /\ wpc # "idle"
        BY <4>1, <3>1, <2>0, <2>2 DEF Written
      <4> QED BY <4>1, <4>2, <3>1, <2>0
    <3> QED BY <3>2, <3>3, <3>1, <2>0
  <2> QED BY <2>1, <2>2 DEF RaceFree
<1> QED BY <1>1, InductiveInvariant, PTL
------------------------------------------------------------------------------
(***************************************************************************)
(* The refinement.  Bar is the sequence the slots between the two indices  *)
(* stand for.  Push takes effect at its release store, Pop at its own.     *)
(***************************************************************************)
Bar == [i \in 1 .. n_write - n_read |-> buffer[SlotAt(n_read + i - 1)]]

LEMMA BarIsSequence ==
    ASSUME IInv
    PROVE  /\ Bar \in Seq(Items) /\ Len(Bar) = n_write - n_read
           /\ n_write - n_read \in Nat /\ n_write \in Nat /\ n_read \in Nat
           /\ Len(Bar) <= Capacity
<1>1. /\ n_write \in Nat /\ n_read \in Nat /\ n_write - n_read \in Nat
      /\ n_write - n_read <= Capacity
  BY IndexRangeNat DEF IInv, TypeOK
<1>2. ASSUME NEW i \in 1 .. n_write - n_read
      PROVE  buffer[SlotAt(n_read + i - 1)] \in Items
  <2>1. n_read + i - 1 \in n_read .. n_write - 1
    BY <1>1
  <2> QED BY <2>1 DEF IInv
<1>3. Bar \in [1 .. n_write - n_read -> Items]
  BY <1>2 DEF Bar
<1>4. Bar \in Seq(Items) /\ Len(Bar) = n_write - n_read
  BY <1>1, <1>3
<1> QED BY <1>1, <1>4

\* A step that leaves the two indices, the slots between them and out alone.
LEMMA BarUnchanged ==
    ASSUME IInv, UNCHANGED <<n_write, n_read>>,
           \A n \in n_read .. n_write - 1 : buffer'[SlotAt(n)] = buffer[SlotAt(n)]
    PROVE  Bar' = Bar
<1>1. n_write \in Nat /\ n_read \in Nat
  BY DEF IInv, TypeOK
<1>2. ASSUME NEW i \in 1 .. n_write - n_read
      PROVE  buffer'[SlotAt(n_read + i - 1)] = buffer[SlotAt(n_read + i - 1)]
  <2>1. n_read + i - 1 \in n_read .. n_write - 1
    BY <1>1
  <2> QED BY <2>1
<1> QED BY <1>2 DEF Bar, SlotAt

LEMMA PushCopyKeepsBar ==
    ASSUME IInv, PushCopyBegin \/ PushCopyEnd
    PROVE  Bar' = Bar /\ out' = out
<1> USE IndexRangeNat
<1>1. /\ n_write \in Nat /\ n_read \in Nat /\ wpc # "idle"
      /\ n_write - w_sync < Capacity /\ w_sync <= n_read /\ w_sync \in Nat
      /\ UNCHANGED <<n_write, n_read, out>>
      /\ buffer \in [Slots -> Packets]
  BY DEF PushCopyBegin, PushCopyEnd, IInv, TypeOK, rvars
<1>2. PICK v : buffer' = [buffer EXCEPT ![SlotAt(n_write)] = v]
  BY DEF PushCopyBegin, PushCopyEnd, IInv, SlotAt
<1>3. ASSUME NEW n \in n_read .. n_write - 1
      PROVE  buffer'[SlotAt(n)] = buffer[SlotAt(n)]
  <2>1. n \in Nat /\ n < n_write /\ n_write < n + Capacity
    BY <1>1
  <2>2. SlotAt(n) # SlotAt(n_write) /\ SlotAt(n) \in Slots
    BY <2>1, <1>1, SlotsDistinct, SlotAtIsRemainder
  <2> QED BY <2>2, <1>1, <1>2
<1> QED BY <1>1, <1>3, BarUnchanged

LEMMA PushStorePuts ==
    ASSUME IInv, PushStore
    PROVE  /\ Bar' = Append(Bar, w_item) /\ w_item \in Items
           /\ Len(Bar) < Capacity /\ out' = out
<1> USE IndexRangeNat
<1>1. /\ n_write' = n_write + 1 /\ UNCHANGED <<n_read, buffer, out>>
      /\ w_item \in Items /\ buffer[SlotAt(n_write)] = w_item
      /\ n_write - n_read < Capacity
  BY DEF PushStore, IInv, TypeOK, rvars
<1>2. /\ Len(Bar) = n_write - n_read /\ Bar \in Seq(Items)
      /\ n_write \in Nat /\ n_read \in Nat /\ n_write - n_read \in Nat
  BY BarIsSequence
<1>3. Bar' = [i \in 1 .. (n_write - n_read) + 1 |->
                buffer[SlotAt(n_read + i - 1)]]
  <2>1. n_write' - n_read' = (n_write - n_read) + 1
    BY <1>1, <1>2
  <2> QED BY <1>1, <2>1 DEF Bar, SlotAt
<1>4. ASSUME NEW i \in 1 .. (n_write - n_read) + 1
      PROVE  buffer[SlotAt(n_read + i - 1)] =
                IF i <= Len(Bar) THEN Bar[i] ELSE w_item
  <2>1. CASE i <= Len(Bar)
    BY <2>1, <1>2 DEF Bar
  <2>2. CASE i = Len(Bar) + 1
    <3>1. n_read + i - 1 = n_write
      BY <2>2, <1>2
    <3> QED BY <3>1, <2>2, <1>1, <1>2
  <2> QED BY <2>1, <2>2, <1>2
<1>5. /\ Append(Bar, w_item) \in Seq(Items)
      /\ Len(Append(Bar, w_item)) = Len(Bar) + 1
      /\ \A i \in 1 .. Len(Bar) + 1 :
            Append(Bar, w_item)[i] = IF i <= Len(Bar) THEN Bar[i] ELSE w_item
  BY <1>1, <1>2
<1>6. /\ Bar' \in Seq(Items) /\ Len(Bar') = Len(Bar) + 1
      /\ \A i \in 1 .. Len(Bar) + 1 :
            Bar'[i] = IF i <= Len(Bar) THEN Bar[i] ELSE w_item
  <2>1. ASSUME NEW i \in 1 .. (n_write - n_read) + 1
        PROVE  buffer[SlotAt(n_read + i - 1)] \in Items
    <3>1. CASE i <= Len(Bar)
      <4>1. i \in 1 .. Len(Bar)
        BY <3>1, <1>2
      <4>2. Bar[i] \in Items
        BY <4>1, <1>2
      <4>3. buffer[SlotAt(n_read + i - 1)] = Bar[i]
        BY <3>1, <1>4
      <4> QED BY <4>2, <4>3
    <3>2. CASE ~ (i <= Len(Bar))
      <4>1. buffer[SlotAt(n_read + i - 1)] = w_item
        BY <3>2, <1>4
      <4> QED BY <4>1, <1>1
    <3> QED BY <3>1, <3>2
  <2>2. Bar' \in [1 .. (n_write - n_read) + 1 -> Items]
    BY <1>3, <2>1
  <2>3. (n_write - n_read) + 1 \in Nat
    BY <1>2
  <2>4. Bar' \in Seq(Items) /\ Len(Bar') = (n_write - n_read) + 1
    BY <2>2, <2>3
  <2> QED BY <2>4, <1>2, <1>3, <1>4
<1>7. Bar' = Append(Bar, w_item)
  BY <1>5, <1>6, SeqEqual
<1> QED BY <1>1, <1>2, <1>7

LEMMA PopStoreTakes ==
    ASSUME IInv, PopStore
    PROVE  Bar # << >> /\ out' = Head(Bar) /\ Bar' = Tail(Bar)
<1> USE IndexRangeNat
<1>1. /\ n_read' = n_read + 1 /\ UNCHANGED <<n_write, buffer>>
      /\ out' = buffer[SlotAt(n_read)] /\ n_read < n_write
  BY DEF PopStore, IInv, TypeOK
<1>2. /\ Len(Bar) = n_write - n_read /\ Bar \in Seq(Items)
      /\ n_write \in Nat /\ n_read \in Nat /\ n_write - n_read \in Nat
  BY BarIsSequence
<1>3. Bar # << >> /\ out' = Head(Bar)
  <2>1. Bar # << >> /\ Head(Bar) = Bar[1]
    BY <1>1, <1>2
  <2>2. Bar[1] = buffer[SlotAt(n_read + 1 - 1)] /\ n_read + 1 - 1 = n_read
    BY <1>1, <1>2 DEF Bar
  <2> QED BY <2>1, <2>2, <1>1
<1>4. Bar' = [i \in 1 .. (n_write - n_read) - 1 |->
                buffer[SlotAt((n_read + 1) + i - 1)]]
  <2>1. n_write' - n_read' = (n_write - n_read) - 1
    BY <1>1, <1>2
  <2> QED BY <1>1, <2>1 DEF Bar, SlotAt
<1>5. ASSUME NEW i \in 1 .. Len(Bar) - 1
      PROVE  /\ buffer[SlotAt((n_read + 1) + i - 1)] = Bar[i + 1]
             /\ Bar[i + 1] \in Items
  <2>1. i + 1 \in 1 .. n_write - n_read /\ i + 1 \in 1 .. Len(Bar)
        /\ (n_read + 1) + i - 1 = n_read + (i + 1) - 1
    BY <1>2
  <2> QED BY <2>1, <1>2 DEF Bar
<1>6. Bar' \in Seq(Items) /\ Len(Bar') = Len(Bar) - 1
  <2>1. Bar' \in [1 .. (n_write - n_read) - 1 -> Items]
    BY <1>2, <1>4, <1>5
  <2>2. (n_write - n_read) - 1 \in Nat
    BY <1>1, <1>2
  <2> QED BY <2>1, <2>2, <1>2
<1>7. /\ Tail(Bar) \in Seq(Items) /\ Len(Tail(Bar)) = Len(Bar) - 1
      /\ \A i \in 1 .. Len(Bar) - 1 : Tail(Bar)[i] = Bar[i + 1]
  BY <1>2, <1>3, HeadTailProperties
<1>8. \A i \in 1 .. Len(Bar) - 1 : Bar'[i] = Bar[i + 1]
  BY <1>2, <1>4, <1>5
<1>9. Bar' = Tail(Bar)
  BY <1>6, <1>7, <1>8, SeqEqual
<1> QED BY <1>3, <1>9

\* The lock-free ring implements the bounded FIFO queue.
THEOREM ImplementsFifo == Spec => Refinement
<1>1. Init => Fifo!Init
  <2> SUFFICES ASSUME Init PROVE Fifo!Init
    OBVIOUS
  <2>1. Bar = << >>
    BY DEF Init, Bar
  <2> QED BY <2>1 DEF Init, Fifo!Init, Bar
<1>2. IInv /\ [Next]_vars => [Fifo!Next]_Fifo!vars
  <2> SUFFICES ASSUME IInv, [Next]_vars PROVE [Fifo!Next]_Fifo!vars
    OBVIOUS
  <2>1. CASE PushStore
    <3>1. Fifo!Put(w_item) /\ w_item \in Items
      BY <2>1, PushStorePuts DEF Fifo!Put, Bar
    <3> QED BY <3>1 DEF Fifo!Next
  <2>2. CASE PopStore
    <3>1. Fifo!Take
      BY <2>2, PopStoreTakes DEF Fifo!Take, Bar
    <3> QED BY <3>1 DEF Fifo!Next
  <2>3. CASE PushCopyBegin \/ PushCopyEnd
    BY <2>3, PushCopyKeepsBar DEF Fifo!vars, Bar
  <2>4. CASE \/ PushFull \/ (\E x \in Items : PushAccept(x)) \/ PopEmpty
             \/ PopAccept \/ PopCopyBegin \/ PopCopyEnd \/ PropagateRead
             \/ PropagateWrite \/ UNCHANGED vars
    <3>1. UNCHANGED <<n_write, n_read, buffer, out>>
      BY <2>4 DEF PushFull, PushAccept, PopEmpty, PopAccept, PopCopyBegin,
                  PopCopyEnd, PropagateRead, PropagateWrite, vars, rvars
    <3>2. Bar' = Bar
      BY <3>1, BarUnchanged
    <3> QED BY <3>1, <3>2 DEF Fifo!vars, Bar
  <2> QED BY <2>1, <2>2, <2>3, <2>4 DEF Next, PushSteps, PopSteps
<1> QED BY <1>1, <1>2, InductiveInvariant, PTL
        DEF Spec, Refinement, Fifo!Spec
------------------------------------------------------------------------------
(***************************************************************************)
(* The program.                                                            *)
(***************************************************************************)
LEMMA ScriptItems ==
    /\ Len(Script) \in Nat
    /\ \A n \in Nat : n < Len(Script) => Script[n + 1] \in Items
BY ScriptAssumption

\* The threads take steps of Push and Pop or leave the queue alone.
LEMMA QueueStep == IInv /\ [PNext]_pvars => [Next]_vars
<1> SUFFICES ASSUME IInv, [PNext]_pvars PROVE [Next]_vars
  OBVIOUS
<1>1. CASE SendBegin
  <2>1. ASSUME PushAccept(Script[n_write + 1]) PROVE Next
    <3>1. Script[n_write + 1] \in Items
      BY <1>1, ScriptItems DEF SendBegin, IInv, TypeOK
    <3> QED BY <2>1, <3>1 DEF Next
  <2> QED BY <1>1, <2>1 DEF SendBegin, Next
<1>2. CASE SendStep
  BY <1>2 DEF SendStep, Next
<1>3. CASE PollEmpty
  BY <1>3 DEF PollEmpty, Next
<1>4. CASE PollStep
  BY <1>4 DEF PollStep, Next, PopSteps
<1>5. CASE PollPopped
  BY <1>5 DEF PollPopped, Next, PopSteps
<1>6. CASE Propagate
  BY <1>6 DEF Propagate, Next
<1>7. CASE \/ SendDone \/ HoldEnd \/ PollTest \/ PollEnd \/ Proc
           \/ MainStop \/ MainExit \/ UNCHANGED pvars
  BY <1>7 DEF SendDone, HoldEnd, PollTest, PollEnd, Proc, MainStop, MainExit,
              pvars, queue
<1> QED BY <1>1, <1>2, <1>3, <1>4, <1>5, <1>6, <1>7 DEF PNext

LEMMA QueueInvariant == PSpec => []IInv
<1>1. PInit => IInv
  BY InitIInv DEF PInit
<1>2. IInv /\ [PNext]_pvars => IInv'
  BY QueueStep, NextIInv
<1> QED BY <1>1, <1>2, PTL DEF PSpec

\* The program uses the queue as a single producer and a single consumer do:
\* every behaviour of its threads is one of Push and Pop.
THEOREM UsesTheQueue == PSpec => Spec
<1>1. PInit => Init
  BY DEF PInit
<1> QED BY <1>1, QueueStep, QueueInvariant, PTL DEF PSpec, Spec

\* No thread of the program touches a slot while the other one uses it.
THEOREM NoDataRaceInProgram == PSpec => []RaceFree
BY UsesTheQueue, NoDataRace, PTL

(***************************************************************************)
(* The packets.                                                            *)
(***************************************************************************)
LEMMA PInitPInv == PInit => PInv
<1> SUFFICES ASSUME PInit PROVE PInv
  OBVIOUS
<1>1. IInv
  BY InitIInv DEF PInit
<1>2. n_write = 0 /\ n_read = 0 /\ wpc = "idle" /\ rpc = "idle"
  BY DEF PInit, Init
<1>3. PTypeOK
  BY <1>2 DEF PInit, PTypeOK
<1>4. ProcessedInOrder
  BY <1>2, ScriptAssumption DEF PInit, ProcessedInOrder
<1> QED BY <1>1, <1>2, <1>3, <1>4, ScriptItems DEF PInv, PInit

\* Positions and lengths, as numbers.
LEMMA Positions ==
    ASSUME PInv
    PROVE  /\ n_write \in Nat /\ n_read \in Nat /\ n_read <= n_write
           /\ n_write <= Len(Script) /\ Len(Script) \in Nat
           /\ rpc # "idle" => n_read < n_write
BY ScriptItems DEF PInv, IInv, TypeOK

\* A step that touches neither the indices nor a slot between them nor history.
LEMMA FlightUnchanged ==
    ASSUME PInv, UNCHANGED <<n_write, n_read>>, Bar' = Bar
    PROVE  (\A n \in n_read .. n_write - 1 : InFlight(n))'
<1> SUFFICES ASSUME NEW n \in n_read .. n_write - 1
             PROVE  buffer'[SlotAt(n)] = Script[n + 1]
  BY DEF InFlight, SlotAt
<1>1. n \in Nat /\ n - n_read + 1 \in 1 .. n_write - n_read
      /\ n_read + (n - n_read + 1) - 1 = n
  BY Positions
<1>2. Bar[n - n_read + 1] = buffer[SlotAt(n)]
  BY <1>1 DEF Bar
<1>3. Bar'[n - n_read + 1] = buffer'[SlotAt(n)]
  BY <1>1 DEF Bar, SlotAt
<1> QED BY <1>2, <1>3 DEF PInv, InFlight

\* The producer's steps inside Push.
LEMMA SendPreserves ==
    ASSUME PInv, IInv', SendBegin \/ SendStep
    PROVE  PInv'
<1> USE Positions, ScriptItems
<1>1. UNCHANGED <<g_running, producer, consumer, main, processed>>
      /\ producer = "send" /\ UNCHANGED <<n_read, rpc, r_item>>
  BY DEF SendBegin, SendStep, PushSteps, PushFull, PushAccept, PushCopyBegin,
         PushCopyEnd, PushStore, rvars
<1>2. PTypeOK'
  BY <1>1 DEF PInv, PTypeOK
<1>3. ProcessedInOrder'
  BY <1>1 DEF PInv, ProcessedInOrder
<1>4. (consumer = "proc" => n_read > 0 /\ r_item = Script[n_read])'
  BY <1>1 DEF PInv
<1>5. CASE PushFull \/ PushAccept(Script[n_write + 1])
  <2>1. UNCHANGED <<n_write, buffer>>
    BY <1>5 DEF PushFull, PushAccept
  <2>2. (\A n \in n_read .. n_write - 1 : InFlight(n))'
    BY <1>1, <2>1 DEF PInv, InFlight, SlotAt
  <2>3. (wpc # "idle" => n_write < Len(Script) /\ w_item = Script[n_write + 1])'
    BY <1>5, <2>1 DEF PInv, PushFull, PushAccept, SendBegin, SendStep,
                      PushSteps, PushCopyBegin, PushCopyEnd, PushStore
  <2> QED BY <1>1, <1>2, <1>3, <1>4, <2>1, <2>2, <2>3 DEF PInv
<1>6. CASE PushCopyBegin \/ PushCopyEnd
  <2>1. UNCHANGED <<n_write, w_item>> /\ wpc # "idle"
    BY <1>6 DEF PushCopyBegin, PushCopyEnd
  <2>2. (\A n \in n_read .. n_write - 1 : InFlight(n))'
    BY <1>1, <1>6, <2>1, PushCopyKeepsBar, FlightUnchanged DEF PInv
  <2> QED BY <1>1, <1>2, <1>3, <1>4, <2>1, <2>2 DEF PInv
<1>7. CASE PushStore
  <2>1. /\ n_write' = n_write + 1 /\ wpc' = "idle" /\ UNCHANGED buffer
        /\ buffer[SlotAt(n_write)] = Script[n_write + 1]
        /\ n_write < Len(Script)
    BY <1>7 DEF PushStore, PInv, IInv
  <2>2. ASSUME NEW n \in n_read .. n_write
        PROVE  buffer[SlotAt(n)] = Script[n + 1]
    <3>1. CASE n = n_write
      BY <3>1, <2>1
    <3>2. CASE n # n_write
      <4>1. n \in n_read .. n_write - 1
        BY <3>2
      <4> QED BY <4>1 DEF PInv, InFlight
    <3> QED BY <3>1, <3>2
  <2>3. (\A n \in n_read .. n_write - 1 : InFlight(n))'
    BY <1>1, <2>1, <2>2 DEF InFlight, SlotAt
  <2> QED BY <1>1, <1>2, <1>3, <1>4, <2>1, <2>3 DEF PInv
<1> QED BY <1>5, <1>6, <1>7 DEF SendBegin, SendStep, PushSteps

\* The consumer's steps inside Pop, up to its release store.
LEMMA PollPreserves ==
    ASSUME PInv, IInv', PollEmpty \/ PollStep
    PROVE  PInv'
<1> USE Positions
<1>1. /\ UNCHANGED <<g_running, producer, main, processed>>
      /\ UNCHANGED <<n_write, n_read, buffer, wpc, w_item>>
      /\ consumer = "pop" /\ consumer' \in {"pop", "test"}
  BY DEF PollEmpty, PollStep, PopEmpty, PopAccept, PopCopyBegin, PopCopyEnd,
         wvars
<1>2. rpc' # "idle" => consumer' = "pop"
  BY DEF PollEmpty, PollStep, PopEmpty, PInv, PTypeOK
<1>3. PTypeOK'
  BY <1>1, <1>2 DEF PInv, PTypeOK
<1>4. ProcessedInOrder'
  BY <1>1 DEF PInv, ProcessedInOrder
<1>5. (\A n \in n_read .. n_write - 1 : InFlight(n))'
  BY <1>1 DEF PInv, InFlight, SlotAt
<1> QED BY <1>1, <1>3, <1>4, <1>5 DEF PInv

\* Pop returns true: the packet it copied is the next one of the script.
LEMMA PollPoppedPreserves ==
    ASSUME PInv, IInv', PollPopped
    PROVE  PInv'
<1> USE Positions
<1>1. /\ UNCHANGED <<g_running, producer, main, processed>>
      /\ UNCHANGED <<n_write, buffer, wpc, w_item, r_item>>
      /\ n_read' = n_read + 1 /\ rpc = "store" /\ rpc' = "idle"
      /\ consumer = "pop" /\ consumer' = "proc"
  BY DEF PollPopped, PopStore, wvars
<1>2. r_item = Script[n_read + 1]
  <2>1. n_read \in n_read .. n_write - 1
    BY <1>1
  <2>2. buffer[SlotAt(n_read)] = Script[n_read + 1]
    BY <2>1 DEF PInv, InFlight
  <2> QED BY <1>1, <2>2 DEF PInv, IInv
<1>3. PTypeOK'
  BY <1>1 DEF PInv, PTypeOK
<1>4. ProcessedInOrder'
  BY <1>1 DEF PInv, ProcessedInOrder
<1>5. (\A n \in n_read .. n_write - 1 : InFlight(n))'
  BY <1>1 DEF PInv, InFlight, SlotAt
<1> QED BY <1>1, <1>2, <1>3, <1>4, <1>5 DEF PInv

\* A longer prefix.
LEMMA PrefixGrows ==
    ASSUME NEW n \in Nat, n < Len(Script)
    PROVE  Append(SubSeq(Script, 1, n), Script[n + 1]) = SubSeq(Script, 1, n + 1)
<1> DEFINE short == SubSeq(Script, 1, n)
           long  == SubSeq(Script, 1, n + 1)
<1>1. short \in Seq(Items) /\ Len(short) = n
      /\ \A i \in 1 .. n : short[i] = Script[i]
  BY ScriptAssumption
<1>2. long \in Seq(Items) /\ Len(long) = n + 1
      /\ \A i \in 1 .. n + 1 : long[i] = Script[i]
  BY ScriptAssumption
<1>3. Script[n + 1] \in Items
  BY ScriptItems
<1>4. /\ Append(short, Script[n + 1]) \in Seq(Items)
      /\ Len(Append(short, Script[n + 1])) = n + 1
      /\ \A i \in 1 .. n + 1 : Append(short, Script[n + 1])[i] = Script[i]
  BY <1>1, <1>3
<1> HIDE DEF short, long
<1>5. Append(short, Script[n + 1]) = long
  BY <1>2, <1>4, SeqEqual
<1> QED BY <1>5 DEF short, long

\* ProcPacket gets that packet.
LEMMA ProcPreserves ==
    ASSUME PInv, IInv', Proc
    PROVE  PInv'
<1> USE Positions
<1>1. /\ UNCHANGED <<g_running, producer, main>>
      /\ UNCHANGED <<n_write, n_read, buffer, wpc, w_item, rpc, r_item>>
      /\ consumer = "proc" /\ consumer' = "test"
      /\ processed' = Append(processed, r_item)
  BY DEF Proc, queue, vars, wvars, rvars
<1>2. /\ n_read > 0 /\ r_item = Script[n_read] /\ Len(processed) = n_read - 1
      /\ processed = SubSeq(Script, 1, Len(processed))
      /\ processed \in Seq(Items)
  BY <1>1 DEF PInv, ProcessedInOrder, PTypeOK
<1>3. processed' = SubSeq(Script, 1, n_read)
  <2>1. n_read - 1 \in Nat /\ n_read - 1 < Len(Script) /\ (n_read - 1) + 1 = n_read
    BY <1>2
  <2> QED BY <1>1, <1>2, <2>1, PrefixGrows
<1>4. Script[n_read] \in Items
  <2>1. n_read - 1 \in Nat /\ n_read - 1 < Len(Script) /\ (n_read - 1) + 1 = n_read
    BY <1>2
  <2> QED BY <2>1, ScriptItems
<1>5. processed' \in Seq(Items) /\ Len(processed') = n_read
  BY <1>1, <1>2, <1>4
<1>6. PTypeOK'
  BY <1>1, <1>5 DEF PInv, PTypeOK
<1>7. ProcessedInOrder'
  BY <1>1, <1>3, <1>5 DEF ProcessedInOrder
<1>8. (\A n \in n_read .. n_write - 1 : InFlight(n))'
  BY <1>1 DEF PInv, InFlight, SlotAt
<1> QED BY <1>1, <1>6, <1>7, <1>8 DEF PInv

\* The steps that leave the queue and the packets alone.
LEMMA RestPreserves ==
    ASSUME PInv, IInv',
           \/ SendDone \/ HoldEnd \/ PollTest \/ PollEnd \/ MainStop
           \/ MainExit \/ Propagate \/ UNCHANGED pvars
    PROVE  PInv'
<1>1. UNCHANGED <<n_write, n_read, buffer, wpc, w_item, rpc, r_item, processed>>
  BY DEF SendDone, HoldEnd, PollTest, PollEnd, MainStop, MainExit, Propagate,
         PropagateRead, PropagateWrite, pvars, queue, vars, wvars, rvars
<1>2. wpc # "idle" => n_write < Len(Script) /\ n_write # Len(Script)
  BY Positions DEF PInv
<1>3. PTypeOK'
  BY <1>1, <1>2 DEF PInv, PTypeOK, SendDone, HoldEnd, PollTest, PollEnd,
                    MainStop, MainExit, Propagate, pvars
<1>4. consumer' = "proc" <=> consumer = "proc"
  BY DEF SendDone, HoldEnd, PollTest, PollEnd, MainStop, MainExit, Propagate,
         pvars
<1>5. ProcessedInOrder'
  BY <1>1, <1>4 DEF PInv, ProcessedInOrder
<1>6. (\A n \in n_read .. n_write - 1 : InFlight(n))'
  BY <1>1 DEF PInv, InFlight, SlotAt
<1> QED BY <1>1, <1>3, <1>4, <1>5, <1>6 DEF PInv

\* What every reachable state of the program satisfies.
THEOREM ProgramInvariant == PSpec => []PInv
<1>1. PInv /\ IInv' /\ [PNext]_pvars => PInv'
  BY SendPreserves, PollPreserves, PollPoppedPreserves, ProcPreserves,
     RestPreserves DEF PNext
<1>2. PInv => IInv
  BY DEF PInv
<1> QED BY PInitPInv, QueueStep, NextIInv, <1>1, <1>2, PTL DEF PSpec

\* The processing thread gives ProcPacket a prefix of what the network thread
\* was given to send: whole packets, in order, none twice and none left out.
THEOREM PacketsInOrder == PSpec => []ProcessedInOrder
<1>1. PInv => ProcessedInOrder
  BY DEF PInv
<1> QED BY <1>1, ProgramInvariant, PTL
==============================================================================
