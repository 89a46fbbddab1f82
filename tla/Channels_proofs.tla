---------------------------- MODULE Channels_proofs ---------------------------
(***************************************************************************)
(* Proofs about what lies between a producer and its consumers.            *)
(* BoundedQueue: for every capacity, number of messages, buses and workers *)
(* the ring, its map and its counters agree, payloads reach the workers    *)
(* newest last, and the queue is the FIFO with merging of CoalescingFifo.  *)
(* LiveStreams: for any number of requests, any limit, any updates and any *)
(* capacity of the channel the limiter counts the streams exactly, and a   *)
(* client is shown what its filter lets through of what arrived.  What a   *)
(* filter lets through is a recursive function; that it exists, and what   *)
(* it is after one update more, is shown by induction in the form of a set *)
(* of naturals that is closed under successor.                             *)
(***************************************************************************)
EXTENDS BoundedQueue, LiveStreams, FiniteSetTheorems, SequenceTheorems, WellFoundedInduction, TLAPS

-----------------------------------------------------------------------------
\* The index arithmetic wraps around at most once.
LEMMA SlotIs ==
  ASSUME NEW i \in Slots, NEW k \in 0..Capacity
  PROVE  /\ Slot(i, k) \in Slots
         /\ Slot(i, k) = IF i + k < Capacity THEN i + k ELSE i + k - Capacity
BY BoundedQueueAssumption DEF Slot, Slots

\* Fewer than Capacity places apart, slots differ.
LEMMA SlotsDiffer ==
  ASSUME NEW i \in Slots, NEW k \in 0..(Capacity - 1), NEW l \in 0..(Capacity - 1),
         Slot(i, k) = Slot(i, l)
  PROVE  k = l
<1>1. i \in Nat /\ Capacity \in Nat /\ i < Capacity /\ k \in 0..Capacity /\ l \in 0..Capacity
  BY BoundedQueueAssumption DEF Slots
<1>2. Slot(i, k) \in {i + k, i + k - Capacity} /\ Slot(i, l) \in {i + l, i + l - Capacity}
  BY <1>1, SlotIs
<1>3. Slot(i, k) \in 0..(Capacity - 1)
  BY <1>1, SlotIs DEF Slots
<1>4. QED
  BY <1>1, <1>2, <1>3

\* One place further from i is one place less far from its successor.
LEMMA SlotNext ==
  ASSUME NEW i \in Slots, NEW k \in 0..(Capacity - 1)
  PROVE  /\ Succ(i) \in Slots
         /\ Slot(i, 0) = i
         /\ Succ(Slot(i, k)) = Slot(i, k + 1)
         /\ Slot(Succ(i), k) = Slot(i, k + 1)
<1>1. /\ i \in 0..(Capacity - 1) /\ Capacity \in Nat \ {0}
      /\ k \in 0..Capacity /\ k + 1 \in 0..Capacity /\ 1 \in 0..Capacity /\ 0 \in 0..Capacity
  BY BoundedQueueAssumption DEF Slots
<1> DEFINE Near(n) == {n, n - Capacity} \cap 0..(Capacity - 1)
<1>2. ASSUME NEW j \in 0..(Capacity - 1), NEW l \in 0..Capacity
      PROVE  Slot(j, l) \in Near(j + l)
  BY <1>1, SlotIs, j \in Slots DEF Slots
<1>3. Slot(i, 0) \in Near(i + 0) /\ Slot(i, k) \in Near(i + k) /\ Slot(i, k + 1) \in Near(i + (k + 1))
  BY <1>1, <1>2
<1>4. Succ(i) \in Near(i + 1)
  BY <1>1, <1>2 DEF Succ
<1>5. Succ(Slot(i, k)) \in Near(Slot(i, k) + 1)
  BY <1>1, <1>2, <1>3 DEF Succ
<1>6. Slot(Succ(i), k) \in Near(Succ(i) + k)
  BY <1>1, <1>2, <1>4
<1>7. QED
  BY <1>1, <1>3, <1>4, <1>5, <1>6 DEF Slots

\* Every place up to count holds an item.
LEMMA ContentsAre ==
  ASSUME TypeOK, RingSound, NEW i \in 1..count
  PROVE  /\ Contents[i] = items[Slot(head, i - 1)]
         /\ Contents[i] \in Messages
<1>1. Slot(head, i - 1) \in Slots /\ i - 1 \in 0..(count - 1)
  BY SlotIs, BoundedQueueAssumption DEF TypeOK
<1>2. items[Slot(head, i - 1)] # Nil
  BY <1>1 DEF RingSound
<1>3. QED
  BY <1>1, <1>2 DEF Contents, TypeOK

\* Inserting at the tail appends to the contents and keeps the ring sound.
LEMMA Inserted ==
  ASSUME TypeOK, RingSound, NEW s \in Messages, NEW b \in Buses,
         count < Capacity, insertItem(s, b)
  PROVE  /\ items' \in [Slots -> Messages \cup {Nil}]
         /\ tail' \in Slots /\ count' = count + 1 /\ count' \in 0..Capacity
         /\ coalesce' \in [Buses -> Messages \cup {Nil}]
         /\ RingSound'
         /\ \A i \in 1..count : Contents'[i] = Contents[i]
         /\ Contents'[count'] = s
<1> DEFINE filled == {i \in Slots : items[i] # Nil}
<1>1. head \in Slots /\ tail \in Slots /\ count \in 0..(Capacity - 1) /\ Capacity \in Nat
  BY BoundedQueueAssumption DEF TypeOK
<1>2. /\ items' = [items EXCEPT ![tail] = s] /\ tail' = Succ(tail)
      /\ count' = count + 1 /\ head' = head
  BY DEF insertItem
<1>3. items' \in [Slots -> Messages \cup {Nil}] /\ coalesce' \in [Buses -> Messages \cup {Nil}]
  BY DEF insertItem, TypeOK
<1>4. tail = Slot(head, count) /\ tail' = Slot(head, count + 1) /\ tail' \in Slots
  BY <1>1, <1>2, SlotNext DEF RingSound
<1>5. \A k \in 0..(count - 1) : Slot(head, k) # tail /\ Slot(head, k) \in Slots
  BY <1>1, <1>4, SlotsDiffer, SlotIs
<1>6. {i \in Slots : items'[i] # Nil} = filled \cup {tail}
  BY <1>1, <1>2, BoundedQueueAssumption DEF TypeOK, Messages
<1>7. {Slot(head, k) : k \in 0..count} = {Slot(head, k) : k \in 0..(count - 1)} \cup {tail}
  BY <1>1, <1>4
<1>8. RingSound'
  BY <1>1, <1>2, <1>4, <1>6, <1>7 DEF RingSound
<1>9. \A i \in 1..count : Contents'[i] = items'[Slot(head, i - 1)]
  BY <1>1, <1>2 DEF Contents
<1>10. ASSUME NEW i \in 1..count PROVE Contents'[i] = Contents[i]
  <2>1. Slot(head, i - 1) # tail /\ Slot(head, i - 1) \in Slots
    BY <1>1, <1>5
  <2>2. QED
    BY <1>2, <1>9, <2>1, ContentsAre DEF TypeOK
<1>11. Contents'[count'] = s
  BY <1>1, <1>2, <1>4 DEF Contents, TypeOK
<1>12. QED
  BY <1>1, <1>2, <1>3, <1>4, <1>8, <1>10, <1>11

\* Emptying the head slot removes the first of the contents and keeps the ring sound.
LEMMA Removed ==
  ASSUME TypeOK, RingSound, count > 0, RemoveHead
  PROVE  /\ items' \in [Slots -> Messages \cup {Nil}]
         /\ head' \in Slots /\ count' = count - 1 /\ count' \in 0..Capacity
         /\ items[head] = Contents[1] /\ Contents[1] \in Messages
         /\ RingSound'
         /\ \A i \in 1..count' : Contents'[i] = Contents[i + 1]
<1>1. head \in Slots /\ tail \in Slots /\ count \in 1..Capacity /\ Capacity \in Nat
  BY BoundedQueueAssumption DEF TypeOK
<1>2. /\ items' = [items EXCEPT ![head] = Nil] /\ head' = Succ(head)
      /\ count' = count - 1 /\ tail' = tail
  BY DEF RemoveHead
<1>3. items' \in [Slots -> Messages \cup {Nil}]
  BY <1>2 DEF TypeOK
<1>4. Slot(head, 0) = head /\ head' \in Slots
  BY <1>1, <1>2, SlotNext
<1>5. \A k \in 0..(count - 2) : Slot(head', k) = Slot(head, k + 1)
  BY <1>1, <1>2, SlotNext
<1>6. \A k \in 1..(count - 1) : Slot(head, k) # head /\ Slot(head, k) \in Slots
  BY <1>1, <1>4, SlotsDiffer, SlotIs
<1>7. tail' = Slot(head', count')
  BY <1>1, <1>2, SlotNext DEF RingSound
<1>8. {i \in Slots : items'[i] # Nil} = {Slot(head', k) : k \in 0..(count' - 1)}
  <2>1. {i \in Slots : items'[i] # Nil} = {i \in Slots : items[i] # Nil} \ {head}
    BY <1>1, <1>2 DEF TypeOK
  <2>2. {Slot(head, k) : k \in 0..(count - 1)} \ {head} = {Slot(head, k) : k \in 1..(count - 1)}
    BY <1>1, <1>4, <1>6
  <2>3. ASSUME NEW k \in 1..(count - 1)
        PROVE  \E l \in 0..(count - 2) : Slot(head, k) = Slot(head', l)
    <3>1. k - 1 \in 0..(count - 2) /\ (k - 1) + 1 = k
      BY <1>1
    <3>2. QED
      BY <1>5, <3>1
  <2>4. {Slot(head, k) : k \in 1..(count - 1)} = {Slot(head', k) : k \in 0..(count - 2)}
    BY <1>1, <1>5, <2>3
  <2>5. QED
    BY <1>1, <1>2, <2>1, <2>2, <2>4 DEF RingSound
<1>9. RingSound'
  BY <1>7, <1>8 DEF RingSound
<1>10. Contents[1] = items[head] /\ Contents[1] \in Messages
  BY <1>1, <1>4, ContentsAre
<1>11. ASSUME NEW i \in 1..count' PROVE Contents'[i] = Contents[i + 1]
  <2>1. i \in 1..(count - 1) /\ i - 1 \in 0..(count - 2)
    BY <1>1, <1>2
  <2>2. Contents'[i] = items'[Slot(head', i - 1)]
    BY <1>2, <2>1 DEF Contents
  <2>3. Slot(head', i - 1) = Slot(head, i)
    BY <1>5, <2>1
  <2>4. items'[Slot(head, i)] = items[Slot(head, i)]
    BY <1>2, <1>6, <2>1 DEF TypeOK
  <2>5. Contents[i + 1] = items[Slot(head, i)]
    BY <1>1, <2>1, ContentsAre
  <2>6. QED
    BY <2>2, <2>3, <2>4, <2>5
<1>12. QED
  BY <1>1, <1>2, <1>3, <1>4, <1>9, <1>10, <1>11

-----------------------------------------------------------------------------
\* The new queue is empty and nothing was offered.
LEMMA InitIInv == Init => IInv
<1> SUFFICES ASSUME Init PROVE IInv
  OBVIOUS
<1> USE BoundedQueueAssumption DEF Init, NewBoundedQueue
<1>1. TypeOK
  <2>1. taken \in Seq([seq : Messages, bus : Buses, load : Messages])
    BY EmptySeq
  <2>2. /\ items \in [Slots -> Messages \cup {Nil}] /\ payload \in [Messages -> Messages]
        /\ busOf \in [Messages -> Buses] /\ coalesce \in [Buses -> Messages \cup {Nil}]
    OBVIOUS
  <2>3. 0 \in Slots /\ 0 \in 0..Capacity /\ 0 \in 0..MaxItems
    BY DEF Slots
  <2>4. /\ pc \in [Workers -> {"idle", "waiting", "woken", "gone"}]
        /\ helpers \in [Workers -> BOOLEAN] /\ released \in [Workers -> Nat]
    OBVIOUS
  <2>5. QED
    BY <2>1, <2>2, <2>3, <2>4 DEF TypeOK
<1>2. RingSound
  BY SlotNext DEF RingSound, Slots
<1>3. CoalesceMapSound /\ NothingVanishes
  BY DEF CoalesceMapSound, NothingVanishes
<1>4. InArrivalOrder /\ TakenIsOlder /\ PayloadsNewest
  BY DEF InArrivalOrder, TakenIsOlder, PayloadsNewest
<1>5. \A s \in Messages : CarriesNewer(s)
  BY DEF CarriesNewer, Messages
<1>6. QED
  BY <1>1, <1>2, <1>3, <1>4, <1>5 DEF IInv, QueueSound

\* The message being offered is a new one.
LEMMA OfferedIsNew ==
  ASSUME IInv, offered < MaxItems
  PROVE  /\ offered + 1 \in Messages
         /\ \A i \in 1..count : Contents[i] \in Messages /\ Contents[i] # offered + 1
         /\ \A i \in 1..count : payload[Contents[i]] \in Messages /\ payload[Contents[i]] # offered + 1
         /\ \A b \in Buses : coalesce[b] # offered + 1
<1> USE DEF IInv, QueueSound
<1>1. offered + 1 \in Messages
  BY BoundedQueueAssumption DEF TypeOK, Messages
<1>2. \A i \in 1..count : Contents[i] \in Messages /\ Contents[i] <= offered
  BY ContentsAre DEF InArrivalOrder
<1>3. \A i \in 1..count : payload[Contents[i]] \in Messages /\ payload[Contents[i]] <= offered
  BY <1>2 DEF TypeOK, CarriesNewer
<1>4. \A b \in Buses : coalesce[b] = Nil \/ \E i \in 1..count : coalesce[b] = Contents[i]
  BY DEF CoalesceMapSound, Queued
<1>5. offered \in Nat /\ Nil \notin Messages
  BY BoundedQueueAssumption DEF TypeOK, Messages
<1>6. QED
  BY <1>1, <1>2, <1>3, <1>4, <1>5 DEF Messages

\* Of two items queued for one bus the later one carries the later message.
LEMMA QueuedNewest ==
  ASSUME IInv, NEW i \in 1..count, NEW j \in 1..count, i < j,
         busOf[Contents[i]] = busOf[Contents[j]]
  PROVE  payload[Contents[i]] < payload[Contents[j]]
<1> USE DEF IInv, QueueSound
<1>1. Contents[i] \in Messages /\ Contents[j] \in Messages /\ Contents[i] < Contents[j]
  BY ContentsAre DEF InArrivalOrder
<1>2. dropPolicy = "drop_new" \/ busOf[Contents[i]] = NoBus
  BY <1>1 DEF CoalesceMapSound, TypeOK, Messages
<1>3. payload[Contents[i]] = Contents[i] /\ payload[Contents[j]] = Contents[j]
  BY <1>1, <1>2 DEF CarriesNewer
<1>4. QED
  BY <1>1, <1>3

\* No step breaks the types; the counters stay within what was offered.
LEMMA NextKeepsType == IInv /\ [Next]_vars => TypeOK'
<1> SUFFICES ASSUME IInv, [Next]_vars PROVE TypeOK'
  OBVIOUS
<1>1. TypeOK /\ RingSound /\ NothingVanishes /\ Len(taken) \in Nat
  BY LenProperties DEF IInv, QueueSound, TypeOK
<1>2. Signal => pc' \in [Workers -> {"idle", "waiting", "woken", "gone"}]
  BY <1>1 DEF Signal, TypeOK
<1>3. Broadcast => pc' \in [Workers -> {"idle", "waiting", "woken", "gone"}]
  BY <1>1 DEF Broadcast, Wake, TypeOK
<1>4. ASSUME count > 0, RemoveHead
      PROVE  /\ items' \in [Slots -> Messages \cup {Nil}]
             /\ head' \in Slots /\ tail' \in Slots /\ count' \in 0..Capacity
             /\ coalesce' \in [Buses -> Messages \cup {Nil}]
             /\ payload' = payload /\ busOf' = busOf
             /\ taken' \in Seq([seq : Messages, bus : Buses, load : Messages])
  <2>1. items[head] \in Messages
    BY <1>1, <1>4, Removed
  <2>2. [seq |-> items[head], bus |-> busOf[items[head]], load |-> payload[items[head]]]
          \in [seq : Messages, bus : Buses, load : Messages]
    BY <1>1, <2>1 DEF TypeOK
  <2>3. taken' \in Seq([seq : Messages, bus : Buses, load : Messages])
    BY <1>1, <1>4, <2>2, AppendProperties DEF RemoveHead, TypeOK
  <2>4. coalesce' \in [Buses -> Messages \cup {Nil}]
    BY <1>1, <1>4 DEF RemoveHead, TypeOK
  <2>5. tail' \in Slots /\ payload' = payload /\ busOf' = busOf
    BY <1>1, <1>4 DEF RemoveHead, TypeOK
  <2>6. QED
    BY <1>1, <1>4, <2>3, <2>4, <2>5, Removed
<1>5. ASSUME NEW w \in Workers, LoopAndReturn(w)
      PROVE  /\ items' \in [Slots -> Messages \cup {Nil}]
             /\ head' \in Slots /\ tail' \in Slots /\ count' \in 0..Capacity
             /\ coalesce' \in [Buses -> Messages \cup {Nil}]
             /\ payload' = payload /\ busOf' = busOf
             /\ taken' \in Seq([seq : Messages, bus : Buses, load : Messages])
             /\ pc' \in [Workers -> {"idle", "waiting", "woken", "gone"}]
  <2>1. pc' \in [Workers -> {"idle", "waiting", "woken", "gone"}]
    BY <1>1, <1>5 DEF LoopAndReturn, TypeOK
  <2>2. CASE count > 0 /\ RemoveHead
    BY <1>4, <2>1, <2>2
  <2>3. CASE UNCHANGED <<ring, taken>>
    BY <1>1, <2>1, <2>3 DEF ring, buffer, TypeOK
  <2>4. QED
    BY <1>5, <2>2, <2>3 DEF LoopAndReturn
<1>6. ASSUME NEW b \in Buses, Enqueue(b)
      PROVE  TypeOK'
  <2>1. offered + 1 \in Messages /\ offered' \in 0..MaxItems /\ offered' = offered + 1
    BY <1>1, <1>6, OfferedIsNew, BoundedQueueAssumption DEF Enqueue, TypeOK
  <2>2. busOf' \in [Messages -> Buses]
    BY <1>1, <1>6, <2>1 DEF Enqueue, TypeOK
  <2>3. UNCHANGED <<dropPolicy, closed, cancelled, helpers, released, taken>>
    BY <1>6 DEF Enqueue
  <2>4. CASE EnqueueClosed
    BY <1>1, <2>1, <2>2, <2>3, <2>4, BoundedQueueAssumption
       DEF EnqueueClosed, buffer, TypeOK, NothingVanishes
  <2>5. CASE EnqueueCoalesced(offered + 1, b)
    <3>1. payload' \in [Messages -> Messages]
      BY <1>1, <2>1, <2>5 DEF EnqueueCoalesced, TypeOK
    <3>2. QED
      BY <1>1, <2>1, <2>2, <2>3, <2>5, <3>1, BoundedQueueAssumption
         DEF EnqueueCoalesced, TypeOK, NothingVanishes
  <2>6. CASE EnqueueSuccess(offered + 1, b)
    <3>1. count < Capacity /\ insertItem(offered + 1, b) /\ Signal
          /\ UNCHANGED <<droppedCount, coalescedCount, rejected, head, payload>>
      BY <2>6 DEF EnqueueSuccess, insertItem
    <3>2. /\ items' \in [Slots -> Messages \cup {Nil}]
          /\ tail' \in Slots /\ count' \in 0..Capacity
          /\ coalesce' \in [Buses -> Messages \cup {Nil}]
      BY <1>1, <2>1, <3>1, Inserted
    <3>3. QED
      BY <1>1, <1>2, <2>1, <2>2, <2>3, <3>1, <3>2 DEF TypeOK
  <2>7. CASE EnqueueDropped(b)
    BY <1>1, <2>1, <2>2, <2>3, <2>7, BoundedQueueAssumption
       DEF EnqueueDropped, buffer, TypeOK, NothingVanishes
  <2>8. QED
    BY <1>6, <2>4, <2>5, <2>6, <2>7 DEF Enqueue
<1>7. ASSUME NEW w \in Workers, Dequeue(w)
      PROVE  TypeOK'
  <2>1. helpers' \in [Workers -> BOOLEAN]
    BY <1>1, <1>7 DEF Dequeue, TypeOK
  <2>2. LoopAndReturn(w) /\ UNCHANGED <<dropPolicy, closed, stats, cancelled, released>>
    BY <1>7 DEF Dequeue
  <2>3. QED
    BY <1>1, <1>5, <2>1, <2>2 DEF TypeOK, stats
<1>8. ASSUME NEW w \in Workers, DequeueWoken(w)
      PROVE  TypeOK'
  <2>1. helpers' \in [Workers -> BOOLEAN] /\ released' \in [Workers -> Nat]
    BY <1>1, <1>8 DEF DequeueWoken, TypeOK
  <2>2. UNCHANGED <<dropPolicy, closed, stats, cancelled>>
    BY <1>8 DEF DequeueWoken
  <2>3. CASE LoopAndReturn(w)
    BY <1>1, <1>5, <2>1, <2>2, <2>3 DEF TypeOK, stats
  <2>4. CASE pc' = [pc EXCEPT ![w] = "gone"] /\ UNCHANGED <<ring, taken>>
    BY <1>1, <2>1, <2>2, <2>4 DEF TypeOK, stats, ring, buffer
  <2>5. QED
    BY <1>8, <2>3, <2>4 DEF DequeueWoken
<1>9. ASSUME NEW w \in Workers, HelperBroadcast(w) \/ HelperDone(w)
      PROVE  TypeOK'
  <2>1. helpers' \in [Workers -> BOOLEAN] /\ released' \in [Workers -> Nat]
    <3>1. released[w] > 0 => [released EXCEPT ![w] = @ - 1] \in [Workers -> Nat]
      BY <1>1 DEF TypeOK
    <3>2. [helpers EXCEPT ![w] = FALSE] \in [Workers -> BOOLEAN]
      BY <1>1 DEF TypeOK
    <3>3. QED
      BY <1>1, <1>9, <3>1, <3>2 DEF HelperBroadcast, HelperDone, TypeOK
  <2>2. pc' \in [Workers -> {"idle", "waiting", "woken", "gone"}]
    BY <1>1, <1>3, <1>9 DEF HelperBroadcast, HelperDone, TypeOK
  <2>3. UNCHANGED <<dropPolicy, ring, closed, stats, cancelled, taken>>
    BY <1>9 DEF HelperBroadcast, HelperDone
  <2>4. QED
    BY <1>1, <2>1, <2>2, <2>3 DEF TypeOK, ring, buffer, stats
<1>10. CASE TryDequeue
  BY <1>1, <1>4, <1>10 DEF TryDequeue, TypeOK, stats, threads
<1>11. CASE Close
  BY <1>1, <1>3, <1>11 DEF Close, TypeOK, ring, buffer, stats
<1>12. CASE CancelContext
  BY <1>1, <1>12 DEF CancelContext, TypeOK, ring, buffer, stats
<1>13. CASE UNCHANGED vars
  BY <1>1, <1>13 DEF vars, TypeOK, ring, buffer, stats, threads
<1>14. QED
  BY <1>6, <1>7, <1>8, <1>9, <1>10, <1>11, <1>12, <1>13 DEF Next

\* What workers were handed is well formed.
LEMMA TakenAre ==
  ASSUME TypeOK
  PROVE  /\ Len(taken) \in Nat
         /\ \A k \in 1..Len(taken) : /\ taken[k].seq \in Messages /\ taken[k].bus \in Buses
                                     /\ taken[k].load \in Messages
<1>1. taken \in Seq([seq : Messages, bus : Buses, load : Messages])
  BY DEF TypeOK
<1>2. Len(taken) \in Nat
  BY <1>1, LenProperties
<1>3. \A k \in 1..Len(taken) : taken[k] \in [seq : Messages, bus : Buses, load : Messages]
  BY <1>1, ElementOfSeq
<1>4. QED
  BY <1>2, <1>3

\* A step that leaves queue, counters and history alone keeps the invariant.
LEMMA UntouchedKeepsIInv ==
  ASSUME IInv, TypeOK', UNCHANGED <<dropPolicy, ring, stats, taken>>
  PROVE  IInv'
<1>1. /\ UNCHANGED <<dropPolicy, items, head, tail, count, coalesce, payload, busOf, droppedCount,
                     coalescedCount, offered, rejected, taken>>
      /\ Contents' = Contents /\ Queued' = Queued
  BY DEF ring, buffer, stats, Contents, Queued
<1>2. RingSound' /\ CoalesceMapSound' /\ NothingVanishes'
  BY <1>1 DEF IInv, QueueSound, RingSound, CoalesceMapSound, NothingVanishes
<1>3. InArrivalOrder' /\ TakenIsOlder' /\ PayloadsNewest'
  BY <1>1 DEF IInv, InArrivalOrder, TakenIsOlder, PayloadsNewest
<1>4. \A s \in Messages : CarriesNewer(s)'
  BY <1>1 DEF IInv, CarriesNewer
<1>5. QED
  BY <1>2, <1>3, <1>4 DEF IInv, QueueSound

\* Naming the bus of the message offered changes no bus that was named before.
LEMMA BusesStay ==
  ASSUME IInv, NEW b \in Buses, offered < MaxItems,
         busOf' = [busOf EXCEPT ![offered + 1] = b]
  PROVE  /\ busOf'[offered + 1] = b
         /\ \A s \in Messages : s <= offered => busOf'[s] = busOf[s]
         /\ \A i \in 1..count : busOf'[Contents[i]] = busOf[Contents[i]]
         /\ \A c \in Buses : coalesce[c] # Nil => busOf'[coalesce[c]] = busOf[coalesce[c]]
         /\ \A k \in 1..Len(taken) : busOf'[taken[k].load] = busOf[taken[k].load]
<1> USE DEF IInv, QueueSound
<1>1. offered \in Nat /\ busOf \in [Messages -> Buses] /\ offered + 1 \in Messages
  BY OfferedIsNew DEF TypeOK
<1>2. \A s \in Messages : s # offered + 1 => busOf'[s] = busOf[s]
  BY <1>1
<1>3. \A s \in Messages : s <= offered => s # offered + 1
  BY <1>1 DEF Messages
<1>4. \A k \in 1..Len(taken) : taken[k].load \in Messages /\ taken[k].load <= offered
  BY TakenAre DEF TakenIsOlder
<1>5. \A c \in Buses : coalesce[c] # Nil => coalesce[c] \in Messages
  BY DEF TypeOK
<1>6. QED
  BY <1>1, <1>2, <1>3, <1>4, <1>5, OfferedIsNew

\* What a step that offers a message keeps of the history and of the items' payloads.
LEMMA OfferKeeps ==
  ASSUME IInv, NEW b \in Buses, offered < MaxItems, offered' = offered + 1,
         busOf' = [busOf EXCEPT ![offered + 1] = b], UNCHANGED <<dropPolicy, taken>>
  PROVE  /\ PayloadsNewest'
         /\ \A s \in Messages : payload'[s] = payload[s] => CarriesNewer(s)'
<1> USE DEF IInv, QueueSound
<1>1. offered \in Nat /\ Messages \subseteq Nat /\ payload \in [Messages -> Messages]
  BY DEF TypeOK, Messages
<1>2. PayloadsNewest'
  BY BusesStay DEF PayloadsNewest
<1>3. ASSUME NEW s \in Messages, payload'[s] = payload[s]
      PROVE  CarriesNewer(s)'
  <2>1. CASE s <= offered
    <3>1. payload[s] \in Messages /\ payload[s] <= offered
      BY <1>1, <2>1 DEF CarriesNewer
    <3>2. busOf'[s] = busOf[s] /\ busOf'[payload[s]] = busOf[payload[s]]
      BY <2>1, <3>1, BusesStay
    <3>3. CarriesNewer(s) /\ s \in Nat /\ payload[s] \in Nat
      BY <1>1
    <3>4. ~(s > offered) /\ ~(s > offered') /\ payload[s] <= offered'
      BY <1>1, <2>1, <3>1, <3>3
    <3>5. QED
      BY <1>3, <3>2, <3>3, <3>4 DEF CarriesNewer
  <2>2. CASE s > offered
    BY <1>1, <1>3, <2>2 DEF CarriesNewer
  <2>3. QED
    BY <1>1, <2>1, <2>2
<1>4. QED
  BY <1>2, <1>3

\* A message that is turned away changes nothing but a counter.
LEMMA RefusedKeepsIInv ==
  ASSUME IInv, TypeOK', NEW b \in Buses, offered < MaxItems, offered' = offered + 1,
         busOf' = [busOf EXCEPT ![offered + 1] = b],
         UNCHANGED <<dropPolicy, buffer, coalescedCount, taken>>,
         \/ rejected' = rejected + 1 /\ droppedCount' = droppedCount
         \/ droppedCount' = droppedCount + 1 /\ rejected' = rejected
  PROVE  IInv'
<1>0. /\ busOf'[offered + 1] = b
      /\ \A i \in 1..count : busOf'[Contents[i]] = busOf[Contents[i]]
      /\ \A c \in Buses : coalesce[c] # Nil => busOf'[coalesce[c]] = busOf[coalesce[c]]
  BY BusesStay
<1> USE DEF IInv, QueueSound
<1>1. /\ UNCHANGED <<dropPolicy, items, head, tail, count, coalesce, payload, taken>>
      /\ Contents' = Contents /\ Queued' = Queued
  BY DEF buffer, Contents, Queued
<1>2. RingSound'
  BY <1>1 DEF RingSound
<1>3. CoalesceMapSound'
  BY <1>0, <1>1 DEF CoalesceMapSound
<1>4. NothingVanishes'
  <2>1. /\ Len(taken) \in Nat /\ coalescedCount \in Nat /\ droppedCount \in Nat
        /\ rejected \in Nat /\ offered \in Nat /\ count \in Nat
    BY TakenAre DEF TypeOK
  <2>2. taken' = taken /\ count' = count
    BY <1>1
  <2>3. QED
    BY <2>1, <2>2 DEF NothingVanishes
<1>5. InArrivalOrder'
  BY <1>1, ContentsAre DEF InArrivalOrder, TypeOK, Messages
<1>6. TakenIsOlder'
  <2>1. \A k \in 1..Len(taken) : taken[k].load \in Nat /\ taken[k].load <= offered
    BY TakenAre DEF TakenIsOlder, Messages
  <2>2. offered \in Nat
    BY DEF TypeOK
  <2>3. QED
    BY <1>0, <1>1, <2>1, <2>2 DEF TakenIsOlder
<1>7. QED
  BY <1>1, <1>2, <1>3, <1>4, <1>5, <1>6, OfferKeeps

\* A message that joins the back is newer than all there is, and alone for its bus if
\* items are merged.
LEMMA SuccessKeepsIInv ==
  ASSUME IInv, TypeOK', NEW b \in Buses, offered < MaxItems, offered' = offered + 1,
         busOf' = [busOf EXCEPT ![offered + 1] = b], UNCHANGED <<dropPolicy, taken>>,
         EnqueueSuccess(offered + 1, b)
  PROVE  IInv'
<1>0. /\ busOf'[offered + 1] = b
      /\ \A i \in 1..count : busOf'[Contents[i]] = busOf[Contents[i]]
      /\ \A c \in Buses : coalesce[c] # Nil => busOf'[coalesce[c]] = busOf[coalesce[c]]
  BY BusesStay
<1> USE DEF IInv, QueueSound
<1> DEFINE s == offered + 1
<1>1. /\ count < Capacity /\ insertItem(s, b) /\ ~CanCoalesce(b)
      /\ UNCHANGED <<droppedCount, coalescedCount, rejected, head, payload>>
  BY DEF EnqueueSuccess, insertItem
<1>2. s \in Messages /\ offered \in Nat /\ count \in Nat
  BY OfferedIsNew DEF TypeOK
<1>3. /\ count' = count + 1 /\ RingSound'
      /\ \A i \in 1..count : Contents'[i] = Contents[i]
      /\ Contents'[count + 1] = s
  BY <1>1, <1>2, Inserted
<1>4. 1..count' = 1..count \cup {count + 1}
  BY <1>2, <1>3
<1>5. coalesce' = IF b # NoBus THEN [coalesce EXCEPT ![b] = s] ELSE coalesce
  BY <1>1 DEF insertItem
<1>6. CoalesceMapSound'
  <2>1. \A c \in Buses : coalesce'[c] # Nil => coalesce'[c] \in Queued' /\ busOf'[coalesce'[c]] = c
    <3>1. \A m \in Queued : m \in Queued'
      BY <1>3, <1>4 DEF Queued
    <3>2. s \in Queued'
      BY <1>2, <1>3, <1>4 DEF Queued
    <3>3. QED
      BY <1>0, <1>5, <3>1, <3>2 DEF CoalesceMapSound, TypeOK
  <2>2. coalesce'[NoBus] = Nil
    BY <1>5 DEF CoalesceMapSound, TypeOK
  <2>3. ASSUME dropPolicy = "coalesce_latest", NEW i \in 1..count', busOf'[Contents'[i]] # NoBus
        PROVE  coalesce'[busOf'[Contents'[i]]] = Contents'[i]
    <3>1. coalesce[b] = Nil
      BY <1>1, <2>3 DEF CanCoalesce
    <3>2. CASE i = count + 1
      BY <1>0, <1>3, <1>5, <2>3, <3>2 DEF TypeOK
    <3>3. CASE i \in 1..count
      <4>1. Contents'[i] = Contents[i] /\ busOf'[Contents[i]] = busOf[Contents[i]]
        BY <1>0, <1>3, <3>3
      <4>2. Contents[i] \in Messages /\ coalesce[busOf[Contents[i]]] = Contents[i]
        BY <2>3, <3>3, <4>1, ContentsAre DEF CoalesceMapSound
      <4>3. busOf[Contents[i]] # b /\ busOf[Contents[i]] \in Buses
        BY <3>1, <4>2, BoundedQueueAssumption DEF TypeOK, Messages
      <4>4. QED
        BY <1>5, <4>1, <4>2, <4>3 DEF TypeOK
    <3>4. QED
      BY <1>4, <3>2, <3>3
  <2>4. QED
    BY <2>1, <2>2, <2>3 DEF CoalesceMapSound
<1>7. NothingVanishes'
  <2>1. /\ Len(taken) \in Nat /\ coalescedCount \in Nat /\ droppedCount \in Nat
        /\ rejected \in Nat
    BY TakenAre DEF TypeOK
  <2>2. /\ offered' = offered + 1 /\ count' = count + 1 /\ taken' = taken
        /\ UNCHANGED <<coalescedCount, droppedCount, rejected>>
    BY <1>1, <1>3
  <2>3. QED
    BY <1>2, <2>1, <2>2 DEF NothingVanishes
<1>8. InArrivalOrder'
  <2>1. \A i \in 1..count : Contents'[i] \in Nat /\ Contents'[i] <= offered
    BY <1>3, ContentsAre DEF InArrivalOrder, Messages
  <2>2. ASSUME NEW i \in 1..count', NEW j \in 1..count', i < j
        PROVE  Contents'[i] < Contents'[j]
    <3>1. i \in 1..count
      BY <1>2, <1>3, <2>2
    <3>2. QED
      BY <1>2, <1>3, <1>4, <2>1, <2>2, <3>1 DEF InArrivalOrder
  <2>3. QED
    BY <1>2, <1>3, <1>4, <2>1, <2>2 DEF InArrivalOrder
<1>9. TakenIsOlder'
  <2>1. \A k \in 1..Len(taken) : taken[k].load \in Nat /\ taken[k].load <= offered
    BY TakenAre DEF TakenIsOlder, Messages
  <2>2. payload[s] = s
    BY <1>2 DEF CarriesNewer
  <2>3. ASSUME NEW k \in 1..Len(taken), NEW i \in 1..count', taken[k].bus = busOf'[Contents'[i]]
        PROVE  taken[k].load < payload'[Contents'[i]]
    <3>1. CASE i = count + 1
      BY <1>1, <1>2, <1>3, <2>1, <2>2, <3>1
    <3>2. CASE i \in 1..count
      BY <1>0, <1>1, <1>3, <2>3, <3>2 DEF TakenIsOlder
    <3>3. QED
      BY <1>4, <3>1, <3>2
  <2>4. QED
    BY <1>2, <2>1, <2>3 DEF TakenIsOlder
<1>10. QED
  BY <1>1, <1>3, <1>6, <1>7, <1>8, <1>9, OfferKeeps

\* A merged message replaces the payload of the one item queued for its bus.
LEMMA CoalescedKeepsIInv ==
  ASSUME IInv, TypeOK', NEW b \in Buses, offered < MaxItems, offered' = offered + 1,
         busOf' = [busOf EXCEPT ![offered + 1] = b], UNCHANGED <<dropPolicy, taken>>,
         EnqueueCoalesced(offered + 1, b)
  PROVE  IInv'
<1> DEFINE m == coalesce[b]
<1>0. /\ busOf'[offered + 1] = b
      /\ \A i \in 1..count : busOf'[Contents[i]] = busOf[Contents[i]]
      /\ \A c \in Buses : coalesce[c] # Nil => busOf'[coalesce[c]] = busOf[coalesce[c]]
  BY BusesStay
<1> USE DEF IInv, QueueSound
<1>1. /\ m # Nil /\ dropPolicy = "coalesce_latest"
      /\ payload' = [payload EXCEPT ![m] = offered + 1]
      /\ UNCHANGED <<items, head, tail, count, coalesce, droppedCount, rejected>>
      /\ coalescedCount' = coalescedCount + 1
      /\ Contents' = Contents /\ Queued' = Queued
  BY DEF EnqueueCoalesced, CanCoalesce, Contents, Queued
<1>2. PICK q \in 1..count : m = Contents[q]
  BY <1>1 DEF CoalesceMapSound, Queued
<1>3. /\ m \in Messages /\ m <= offered /\ busOf[m] = b /\ b # NoBus
      /\ offered \in Nat /\ Messages \subseteq Nat
  BY <1>1, <1>2, ContentsAre DEF CoalesceMapSound, InArrivalOrder, TypeOK, Messages
<1>4. /\ payload'[m] = offered + 1
      /\ \A s \in Messages : s # m => payload'[s] = payload[s]
  BY <1>1, <1>3 DEF TypeOK
<1>5. RingSound'
  BY <1>1 DEF RingSound
<1>6. CoalesceMapSound'
  BY <1>0, <1>1 DEF CoalesceMapSound
<1>7. NothingVanishes'
  BY <1>1, TakenAre DEF NothingVanishes, TypeOK
<1>8. InArrivalOrder'
  <2>1. \A i \in 1..count : Contents[i] \in Nat
    BY <1>3, ContentsAre
  <2>2. QED
    BY <1>1, <1>3, <2>1 DEF InArrivalOrder
<1>9. \A s \in Messages : CarriesNewer(s)'
  <2>1. ASSUME NEW s \in Messages, s = m PROVE CarriesNewer(s)'
    <3>1. payload'[s] = offered' /\ s <= offered' /\ busOf'[s] = b /\ busOf'[offered'] = b
      BY <1>0, <1>1, <1>3, <1>4, <2>1
    <3>2. s \in Nat /\ dropPolicy' # "drop_new" /\ offered' \in Nat
      BY <1>1, <1>3
    <3>3. QED
      BY <1>3, <3>1, <3>2 DEF CarriesNewer
  <2>2. ASSUME NEW s \in Messages, s # m PROVE CarriesNewer(s)'
    BY <1>4, <2>2, OfferKeeps
  <2>3. QED
    BY <2>1, <2>2
<1>10. TakenIsOlder'
  <2>1. \A k \in 1..Len(taken) : taken[k].load \in Nat /\ taken[k].load <= offered
    BY <1>3, TakenAre DEF TakenIsOlder
  <2>2. ASSUME NEW k \in 1..Len(taken), NEW i \in 1..count, taken[k].bus = busOf[Contents[i]]
        PROVE  taken[k].load < payload'[Contents[i]]
    <3>1. CASE Contents[i] = m
      BY <1>3, <1>4, <2>1, <3>1
    <3>2. CASE Contents[i] # m
      BY <1>4, <2>2, <3>2, ContentsAre DEF TakenIsOlder
    <3>3. QED
      BY <3>1, <3>2
  <2>3. QED
    BY <1>0, <1>1, <1>3, <2>1, <2>2 DEF TakenIsOlder
<1>11. QED
  BY <1>5, <1>6, <1>7, <1>8, <1>9, <1>10, OfferKeeps

\* The worker is handed the oldest item, which is newer than all it was handed for the
\* same bus and older than all that stays.
LEMMA RemovedKeepsIInv ==
  ASSUME IInv, TypeOK', count > 0, RemoveHead, UNCHANGED <<dropPolicy, stats>>
  PROVE  IInv'
<1> DEFINE s == Contents[1]
           r == [seq |-> s, bus |-> busOf[s], load |-> payload[s]]
<1>0. \A i \in 2..count : busOf[s] = busOf[Contents[i]] => payload[s] < payload[Contents[i]]
  <2>1. count \in Nat
    BY DEF IInv, QueueSound, TypeOK
  <2>2. QED
    BY <2>1, QueuedNewest
<1> USE DEF IInv, QueueSound
<1>1. /\ count' = count - 1 /\ items[head] = s /\ s \in Messages /\ RingSound'
      /\ \A i \in 1..count' : Contents'[i] = Contents[i + 1]
  BY Removed
<1>2. /\ count \in Nat /\ offered \in Nat /\ Messages \subseteq Nat
      /\ payload[s] \in Messages /\ busOf[s] \in Buses
      /\ \A i \in 1..count' : i + 1 \in 2..count /\ i + 1 \in 1..count
  BY <1>1 DEF TypeOK, Messages
<1>3. /\ coalesce' = IF busOf[s] # NoBus THEN [coalesce EXCEPT ![busOf[s]] = Nil] ELSE coalesce
      /\ taken' = Append(taken, r)
      /\ UNCHANGED <<payload, busOf, dropPolicy, droppedCount, coalescedCount, offered, rejected>>
  BY <1>1 DEF RemoveHead, stats
<1>4. /\ Len(taken) \in Nat /\ Len(taken') = Len(taken) + 1
      /\ \A k \in 1..Len(taken) : taken'[k] = taken[k]
      /\ taken'[Len(taken) + 1] = r
  <2>1. taken \in Seq([seq : Messages, bus : Buses, load : Messages])
    BY DEF TypeOK
  <2>2. r \in [seq : Messages, bus : Buses, load : Messages]
    BY <1>1, <1>2
  <2>3. QED
    BY <1>3, <2>1, <2>2, AppendProperties, LenProperties
<1>5. 1..Len(taken') = 1..Len(taken) \cup {Len(taken) + 1}
  BY <1>4
<1>6. \A i \in 2..count : s < Contents[i] /\ Contents[i] \in Messages
  BY <1>2, ContentsAre DEF InArrivalOrder
<1>7. CoalesceMapSound'
  <2>1. ASSUME NEW c \in Buses, coalesce'[c] # Nil
        PROVE  coalesce'[c] \in Queued' /\ busOf[coalesce'[c]] = c
    <3>1. coalesce'[c] = coalesce[c] /\ c # busOf[s]
      BY <1>2, <1>3, <2>1 DEF TypeOK, CoalesceMapSound
    <3>2. PICK i \in 1..count : coalesce[c] = Contents[i]
      BY <2>1, <3>1 DEF CoalesceMapSound, Queued
    <3>3. busOf[coalesce[c]] = c
      BY <2>1, <3>1 DEF CoalesceMapSound
    <3>4. i # 1
      BY <3>1, <3>2, <3>3
    <3>5. i - 1 \in 1..count' /\ (i - 1) + 1 = i
      BY <1>1, <1>2, <3>4
    <3>6. Contents'[i - 1] = coalesce'[c]
      BY <1>1, <3>1, <3>2, <3>5
    <3>7. QED
      BY <3>1, <3>3, <3>5, <3>6 DEF Queued
  <2>2. coalesce'[NoBus] = Nil
    BY <1>2, <1>3 DEF CoalesceMapSound, TypeOK
  <2>3. ASSUME dropPolicy = "coalesce_latest", NEW i \in 1..count', busOf[Contents'[i]] # NoBus
        PROVE  coalesce'[busOf[Contents'[i]]] = Contents'[i]
    <3>1. Contents'[i] = Contents[i + 1] /\ i + 1 \in 2..count /\ i + 1 \in 1..count
      BY <1>1, <1>2
    <3>2. coalesce[busOf[Contents[i + 1]]] = Contents[i + 1]
      BY <2>3, <3>1 DEF CoalesceMapSound
    <3>3. busOf[s] # NoBus => coalesce[busOf[s]] = s
      BY <1>2, <2>3, 1 \in 1..count DEF CoalesceMapSound
    <3>4. Contents[i + 1] # s /\ busOf[Contents[i + 1]] \in Buses
      <4>1. s \in Nat /\ Contents[i + 1] \in Nat /\ s < Contents[i + 1]
        BY <1>1, <1>2, <1>6, <3>1
      <4>2. Contents[i + 1] \in Messages
        BY <1>6, <3>1
      <4>3. QED
        BY <4>1, <4>2 DEF TypeOK
    <3>5. QED
      BY <1>2, <1>3, <2>3, <3>1, <3>2, <3>3, <3>4 DEF TypeOK
  <2>4. QED
    BY <1>3, <2>1, <2>2, <2>3 DEF CoalesceMapSound
<1>8. NothingVanishes'
  BY <1>1, <1>2, <1>3, <1>4 DEF NothingVanishes, TypeOK
<1>9. InArrivalOrder'
  BY <1>1, <1>2, <1>3 DEF InArrivalOrder
<1>10. \A m \in Messages : CarriesNewer(m)'
  BY <1>3 DEF CarriesNewer
<1>11. TakenIsOlder'
  <2>1. payload[s] <= offered
    BY <1>1, <1>2, 1 \in 1..count DEF CarriesNewer, InArrivalOrder
  <2>2. \A k \in 1..Len(taken') : taken'[k].load <= offered
    BY <1>4, <1>5, <2>1 DEF TakenIsOlder
  <2>3. ASSUME NEW k \in 1..Len(taken'), NEW i \in 1..count',
               taken'[k].bus = busOf[Contents'[i]]
        PROVE  taken'[k].load < payload[Contents'[i]]
    <3>1. Contents'[i] = Contents[i + 1] /\ i + 1 \in 2..count /\ i + 1 \in 1..count
      BY <1>1, <1>2
    <3>2. CASE k \in 1..Len(taken)
      BY <1>4, <2>3, <3>1, <3>2 DEF TakenIsOlder
    <3>3. CASE k = Len(taken) + 1
      BY <1>0, <1>4, <2>3, <3>1, <3>3
    <3>4. QED
      BY <1>5, <3>2, <3>3
  <2>4. QED
    BY <1>3, <2>2, <2>3 DEF TakenIsOlder
<1>12. PayloadsNewest'
  <2>1. ASSUME NEW i \in 1..Len(taken'), NEW j \in 1..Len(taken'), i < j,
               taken'[i].bus = taken'[j].bus
        PROVE  taken'[i].load < taken'[j].load
    <3>1. i \in 1..Len(taken) /\ taken'[i] = taken[i]
      BY <1>4, <1>5, <2>1
    <3>2. CASE j \in 1..Len(taken)
      BY <1>4, <2>1, <3>1, <3>2 DEF PayloadsNewest
    <3>3. CASE j = Len(taken) + 1
      <4>1. 1 \in 1..count /\ taken[i].bus = busOf[Contents[1]]
        BY <1>2, <1>4, <2>1, <3>1, <3>3
      <4>2. QED
        BY <1>4, <3>1, <3>3, <4>1 DEF TakenIsOlder
    <3>4. QED
      BY <1>5, <3>2, <3>3
  <2>2. \A i \in 1..Len(taken') :
          taken'[i].load >= taken'[i].seq /\ busOf[taken'[i].load] = taken'[i].bus
    <3>1. r.load >= r.seq /\ busOf[r.load] = r.bus
      BY <1>1 DEF CarriesNewer
    <3>2. QED
      BY <1>4, <1>5, <3>1 DEF PayloadsNewest
  <2>3. QED
    BY <1>3, <2>1, <2>2 DEF PayloadsNewest
<1>13. QED
  BY <1>1, <1>7, <1>8, <1>9, <1>10, <1>11, <1>12

\* What a worker's turn in the loop does to the queue.
LEMMA LoopCases ==
  ASSUME NEW w, LoopAndReturn(w)
  PROVE  (count > 0 /\ RemoveHead) \/ UNCHANGED <<ring, taken>>
BY DEF LoopAndReturn

\* A step removes the head, offers a message or leaves the queue alone.
LEMMA StepCases ==
  ASSUME [Next]_vars
  PROVE  \/ count > 0 /\ RemoveHead /\ UNCHANGED <<dropPolicy, stats>>
         \/ \E b \in Buses : Enqueue(b)
         \/ UNCHANGED <<dropPolicy, ring, stats, taken>>
<1>1. ASSUME NEW w \in Workers, Dequeue(w) \/ DequeueWoken(w)
      PROVE  UNCHANGED <<dropPolicy, stats>> /\ (LoopAndReturn(w) \/ UNCHANGED <<ring, taken>>)
  BY <1>1 DEF Dequeue, DequeueWoken
<1>2. ASSUME NEW w \in Workers, Dequeue(w) \/ DequeueWoken(w)
      PROVE  \/ count > 0 /\ RemoveHead /\ UNCHANGED <<dropPolicy, stats>>
             \/ UNCHANGED <<dropPolicy, ring, stats, taken>>
  BY <1>1, <1>2, LoopCases
<1>3. ASSUME NEW w \in Workers, HelperBroadcast(w) \/ HelperDone(w)
      PROVE  UNCHANGED <<dropPolicy, ring, stats, taken>>
  BY <1>3 DEF HelperBroadcast, HelperDone
<1>4. CASE TryDequeue
  BY <1>4 DEF TryDequeue
<1>5. CASE Close \/ CancelContext
  BY <1>5 DEF Close, CancelContext
<1>6. CASE UNCHANGED vars
  BY <1>6 DEF vars
<1>7. QED
  BY <1>2, <1>3, <1>4, <1>5, <1>6 DEF Next

\* No step breaks the invariant.
LEMMA NextKeepsIInv == IInv /\ [Next]_vars => IInv'
<1> SUFFICES ASSUME IInv, [Next]_vars PROVE IInv'
  OBVIOUS
<1>1. TypeOK'
  BY NextKeepsType
<1>2. CASE count > 0 /\ RemoveHead /\ UNCHANGED <<dropPolicy, stats>>
  BY <1>1, <1>2, RemovedKeepsIInv
<1>3. CASE UNCHANGED <<dropPolicy, ring, stats, taken>>
  BY <1>1, <1>3, UntouchedKeepsIInv
<1>4. ASSUME NEW b \in Buses, Enqueue(b) PROVE IInv'
  <2>1. /\ offered < MaxItems /\ offered' = offered + 1
        /\ busOf' = [busOf EXCEPT ![offered + 1] = b]
        /\ UNCHANGED <<dropPolicy, taken>>
    BY <1>4 DEF Enqueue
  <2>2. CASE EnqueueClosed \/ EnqueueDropped(b)
    <3>1. /\ UNCHANGED <<dropPolicy, buffer, coalescedCount, taken>>
          /\ \/ rejected' = rejected + 1 /\ droppedCount' = droppedCount
             \/ droppedCount' = droppedCount + 1 /\ rejected' = rejected
      BY <2>1, <2>2 DEF EnqueueClosed, EnqueueDropped
    <3>2. QED
      BY <1>1, <2>1, <3>1, RefusedKeepsIInv
  <2>3. CASE EnqueueCoalesced(offered + 1, b)
    BY <1>1, <2>1, <2>3, CoalescedKeepsIInv
  <2>4. CASE EnqueueSuccess(offered + 1, b)
    BY <1>1, <2>1, <2>4, SuccessKeepsIInv
  <2>5. QED
    BY <1>4, <2>2, <2>3, <2>4 DEF Enqueue
<1>5. QED
  BY <1>2, <1>3, <1>4, StepCases

\* The invariant holds throughout.
THEOREM IInvHolds == Spec => []IInv
BY InitIInv, NextKeepsIInv, PTL DEF Spec

\* Ring, map and counters agree at every wrap-around, merge and removal.
THEOREM QueueIsSound == Spec => []QueueSound
<1>1. IInv => QueueSound
  BY DEF IInv
<1>2. QED
  BY <1>1, IInvHolds, PTL

\* Per bus, workers are handed its own messages only, older before newer.
THEOREM PayloadsAreNewest == Spec => []PayloadsNewest
<1>1. IInv => PayloadsNewest
  BY DEF IInv
<1>2. QED
  BY <1>1, IInvHolds, PTL

-----------------------------------------------------------------------------
Item == [seq : Messages, bus : Buses, load : Messages]

\* The queued items form a sequence as long as count says.
ItemsInLine ==
  /\ QueuedItems \in Seq(Item) /\ Len(QueuedItems) = count
  /\ \A i \in 1..count : QueuedItems[i] = [seq  |-> Contents[i],
                                           bus  |-> busOf[Contents[i]],
                                           load |-> payload[Contents[i]]]

\* In a sound ring they do.
LEMMA QueuedItemsAre == IInv => ItemsInLine
<1> SUFFICES ASSUME IInv PROVE ItemsInLine
  OBVIOUS
<1>1. \A i \in 1..count : Contents[i] \in Messages
  BY ContentsAre DEF IInv, QueueSound
<1>2. QueuedItems \in [1..count -> Item] /\ count \in Nat
  BY <1>1 DEF IInv, QueueSound, QueuedItems, Item, TypeOK
<1>3. QueuedItems \in Seq(Item) /\ Len(QueuedItems) = count
  BY <1>2
<1>4. ASSUME NEW i \in 1..count
      PROVE  QueuedItems[i] = [seq  |-> Contents[i],
                               bus  |-> busOf[Contents[i]],
                               load |-> payload[Contents[i]]]
  BY <1>4 DEF QueuedItems
<1>5. QED
  BY <1>3, <1>4 DEF ItemsInLine

\* Removing the head is taking the first item of the FIFO.
LEMMA RemovedIsTake ==
  ASSUME IInv, IInv', count > 0, RemoveHead, UNCHANGED <<dropPolicy, stats>>
  PROVE  Fifo!Take
<1>0. TypeOK /\ RingSound
  BY DEF IInv, QueueSound
<1>1. /\ count' = count - 1 /\ items[head] = Contents[1] /\ count \in Nat
      /\ \A i \in 1..count' : Contents'[i] = Contents[i + 1]
  <2>1. count \in Nat
    BY <1>0 DEF TypeOK
  <2>2. QED
    BY <1>0, <2>1, Removed
<1>2. ItemsInLine
  BY QueuedItemsAre
<1>3. ItemsInLine'
  BY QueuedItemsAre, PTL
<1> USE DEF ItemsInLine
<1>4. UNCHANGED <<payload, busOf, dropPolicy, offered>>
  BY DEF RemoveHead, stats
<1>5. QueuedItems # <<>>
  BY <1>1, <1>2
<1>6. QueuedItems' = Tail(QueuedItems)
  <2>1. /\ Tail(QueuedItems) \in Seq(Item) /\ Len(Tail(QueuedItems)) = count - 1
        /\ \A i \in 1..(count - 1) : Tail(QueuedItems)[i] = QueuedItems[i + 1]
    BY <1>2, <1>5, HeadTailProperties
  <2>2. ASSUME NEW i \in 1..count' PROVE QueuedItems'[i] = QueuedItems[i + 1]
    <3>1. i + 1 \in 1..count /\ Contents'[i] = Contents[i + 1]
      BY <1>1
    <3>2. QED
      BY <1>2, <1>3, <1>4, <3>1
  <2>3. \A i \in 1..count' : QueuedItems'[i] = Tail(QueuedItems)[i]
    BY <1>1, <2>1, <2>2
  <2>4. QED
    BY <1>1, <1>3, <2>1, <2>3, SeqEqual
<1>7. taken' = Append(taken, Head(QueuedItems))
  <2>1. Head(QueuedItems) = QueuedItems[1]
    BY <1>2, <1>5
  <2>2. QED
    BY <1>1, <1>2, <2>1, 1 \in 1..count DEF RemoveHead
<1>8. QED
  BY <1>4, <1>5, <1>6, <1>7 DEF Fifo!Take

\* Inserting at the tail is putting the message at the back of the FIFO.
LEMMA SuccessIsPut ==
  ASSUME IInv, IInv', NEW b \in Buses, offered < MaxItems, offered' = offered + 1,
         busOf' = [busOf EXCEPT ![offered + 1] = b], UNCHANGED <<dropPolicy, taken>>,
         EnqueueSuccess(offered + 1, b)
  PROVE  Fifo!Put(b)
<1> DEFINE s == offered + 1
           r == [seq |-> s, bus |-> b, load |-> s]
<1>1. ItemsInLine
  BY QueuedItemsAre
<1>2. ItemsInLine'
  BY QueuedItemsAre, PTL
<1>3. /\ count < Capacity /\ insertItem(s, b) /\ payload' = payload
  BY DEF EnqueueSuccess, insertItem
<1>4. s \in Messages /\ count \in Nat /\ payload[s] = s
  BY OfferedIsNew DEF IInv, QueueSound, TypeOK, CarriesNewer
<1>5. /\ count' = count + 1
      /\ \A i \in 1..count : Contents'[i] = Contents[i]
      /\ Contents'[count + 1] = s
  BY <1>3, <1>4, Inserted DEF IInv, QueueSound
<1>6. busOf'[s] = b /\ \A i \in 1..count : busOf'[Contents[i]] = busOf[Contents[i]]
  BY BusesStay
<1>7. r \in Item
  BY <1>4 DEF Item
<1> USE DEF ItemsInLine
<1>8. QueuedItems' = Append(QueuedItems, r)
  <2>1. /\ Append(QueuedItems, r) \in Seq(Item) /\ Len(Append(QueuedItems, r)) = count + 1
        /\ \A i \in 1..count : Append(QueuedItems, r)[i] = QueuedItems[i]
        /\ Append(QueuedItems, r)[count + 1] = r
    BY <1>1, <1>7, AppendProperties
  <2>2. ASSUME NEW i \in 1..count PROVE QueuedItems'[i] = QueuedItems[i]
    <3>1. i \in 1..count' /\ Contents'[i] = Contents[i]
      BY <1>4, <1>5
    <3>2. QED
      BY <1>1, <1>2, <1>3, <1>6, <3>1
  <2>3. QueuedItems'[count + 1] = r
    <3>1. count + 1 \in 1..count' /\ Contents'[count + 1] = s
      BY <1>4, <1>5
    <3>2. QED
      BY <1>2, <1>3, <1>4, <1>6, <3>1
  <2>4. \A i \in 1..count' : QueuedItems'[i] = Append(QueuedItems, r)[i]
    BY <1>4, <1>5, <2>1, <2>2, <2>3
  <2>5. QED
    BY <1>2, <1>5, <2>1, <2>4, SeqEqual
<1>9. QED
  BY <1>1, <1>3, <1>8 DEF Fifo!Put, Fifo!Arrive

\* Merging replaces the load of one item of the FIFO.
LEMMA CoalescedIsMerge ==
  ASSUME IInv, IInv', NEW b \in Buses, offered < MaxItems, offered' = offered + 1,
         busOf' = [busOf EXCEPT ![offered + 1] = b], UNCHANGED <<dropPolicy, taken>>,
         EnqueueCoalesced(offered + 1, b)
  PROVE  \E q \in DOMAIN QueuedItems : Fifo!Merge(q)
<1>1. ItemsInLine
  BY QueuedItemsAre
<1>2. ItemsInLine'
  BY QueuedItemsAre, PTL
<1>3. /\ coalesce[b] # Nil /\ dropPolicy = "coalesce_latest"
      /\ payload' = [payload EXCEPT ![coalesce[b]] = offered + 1]
      /\ count' = count /\ Contents' = Contents
  BY DEF EnqueueCoalesced, CanCoalesce, Contents
<1>4. PICK q \in 1..count : coalesce[b] = Contents[q]
  BY <1>3 DEF IInv, QueueSound, CoalesceMapSound, Queued
<1>5. count \in Nat /\ \A i \in 1..count : Contents[i] \in Messages
  BY ContentsAre DEF IInv, QueueSound, TypeOK
<1>6. \A i \in 1..count : i # q => Contents[i] # Contents[q]
  <2>1. \A i, j \in 1..count : i < j => Contents[i] < Contents[j]
    BY DEF IInv, InArrivalOrder
  <2>2. \A i \in 1..count : Contents[i] \in Nat
    BY <1>5 DEF Messages
  <2>3. QED
    BY <1>5, <2>1, <2>2
<1>7. /\ payload'[Contents[q]] = offered + 1
      /\ \A i \in 1..count : i # q => payload'[Contents[i]] = payload[Contents[i]]
  BY <1>3, <1>4, <1>5, <1>6 DEF IInv, QueueSound, TypeOK
<1>8. \A i \in 1..count : busOf'[Contents[i]] = busOf[Contents[i]]
  BY BusesStay
<1> USE DEF ItemsInLine
<1> DEFINE e == [QueuedItems[q] EXCEPT !.load = offered + 1]
<1>9. QueuedItems[q] \in Item /\ e \in Item
  <2>1. QueuedItems[q] \in Item
    BY <1>1, <1>4, ElementOfSeq
  <2>2. offered + 1 \in Messages
    BY OfferedIsNew
  <2>3. QED
    BY <2>1, <2>2 DEF Item
<1>10. QueuedItems' = [QueuedItems EXCEPT ![q] = e]
  <2>1. /\ [QueuedItems EXCEPT ![q] = e] \in Seq(Item)
        /\ Len([QueuedItems EXCEPT ![q] = e]) = count
        /\ \A i \in 1..count : [QueuedItems EXCEPT ![q] = e][i] = IF i = q THEN e ELSE QueuedItems[i]
    BY <1>1, <1>4, <1>9, ExceptSeq
  <2>2. QueuedItems'[q] = e
    <3>1. QueuedItems'[q] = [seq  |-> Contents[q], bus |-> busOf[Contents[q]], load |-> offered + 1]
      BY <1>2, <1>3, <1>4, <1>7, <1>8
    <3>2. QueuedItems[q] =
            [seq |-> Contents[q], bus |-> busOf[Contents[q]], load |-> payload[Contents[q]]]
      BY <1>1, <1>4
    <3>3. QED
      BY <3>1, <3>2
  <2>3. ASSUME NEW i \in 1..count, i # q PROVE QueuedItems'[i] = QueuedItems[i]
    BY <1>1, <1>2, <1>3, <1>7, <1>8, <2>3
  <2>4. \A i \in 1..count : QueuedItems'[i] = [QueuedItems EXCEPT ![q] = e][i]
    BY <2>1, <2>2, <2>3
  <2>5. QED
    BY <1>2, <1>3, <2>1, <2>4, SeqEqual
<1>11. q \in DOMAIN QueuedItems
  BY <1>1, <1>4, LenProperties
<1>12. Fifo!Merge(q)
  BY <1>3, <1>10 DEF Fifo!Merge, Fifo!Arrive
<1>13. QED
  BY <1>11, <1>12

\* Turning a message away leaves the FIFO as it is.
LEMMA RefusedIsRefuse ==
  ASSUME IInv, NEW b \in Buses, offered < MaxItems, offered' = offered + 1,
         busOf' = [busOf EXCEPT ![offered + 1] = b], UNCHANGED <<dropPolicy, buffer, taken>>
  PROVE  Fifo!Refuse
<1>1. UNCHANGED <<count, payload>> /\ Contents' = Contents
  BY DEF buffer, Contents
<1>2. \A i \in 1..count : busOf'[Contents[i]] = busOf[Contents[i]]
  BY BusesStay
<1>3. QueuedItems' = QueuedItems
  BY <1>1, <1>2 DEF QueuedItems
<1>4. QED
  BY <1>3 DEF Fifo!Refuse, Fifo!Arrive

\* Every step of the queue is a step of the FIFO or leaves it alone.
LEMMA StepsRefine == IInv /\ IInv' /\ [Next]_vars => [Fifo!Next]_(Fifo!avars)
<1> SUFFICES ASSUME IInv, IInv', [Next]_vars PROVE [Fifo!Next]_(Fifo!avars)
  OBVIOUS
<1>1. CASE count > 0 /\ RemoveHead /\ UNCHANGED <<dropPolicy, stats>>
  BY <1>1, RemovedIsTake DEF Fifo!Next
<1>2. CASE UNCHANGED <<dropPolicy, ring, stats, taken>>
  BY <1>2 DEF Fifo!avars, ring, buffer, stats, QueuedItems, Contents
<1>3. ASSUME NEW b \in Buses, Enqueue(b) PROVE Fifo!Next
  <2>1. /\ offered < MaxItems /\ offered' = offered + 1
        /\ busOf' = [busOf EXCEPT ![offered + 1] = b]
        /\ UNCHANGED <<dropPolicy, taken>>
    BY <1>3 DEF Enqueue
  <2>2. CASE EnqueueClosed \/ EnqueueDropped(b)
    <3>1. UNCHANGED <<dropPolicy, buffer, taken>>
      BY <2>1, <2>2 DEF EnqueueClosed, EnqueueDropped
    <3>2. QED
      BY <2>1, <3>1, RefusedIsRefuse DEF Fifo!Next
  <2>3. CASE EnqueueCoalesced(offered + 1, b)
    BY <2>1, <2>3, CoalescedIsMerge DEF Fifo!Next
  <2>4. CASE EnqueueSuccess(offered + 1, b)
    BY <2>1, <2>4, SuccessIsPut DEF Fifo!Next
  <2>5. QED
    BY <1>3, <2>2, <2>3, <2>4 DEF Enqueue
<1>4. QED
  BY <1>1, <1>2, <1>3, StepCases

\* The ring with its map and its sleeping workers is the FIFO with merging.
THEOREM FifoImplemented == Spec => ImplementsFifo
<1>1. Init => Fifo!Init
  <2>1. ASSUME Init PROVE QueuedItems = <<>>
    BY <2>1 DEF Init, NewBoundedQueue, QueuedItems
  <2>2. QED
    BY <2>1 DEF Init, NewBoundedQueue, Fifo!Init
<1>2. QED
  BY <1>1, StepsRefine, IInvHolds, PTL DEF Spec, ImplementsFifo, Fifo!Spec

-----------------------------------------------------------------------------
\* Induction over the natural numbers, for a set.
LEMMA SetInduction ==
  ASSUME NEW S, 0 \in S, \A n \in Nat : n \in S => n + 1 \in S
  PROVE  Nat \subseteq S
<1> DEFINE T == Nat \ S
<1>1. SUFFICES ASSUME T # {} PROVE FALSE
  OBVIOUS
<1>2. PICK x \in T : \A y \in T : ~(<<y, x>> \in OpToRel(<, Nat))
  BY <1>1, NatLessThanWellFounded, WFMin, Zenon
<1>3. \A y \in T : ~(y < x)
  BY <1>2 DEF OpToRel
<1>4. x - 1 \in Nat /\ x - 1 \notin T
  BY <1>3
<1>. QED BY <1>4

-----------------------------------------------------------------------------
\* Wanted.  g holds what the filter lets through of the first n updates, for every n.
Passes(g, f, s) ==
  g = [n \in 0..Len(s) |-> IF n = 0 THEN <<>>
                           ELSE IF Matches(f, s[n]) THEN Append(g[n - 1], s[n]) ELSE g[n - 1]]

\* It is determined by the updates.
LEMMA PassesAgree ==
  ASSUME NEW f, NEW s \in Seq(Updates), NEW t \in Seq(Updates), NEW g, NEW h,
         Passes(g, f, s), Passes(h, f, t),
         NEW m \in Nat, m <= Len(s), m <= Len(t), \A n \in 1..m : s[n] = t[n]
  PROVE  g[m] = h[m]
<1> DEFINE S == {n \in Nat : n <= m => g[n] = h[n]}
<1>0. Len(s) \in Nat /\ Len(t) \in Nat
  OBVIOUS
<1>1. 0 \in S
  BY <1>0 DEF Passes
<1>2. ASSUME NEW n \in Nat, n \in S PROVE n + 1 \in S
  <2>1. SUFFICES ASSUME n + 1 <= m PROVE g[n + 1] = h[n + 1]
    OBVIOUS
  <2>2. g[n] = h[n] /\ s[n + 1] = t[n + 1] /\ (n + 1) - 1 = n /\ n + 1 # 0
    BY <1>2, <2>1
  <2>3. n + 1 \in 0..Len(s) /\ n + 1 \in 0..Len(t)
    BY <1>0, <2>1
  <2>4. g[n + 1] = IF Matches(f, s[n + 1]) THEN Append(g[n], s[n + 1]) ELSE g[n]
    BY <2>2, <2>3 DEF Passes
  <2>5. h[n + 1] = IF Matches(f, t[n + 1]) THEN Append(h[n], t[n + 1]) ELSE h[n]
    BY <2>2, <2>3 DEF Passes
  <2>. QED BY <2>2, <2>4, <2>5
<1>3. m \in S
  <2>. HIDE DEF S
  <2>. QED BY <1>1, <1>2, SetInduction
<1>. QED BY <1>3

\* It exists, and holds sequences of updates.
LEMMA PassesExists ==
  ASSUME NEW f, NEW s \in Seq(Updates)
  PROVE  \E g \in [0..Len(s) -> Seq(Updates)] : Passes(g, f, s)
<1> DEFINE Step(g, n) == IF n = 0 THEN <<>>
                         ELSE IF Matches(f, s[n]) THEN Append(g[n - 1], s[n]) ELSE g[n - 1]
           Upto(m) == \E g \in [0..m -> Seq(Updates)] : \A n \in 0..m : g[n] = Step(g, n)
           S == {m \in Nat : m <= Len(s) => Upto(m)}
<1>0. Len(s) \in Nat /\ \A n \in 1..Len(s) : s[n] \in Updates
  OBVIOUS
<1>1. 0 \in S
  <2>1. PICK g : g = [n \in 0..0 |-> <<>>]
    OBVIOUS
  <2>2. g \in [0..0 -> Seq(Updates)] /\ \A n \in 0..0 : g[n] = Step(g, n)
    BY <2>1
  <2>3. Upto(0)
    BY <2>2
  <2>. HIDE DEF Upto
  <2>. QED BY <2>3
<1>2. ASSUME NEW m \in Nat, m \in S PROVE m + 1 \in S
  <2>1. SUFFICES ASSUME m + 1 <= Len(s) PROVE Upto(m + 1)
    <3>. HIDE DEF Upto
    <3>. QED OBVIOUS
  <2>0. Upto(m)
    <3>. HIDE DEF Upto
    <3>. QED BY <1>0, <1>2, <2>1
  <2>2. PICK g \in [0..m -> Seq(Updates)] : \A n \in 0..m : g[n] = Step(g, n)
    BY <2>0
  <2>3. PICK x \in Seq(Updates) : x = IF Matches(f, s[m + 1]) THEN Append(g[m], s[m + 1]) ELSE g[m]
    <3>1. g[m] \in Seq(Updates) /\ s[m + 1] \in Updates
      BY <1>0, <2>1
    <3>2. Append(g[m], s[m + 1]) \in Seq(Updates)
      BY <3>1, AppendProperties
    <3>. QED BY <3>1, <3>2
  <2>4. PICK h : h = [n \in 0..(m + 1) |-> IF n = m + 1 THEN x ELSE g[n]]
    OBVIOUS
  <2>5. h \in [0..(m + 1) -> Seq(Updates)]
    BY <2>2, <2>3, <2>4
  <2>6. ASSUME NEW n \in 0..(m + 1) PROVE h[n] = Step(h, n)
    <3>1. CASE n = m + 1
      <4>1. h[n] = x /\ h[n - 1] = g[m] /\ n # 0
        BY <2>4, <3>1
      <4>. QED BY <2>3, <3>1, <4>1
    <3>2. CASE n # m + 1
      <4>1. n \in 0..m /\ h[n] = g[n] /\ (n # 0 => h[n - 1] = g[n - 1])
        BY <2>4, <3>2
      <4>. QED BY <2>2, <4>1
    <3>. QED BY <3>1, <3>2
  <2>. QED BY <2>5, <2>6
<1>3. Len(s) \in S
  <2>. HIDE DEF S
  <2>. QED BY <1>0, <1>1, <1>2, SetInduction
<1>4. PICK g \in [0..Len(s) -> Seq(Updates)] : \A n \in 0..Len(s) : g[n] = Step(g, n)
  <2>1. Upto(Len(s))
    <3>. HIDE DEF Upto
    <3>. QED BY <1>0, <1>3
  <2>. QED BY <2>1
<1>5. Passes(g, f, s)
  BY <1>4 DEF Passes
<1>. QED BY <1>5

\* Wanted is the last value of any such function.
LEMMA WantedIs ==
  ASSUME NEW f, NEW s \in Seq(Updates), NEW g, Passes(g, f, s)
  PROVE  Wanted(f, s) = g[Len(s)]
<1> DEFINE w == CHOOSE h : Passes(h, f, s)
<1>1. Passes(w, f, s)
  OBVIOUS
<1>2. Wanted(f, s) = w[Len(s)]
  BY DEF Wanted, Passes
<1>3. Len(s) \in Nat /\ Len(s) <= Len(s)
  OBVIOUS
<1>. HIDE DEF w
<1>4. w[Len(s)] = g[Len(s)]
  BY <1>1, <1>3, PassesAgree
<1>. QED BY <1>2, <1>4

LEMMA WantedType ==
  ASSUME NEW f, NEW s \in Seq(Updates)
  PROVE  Wanted(f, s) \in Seq(Updates)
<1>1. PICK g \in [0..Len(s) -> Seq(Updates)] : Passes(g, f, s)
  BY PassesExists
<1>2. Wanted(f, s) = g[Len(s)] /\ Len(s) \in 0..Len(s)
  BY <1>1, WantedIs
<1>. QED BY <1>1, <1>2

\* Nothing is wanted of nothing.
LEMMA WantedOfNone ==
  ASSUME NEW f
  PROVE  Wanted(f, <<>>) = <<>>
<1>1. <<>> \in Seq(Updates) /\ Len(<<>>) = 0
  OBVIOUS
<1>2. PICK g : Passes(g, f, <<>>)
  BY <1>1, PassesExists
<1>3. Wanted(f, <<>>) = g[0]
  BY <1>1, <1>2, WantedIs
<1>4. g[0] = <<>>
  BY <1>1, <1>2 DEF Passes
<1>. QED BY <1>3, <1>4

\* One more update is one more wanted, if the filter lets it through.
LEMMA WantedOfMore ==
  ASSUME NEW f, NEW s \in Seq(Updates), NEW u \in Updates
  PROVE  Wanted(f, Append(s, u)) =
           IF Matches(f, u) THEN Append(Wanted(f, s), u) ELSE Wanted(f, s)
<1>1. PICK t : t = Append(s, u)
  OBVIOUS
<1>2. /\ t \in Seq(Updates) /\ Len(s) \in Nat /\ Len(t) = Len(s) + 1 /\ t[Len(s) + 1] = u
      /\ \A n \in 1..Len(s) : s[n] = t[n]
  BY <1>1
<1>3. PICK g : Passes(g, f, s)
  BY PassesExists
<1>4. PICK h : Passes(h, f, t)
  BY <1>2, PassesExists
<1>5. g[Len(s)] = h[Len(s)]
  <2>1. Len(s) <= Len(s) /\ Len(s) <= Len(t)
    BY <1>2
  <2>. QED BY <1>2, <1>3, <1>4, <2>1, PassesAgree
<1>6. h[Len(s) + 1] = IF Matches(f, u) THEN Append(h[Len(s)], u) ELSE h[Len(s)]
  <2>1. Len(s) + 1 \in 0..Len(t) /\ Len(s) + 1 # 0 /\ (Len(s) + 1) - 1 = Len(s)
    BY <1>2
  <2>. QED BY <1>2, <1>4, <2>1 DEF Passes
<1>7. Wanted(f, t) = h[Len(s) + 1]
  BY <1>2, <1>4, WantedIs
<1>8. Wanted(f, s) = g[Len(s)]
  BY <1>3, WantedIs
<1>. QED BY <1>1, <1>5, <1>6, <1>7, <1>8

-----------------------------------------------------------------------------
\* The limiter.  A step that moves neither the counter nor the place of a request in
\* Acquire and Release keeps it.
LEMMA LimiterUntouched ==
  ASSUME LimiterSound, UNCHANGED <<max, active>>,
         \A k \in Requests : req'[k].pc = req[k].pc /\ req'[k].cur = req[k].cur
  PROVE  LimiterSound'
<1>1. Holders' = Holders
  BY DEF Holders
<1>. QED BY <1>1 DEF LimiterSound, LimiterCountsStreams

\* One more admitted request is one more in the counter.
LEMMA AdmittedIsCounted ==
  ASSUME StreamTypeOK, LimiterSound, NEW r \in Requests, req[r].pc \in {"new", "swap"},
         req' = [req EXCEPT ![r].pc = "admitted"], max' = max, active' = active + 1,
         max > 0 => active < max
  PROVE  LimiterSound'
<1>0. req \in [Requests -> RequestRecord] /\ req[r] \in RequestRecord /\ max \in Int /\ active \in Int
  BY StreamAssumption DEF StreamTypeOK
<1>1. /\ req'[r].pc = "admitted"
      /\ \A k \in Requests : k # r => req'[k] = req[k]
  BY <1>0 DEF RequestRecord
<1>2. r \notin Holders /\ Holders' = Holders \cup {r}
  BY <1>1 DEF Holders
<1>3. IsFiniteSet(Holders') /\ Cardinality(Holders') = Cardinality(Holders) + 1
  BY <1>2, FS_AddElement DEF LimiterSound
<1>4. active' = Cardinality(Holders') /\ (max' > 0 => active' <= max')
  BY <1>0, <1>3 DEF LimiterSound, LimiterCountsStreams
<1>5. \A k \in Requests : req'[k].pc = "swap" => req'[k].cur < max'
  BY <1>1 DEF LimiterSound
<1>. QED BY <1>3, <1>4, <1>5 DEF LimiterSound, LimiterCountsStreams

\* Type and streams, when one request changes to q.
LEMMA OtherStreamsStay ==
  ASSUME StreamTypeOK, \A k \in Requests : StreamSound(req[k]), NEW r \in Requests,
         NEW q \in RequestRecord, StreamSound(q),
         req' = [req EXCEPT ![r] = q], max' = max, active' \in Int
  PROVE  StreamTypeOK' /\ \A k \in Requests : StreamSound(req[k])'
<1>1. StreamTypeOK'
  BY DEF StreamTypeOK
<1>2. ASSUME NEW k \in Requests PROVE StreamSound(req'[k])
  <2>1. CASE k = r
    <3>1. req'[k] = q
      BY <2>1 DEF StreamTypeOK
    <3>. QED BY <3>1
  <2>2. CASE k # r
    <3>1. req'[k] = req[k]
      BY <2>2 DEF StreamTypeOK
    <3>. QED BY <3>1
  <2>. QED BY <2>1, <2>2
<1>3. ASSUME NEW k \in Requests PROVE StreamSound(req[k])'
  BY <1>2 DEF StreamSound, Shown
<1>. QED BY <1>1, <1>3

\* A request before its stream: nothing but its place in Acquire changes.
LEMMA AcquiringKeeps ==
  ASSUME StreamInv, NEW r \in Requests, req[r].pc \in {"new", "swap"},
         NEW p \in {"new", "swap", "refused", "admitted"}, NEW c \in Int,
         req' = [req EXCEPT ![r] = [req[r] EXCEPT !.pc = p, !.cur = c]],
         max' = max, active' \in Int
  PROVE  StreamTypeOK' /\ \A k \in Requests : StreamSound(req[k])'
<1> DEFINE q == [req[r] EXCEPT !.pc = p, !.cur = c]
<1>0. req[r] \in RequestRecord /\ StreamSound(req[r])
  BY DEF StreamInv, StreamTypeOK
<1>1. q \in RequestRecord
  BY <1>0 DEF RequestRecord
<1>2. /\ q.loop = req[r].loop /\ q.in = req[r].in /\ q.upd = req[r].upd /\ q.out = req[r].out
      /\ q.taken = req[r].taken /\ q.got = req[r].got /\ q.cancelled = req[r].cancelled
      /\ q.filter = req[r].filter /\ q.pc = p
  BY <1>0 DEF RequestRecord
<1>. HIDE DEF q
<1>3. StreamSound(q)
  BY <1>0, <1>2 DEF StreamSound, Shown
<1>. QED BY <1>1, <1>3, OtherStreamsStay DEF StreamInv, q

LEMMA AcquireLoadKeeps ==
  ASSUME StreamInv, NEW r \in Requests, AcquireLoad(r)
  PROVE  StreamInv'
<1>0. /\ req \in [Requests -> RequestRecord] /\ req[r] \in RequestRecord
      /\ max \in Int /\ active \in Int /\ req[r].cur \in Int /\ req[r].pc = "new"
  BY StreamAssumption DEF StreamInv, StreamTypeOK, AcquireLoad, RequestRecord
<1>1. CASE max <= 0
  <2>1. req' = [req EXCEPT ![r].pc = "admitted"] /\ active' = active + 1 /\ max' = max
    BY <1>1 DEF AcquireLoad
  <2>2. req' = [req EXCEPT ![r] = [req[r] EXCEPT !.pc = "admitted", !.cur = req[r].cur]]
    BY <1>0, <2>1 DEF RequestRecord
  <2>3. active' \in Int /\ (max > 0 => active < max) /\ req[r].pc \in {"new", "swap"}
    BY <1>0, <1>1, <2>1
  <2>4. StreamTypeOK' /\ \A k \in Requests : StreamSound(req[k])'
    BY <1>0, <2>1, <2>2, <2>3, AcquiringKeeps
  <2>5. LimiterSound'
    BY <2>1, <2>3, AdmittedIsCounted DEF StreamInv
  <2>. QED BY <2>4, <2>5 DEF StreamInv
<1>2. CASE max > 0
  <2>0. PICK p : p = IF active >= max THEN "refused" ELSE "swap"
    OBVIOUS
  <2>1. /\ p \in {"new", "swap", "refused", "admitted"}
        /\ p = "swap" => active < max
        /\ p # "admitted"
        /\ req' = [req EXCEPT ![r] = [req[r] EXCEPT !.pc = p, !.cur = active]]
        /\ UNCHANGED <<active, max>>
    <3>1. /\ req' = [req EXCEPT ![r].pc = p, ![r].cur = active]
          /\ UNCHANGED <<active, max>>
      BY <1>0, <1>2, <2>0 DEF AcquireLoad
    <3>2. req' = [req EXCEPT ![r] = [req[r] EXCEPT !.pc = p, !.cur = active]]
      BY <1>0, <3>1 DEF RequestRecord
    <3>3. p \in {"swap", "refused"}
      BY <2>0
    <3>4. p = "swap" => active < max
      BY <1>0, <2>0
    <3>. QED BY <3>1, <3>2, <3>3, <3>4
  <2>2. StreamTypeOK' /\ \A k \in Requests : StreamSound(req[k])'
    BY <1>0, <2>1, AcquiringKeeps
  <2>3. /\ req'[r].pc = p /\ req'[r].cur = active
        /\ \A k \in Requests : k # r => req'[k] = req[k]
    BY <1>0, <2>1 DEF RequestRecord
  <2>4. Holders' = Holders
    BY <1>0, <2>1, <2>3 DEF Holders
  <2>5. \A k \in Requests : req'[k].pc = "swap" => req'[k].cur < max'
    BY <1>0, <2>1, <2>3 DEF StreamInv, LimiterSound
  <2>6. LimiterSound'
    BY <2>1, <2>4, <2>5 DEF StreamInv, LimiterSound, LimiterCountsStreams
  <2>. QED BY <2>2, <2>6 DEF StreamInv
<1>. QED BY <1>0, <1>1, <1>2

LEMMA AcquireSwapKeeps ==
  ASSUME StreamInv, NEW r \in Requests, AcquireSwap(r)
  PROVE  StreamInv'
<1>0. /\ req \in [Requests -> RequestRecord] /\ req[r] \in RequestRecord
      /\ max \in Int /\ active \in Int /\ req[r].cur \in Int /\ req[r].pc = "swap" /\ max' = max
  BY StreamAssumption DEF StreamInv, StreamTypeOK, AcquireSwap, RequestRecord
<1>1. CASE active = req[r].cur
  <2>1. req' = [req EXCEPT ![r].pc = "admitted"] /\ active' = active + 1
    BY <1>1 DEF AcquireSwap
  <2>2. req' = [req EXCEPT ![r] = [req[r] EXCEPT !.pc = "admitted", !.cur = req[r].cur]]
    BY <1>0, <2>1 DEF RequestRecord
  <2>3. StreamTypeOK' /\ \A k \in Requests : StreamSound(req[k])'
    <3>1. active' \in Int
      BY <1>0, <2>1
    <3>. QED BY <1>0, <2>1, <2>2, <3>1, AcquiringKeeps
  <2>4. active < max
    BY <1>0, <1>1 DEF StreamInv, LimiterSound
  <2>5. LimiterSound'
    BY <1>0, <2>1, <2>4, AdmittedIsCounted DEF StreamInv
  <2>. QED BY <2>3, <2>5 DEF StreamInv
<1>2. CASE active # req[r].cur
  <2>1. req' = [req EXCEPT ![r].pc = "new"] /\ active' = active
    BY <1>2 DEF AcquireSwap
  <2>2. req' = [req EXCEPT ![r] = [req[r] EXCEPT !.pc = "new", !.cur = req[r].cur]]
    BY <1>0, <2>1 DEF RequestRecord
  <2>3. StreamTypeOK' /\ \A k \in Requests : StreamSound(req[k])'
    BY <1>0, <2>1, <2>2, AcquiringKeeps
  <2>4. req'[r].pc = "new" /\ \A k \in Requests : k # r => req'[k] = req[k]
    BY <1>0, <2>1 DEF RequestRecord
  <2>5. Holders' = Holders
    BY <1>0, <2>4 DEF Holders
  <2>6. LimiterSound'
    BY <1>0, <2>1, <2>4, <2>5 DEF StreamInv, LimiterSound, LimiterCountsStreams
  <2>. QED BY <2>3, <2>6 DEF StreamInv
<1>. QED BY <1>1, <1>2

LEMMA ReleaseKeeps ==
  ASSUME StreamInv, NEW r \in Requests, Release(r)
  PROVE  StreamInv'
<1> DEFINE q == [req[r] EXCEPT !.pc = "ended", !.cancelled = TRUE]
<1>0. /\ req \in [Requests -> RequestRecord] /\ req[r] \in RequestRecord /\ StreamSound(req[r])
      /\ active \in Int /\ req[r].pc = "open" /\ max' = max /\ active' = active - 1
  BY DEF StreamInv, StreamTypeOK, Release
<1>1. req' = [req EXCEPT ![r] = q]
  BY <1>0 DEF Release, RequestRecord
<1>2. q \in RequestRecord
  BY <1>0 DEF RequestRecord
<1>3. /\ q.loop = req[r].loop /\ q.in = req[r].in /\ q.upd = req[r].upd /\ q.out = req[r].out
      /\ q.taken = req[r].taken /\ q.got = req[r].got /\ q.cancelled
      /\ q.filter = req[r].filter /\ q.pc = "ended"
  BY <1>0 DEF RequestRecord
<1>. HIDE DEF q
<1>4. StreamSound(q)
  BY <1>0, <1>3 DEF StreamSound, Shown
<1>5. StreamTypeOK' /\ \A k \in Requests : StreamSound(req[k])'
  <2>1. active' \in Int
    BY <1>0
  <2>. QED BY <1>0, <1>1, <1>2, <1>4, <2>1, OtherStreamsStay DEF StreamInv
<1>6. req'[r] = q /\ \A k \in Requests : k # r => req'[k] = req[k]
  BY <1>0, <1>1
<1>7. r \in Holders /\ Holders' = Holders \ {r}
  BY <1>0, <1>3, <1>6 DEF Holders
<1>8. IsFiniteSet(Holders') /\ Cardinality(Holders') = Cardinality(Holders) - 1
  BY <1>7, FS_RemoveElement DEF StreamInv, LimiterSound
<1>9. max \in Int
  BY StreamAssumption DEF StreamInv, StreamTypeOK
<1>10. active' = Cardinality(Holders') /\ (max' > 0 => active' <= max')
  BY <1>0, <1>8, <1>9 DEF StreamInv, LimiterSound, LimiterCountsStreams
<1>11. \A k \in Requests : req'[k].pc = "swap" => req'[k].cur < max'
  BY <1>0, <1>3, <1>6 DEF StreamInv, LimiterSound
<1>12. LimiterSound'
  BY <1>8, <1>10, <1>11 DEF LimiterSound, LimiterCountsStreams
<1>. QED BY <1>5, <1>12 DEF StreamInv

-----------------------------------------------------------------------------
\* The streams.  What one step of a running stream changes of its request, and that the
\* limiter and the other requests do not notice.
LEMMA StreamStepKeeps ==
  ASSUME StreamInv, NEW r \in Requests, NEW q \in RequestRecord, StreamSound(q),
         q.pc = req[r].pc \/ (req[r].pc = "admitted" /\ q.pc = "open"), q.cur = req[r].cur,
         req' = [req EXCEPT ![r] = q], UNCHANGED <<max, active>>
  PROVE  StreamInv'
<1>0. req \in [Requests -> RequestRecord] /\ active' \in Int
  BY DEF StreamInv, StreamTypeOK
<1>1. StreamTypeOK' /\ \A k \in Requests : StreamSound(req[k])'
  BY <1>0, OtherStreamsStay DEF StreamInv
<1>2. req'[r] = q /\ \A k \in Requests : k # r => req'[k] = req[k]
  BY <1>0
<1>3. Holders' = Holders
  BY <1>2 DEF Holders
<1>4. \A k \in Requests : req'[k].pc = "swap" => req'[k].cur < max'
  BY <1>2 DEF StreamInv, LimiterSound
<1>5. LimiterSound'
  BY <1>3, <1>4 DEF StreamInv, LimiterSound, LimiterCountsStreams
<1>. QED BY <1>1, <1>5 DEF StreamInv

LEMMA Assoc ==
  ASSUME NEW a \in Seq(Updates), NEW b \in Seq(Updates), NEW c \in Seq(Updates)
  PROVE  (a \o b) \o c = a \o (b \o c)
OBVIOUS

\* When nothing is about to be sent, what is shown is what has reached the channel.
LEMMA ShownHasArrived ==
  ASSUME NEW q \in RequestRecord, q.upd = <<>>
  PROVE  Shown(q) = q.got \o q.out
<1>1. q.got \in Seq(Updates) /\ q.out \in Seq(Updates)
  BY DEF RequestRecord
<1>2. q.got \o q.out \in Seq(Updates)
  BY <1>1, ConcatProperties
<1>. QED BY <1>2, ConcatEmptySeq DEF Shown

\* All that was shown is the wanted part of all that was taken.
LEMMA AllIsPrefix ==
  ASSUME NEW q \in RequestRecord, NEW x, x = Wanted(q.filter, q.taken)
  PROVE  \E n \in 0..Len(q.taken) : x = Wanted(q.filter, SubSeq(q.taken, 1, n))
<1>1. q.taken \in Seq(Updates) /\ Len(q.taken) \in 0..Len(q.taken)
  BY DEF RequestRecord
<1>2. SubSeq(q.taken, 1, Len(q.taken)) = q.taken
  BY <1>1, SubSeqFull
<1>. QED BY <1>1, <1>2

LEMMA StreamKeeps ==
  ASSUME StreamInv, NEW r \in Requests, Stream(r)
  PROVE  StreamInv'
<1>0. /\ req \in [Requests -> RequestRecord] /\ req[r] \in RequestRecord /\ StreamSound(req[r])
      /\ req[r].pc = "admitted" /\ UNCHANGED <<max, active>>
  BY DEF StreamInv, StreamTypeOK, Stream
<1>1. PICK asked \in Asked :
        req' = [req EXCEPT ![r].pc = "open", ![r].filter = Filter(asked), ![r].loop = "select"]
  BY DEF Stream
<1> DEFINE q == [req[r] EXCEPT !.pc = "open", !.filter = Filter(asked), !.loop = "select"]
<1>2. req' = [req EXCEPT ![r] = q]
  BY <1>0, <1>1 DEF RequestRecord
<1>3. Filter(asked) \in Filters
  BY DEF Filters
<1>4. q \in RequestRecord
  BY <1>0, <1>3 DEF RequestRecord
<1>5. /\ q.in = <<>> /\ q.upd = <<>> /\ q.out = <<>> /\ q.taken = <<>> /\ q.got = <<>>
      /\ q.loop = "select" /\ q.pc = "open" /\ q.cur = req[r].cur /\ q.filter = Filter(asked)
  BY <1>0 DEF RequestRecord, StreamSound
<1>. HIDE DEF q
<1>6. Shown(q) = Wanted(q.filter, q.taken)
  <2>1. Shown(q) = <<>>
    BY <1>5 DEF Shown
  <2>. QED BY <1>5, <2>1, WantedOfNone
<1>7. Len(q.out) <= OutBuffer /\ Len(q.upd) <= 1
  BY <1>5, StreamAssumption
<1>8. StreamSound(q)
  BY <1>4, <1>5, <1>6, <1>7, AllIsPrefix, ShownHasArrived DEF StreamSound
<1>. QED BY <1>0, <1>2, <1>4, <1>5, <1>8, StreamStepKeeps

\* The source and the client act on a stream without touching what is shown.
LEMMA EnvironmentKeeps ==
  ASSUME StreamInv, NEW r \in Requests, req[r].pc = "open", NEW q \in RequestRecord,
         req' = [req EXCEPT ![r] = q], UNCHANGED <<max, active>>,
         q.pc = req[r].pc, q.cur = req[r].cur, q.filter = req[r].filter, q.loop = req[r].loop,
         q.upd = req[r].upd, q.out = req[r].out, q.taken = req[r].taken, q.got = req[r].got,
         req[r].cancelled => q.cancelled
  PROVE  StreamInv'
<1>1. StreamSound(req[r])
  BY DEF StreamInv
<1>2. Shown(q) = Shown(req[r])
  BY DEF Shown
<1>3. StreamSound(q)
  BY <1>1, <1>2 DEF StreamSound
<1>. QED BY <1>3, StreamStepKeeps

LEMMA SourceSendsKeeps ==
  ASSUME StreamInv, NEW r \in Requests, NEW upd \in Updates, SourceSends(r, upd)
  PROVE  StreamInv'
<1>0. /\ req \in [Requests -> RequestRecord] /\ req[r] \in RequestRecord
      /\ req[r].pc = "open" /\ UNCHANGED <<max, active>>
  BY DEF StreamInv, StreamTypeOK, SourceSends
<1>2. PICK in \in Seq(Updates), sent \in Nat : in = <<upd>> /\ sent = req[r].sent + 1
  <2>1. <<upd>> \in Seq(Updates)
    OBVIOUS
  <2>2. req[r].sent + 1 \in Nat
    BY <1>0 DEF RequestRecord
  <2>. QED BY <2>1, <2>2
<1> DEFINE q == [req[r] EXCEPT !.in = in, !.sent = sent]
<1>1. req' = [req EXCEPT ![r] = q]
  BY <1>0, <1>2 DEF SourceSends, RequestRecord
<1>3. q \in RequestRecord
  BY <1>0, <1>2 DEF RequestRecord
<1>4. /\ q.pc = req[r].pc /\ q.cur = req[r].cur /\ q.filter = req[r].filter /\ q.loop = req[r].loop
      /\ q.upd = req[r].upd /\ q.out = req[r].out /\ q.taken = req[r].taken /\ q.got = req[r].got
      /\ q.cancelled = req[r].cancelled
  BY <1>0 DEF RequestRecord
<1>. HIDE DEF q
<1>. QED BY <1>0, <1>1, <1>3, <1>4, EnvironmentKeeps

LEMMA SourceClosesKeeps ==
  ASSUME StreamInv, NEW r \in Requests, SourceCloses(r)
  PROVE  StreamInv'
<1> DEFINE q == [req[r] EXCEPT !.inClosed = TRUE]
<1>0. /\ req \in [Requests -> RequestRecord] /\ req[r] \in RequestRecord
      /\ req[r].pc = "open" /\ UNCHANGED <<max, active>>
  BY DEF StreamInv, StreamTypeOK, SourceCloses
<1>1. req' = [req EXCEPT ![r] = q]
  BY <1>0 DEF SourceCloses, RequestRecord
<1>2. q \in RequestRecord
  BY <1>0 DEF RequestRecord
<1>3. /\ q.pc = req[r].pc /\ q.cur = req[r].cur /\ q.filter = req[r].filter /\ q.loop = req[r].loop
      /\ q.upd = req[r].upd /\ q.out = req[r].out /\ q.taken = req[r].taken /\ q.got = req[r].got
      /\ q.cancelled = req[r].cancelled
  BY <1>0 DEF RequestRecord
<1>. HIDE DEF q
<1>. QED BY <1>0, <1>1, <1>2, <1>3, EnvironmentKeeps

LEMMA DisconnectKeeps ==
  ASSUME StreamInv, NEW r \in Requests, Disconnect(r)
  PROVE  StreamInv'
<1> DEFINE q == [req[r] EXCEPT !.cancelled = TRUE]
<1>0. /\ req \in [Requests -> RequestRecord] /\ req[r] \in RequestRecord
      /\ req[r].pc = "open" /\ UNCHANGED <<max, active>>
  BY DEF StreamInv, StreamTypeOK, Disconnect
<1>1. req' = [req EXCEPT ![r] = q]
  BY <1>0 DEF Disconnect, RequestRecord
<1>2. q \in RequestRecord
  BY <1>0 DEF RequestRecord
<1>3. /\ q.pc = req[r].pc /\ q.cur = req[r].cur /\ q.filter = req[r].filter /\ q.loop = req[r].loop
      /\ q.upd = req[r].upd /\ q.out = req[r].out /\ q.taken = req[r].taken /\ q.got = req[r].got
      /\ q.cancelled
  BY <1>0 DEF RequestRecord
<1>. HIDE DEF q
<1>. QED BY <1>0, <1>1, <1>2, <1>3, EnvironmentKeeps

\* The goroutine ends; an update it was about to send is dropped.
LEMMA LoopEndsKeeps ==
  ASSUME StreamInv, NEW r \in Requests, LoopDone(r) \/ LoopSourceClosed(r)
  PROVE  StreamInv'
<1> DEFINE q == [req[r] EXCEPT !.loop = "closed", !.upd = <<>>]
<1>0. /\ req \in [Requests -> RequestRecord] /\ req[r] \in RequestRecord /\ StreamSound(req[r])
      /\ req[r].loop \in {"select", "send"} /\ UNCHANGED <<max, active>>
      /\ req[r].loop = "send" => req[r].cancelled
  BY DEF StreamInv, StreamTypeOK, LoopDone, LoopSourceClosed
<1>1. req' = [req EXCEPT ![r] = q]
  <2>1. CASE LoopDone(r)
    BY <1>0, <2>1 DEF LoopDone, RequestRecord
  <2>2. CASE LoopSourceClosed(r)
    <3>1. req[r].upd = <<>>
      BY <1>0, <2>2 DEF LoopSourceClosed, StreamSound
    <3>2. q = [req[r] EXCEPT !.loop = "closed"]
      BY <1>0, <3>1 DEF RequestRecord
    <3>3. req' = [req EXCEPT ![r] = [req[r] EXCEPT !.loop = "closed"]]
      BY <1>0, <2>2 DEF LoopSourceClosed, RequestRecord
    <3>. QED BY <3>2, <3>3
  <2>. QED BY <2>1, <2>2
<1>2. <<>> \in Seq(Updates)
  OBVIOUS
<1>3. q \in RequestRecord
  BY <1>0, <1>2 DEF RequestRecord
<1>4. /\ q.pc = req[r].pc /\ q.cur = req[r].cur /\ q.filter = req[r].filter /\ q.loop = "closed"
      /\ q.upd = <<>> /\ q.out = req[r].out /\ q.taken = req[r].taken /\ q.got = req[r].got
      /\ q.cancelled = req[r].cancelled
  BY <1>0 DEF RequestRecord
<1>. HIDE DEF q
<1>5. Shown(req[r]) = Wanted(req[r].filter, req[r].taken)
  BY <1>0 DEF StreamSound
<1>6. /\ req[r].pc \in {"open", "ended"} /\ Len(q.out) <= OutBuffer
      /\ \E n \in 0..Len(q.taken) : q.got \o q.out = Wanted(q.filter, SubSeq(q.taken, 1, n))
  BY <1>0, <1>4 DEF StreamSound
<1>7. Len(q.upd) <= 1
  BY <1>4
<1>8. ~q.cancelled => Shown(q) = Wanted(q.filter, q.taken)
  <2>1. ~q.cancelled => Shown(q) = Shown(req[r])
    BY <1>0, <1>4 DEF Shown, StreamSound
  <2>. QED BY <1>4, <1>5, <2>1
<1>9. StreamSound(q)
  BY <1>4, <1>6, <1>7, <1>8 DEF StreamSound
<1>. QED BY <1>0, <1>1, <1>3, <1>4, <1>9, StreamStepKeeps

\* The goroutine takes an update.
LEMMA LoopReceiveKeeps ==
  ASSUME StreamInv, NEW r \in Requests, LoopReceive(r)
  PROVE  StreamInv'
<1>0. /\ req \in [Requests -> RequestRecord] /\ req[r] \in RequestRecord /\ StreamSound(req[r])
      /\ req[r].loop = "select" /\ req[r].in # <<>> /\ UNCHANGED <<max, active>>
  BY DEF StreamInv, StreamTypeOK, LoopReceive
<1>1. /\ req[r].in \in Seq(Updates) /\ req[r].taken \in Seq(Updates)
      /\ req[r].got \in Seq(Updates) /\ req[r].out \in Seq(Updates)
  BY <1>0 DEF RequestRecord
<1>2. PICK u \in Updates, in \in Seq(Updates) : u = Head(req[r].in) /\ in = Tail(req[r].in)
  BY <1>0, <1>1, HeadTailProperties
<1>3. PICK seen \in Seq(Updates) : seen = Append(req[r].taken, u)
  BY <1>1, AppendProperties
<1>4. PICK matches : matches = Matches(req[r].filter, u)
  OBVIOUS
<1>5. PICK loop \in {"select", "send"}, upd \in Seq(Updates) :
        /\ IF matches THEN loop = "send" /\ upd = <<u>> ELSE loop = "select" /\ upd = <<>>
        /\ Len(upd) <= 1
  <2>1. <<u>> \in Seq(Updates) /\ <<>> \in Seq(Updates) /\ Len(<<u>>) <= 1 /\ Len(<<>>) <= 1
    OBVIOUS
  <2>. QED BY <2>1
<1> DEFINE q == [req[r] EXCEPT !.in = in, !.taken = seen, !.loop = loop, !.upd = upd]
<1>6. req' = [req EXCEPT ![r] = q]
  BY <1>0, <1>2, <1>3, <1>4, <1>5 DEF LoopReceive, RequestRecord
<1>7. q \in RequestRecord
  BY <1>0 DEF RequestRecord
<1>8. /\ q.pc = req[r].pc /\ q.cur = req[r].cur /\ q.filter = req[r].filter /\ q.loop = loop
      /\ q.upd = upd /\ q.out = req[r].out /\ q.taken = seen /\ q.got = req[r].got
      /\ q.cancelled = req[r].cancelled
  BY <1>0 DEF RequestRecord
<1>. HIDE DEF q
<1>9. req[r].upd = <<>> /\ Shown(req[r]) = Wanted(req[r].filter, req[r].taken)
  BY <1>0 DEF StreamSound
<1>10. PICK shown \in Seq(Updates) : shown = req[r].got \o req[r].out
  BY <1>1, ConcatProperties
<1>11. shown = Wanted(q.filter, req[r].taken)
  BY <1>8, <1>9, <1>10, ConcatEmptySeq DEF Shown
<1>12. Shown(q) = Wanted(q.filter, q.taken)
  <2>0. Wanted(q.filter, seen) = IF matches THEN Append(shown, u) ELSE shown
    <3>1. Wanted(req[r].filter, Append(req[r].taken, u)) =
            IF Matches(req[r].filter, u) THEN Append(Wanted(req[r].filter, req[r].taken), u)
            ELSE Wanted(req[r].filter, req[r].taken)
      BY <1>1, WantedOfMore, Zenon
    <3>. QED BY <1>3, <1>4, <1>8, <1>11, <3>1
  <2>1. CASE matches
    <3>1. Shown(q) = shown \o <<u>>
      BY <1>5, <1>8, <1>10, <2>1 DEF Shown
    <3>2. Wanted(q.filter, seen) = Append(shown, u)
      BY <2>0, <2>1
    <3>. QED BY <1>8, <1>10, <3>1, <3>2, AppendIsConcat
  <2>2. CASE ~matches
    <3>1. Shown(q) = shown
      BY <1>5, <1>8, <1>10, <2>2, ConcatEmptySeq DEF Shown
    <3>2. Wanted(q.filter, seen) = shown
      BY <2>0, <2>2
    <3>. QED BY <1>8, <3>1, <3>2
  <2>. QED BY <2>1, <2>2
<1>13. /\ req[r].pc \in {"open", "ended"} /\ Len(q.out) <= OutBuffer
       /\ q.loop # "send" => q.upd = <<>>
  BY <1>0, <1>5, <1>8 DEF StreamSound
<1>14. \E n \in 0..Len(q.taken) : q.got \o q.out = Wanted(q.filter, SubSeq(q.taken, 1, n))
  <2>1. SubSeq(seen, 1, Len(req[r].taken)) = req[r].taken /\ Len(req[r].taken) \in 0..Len(seen)
    BY <1>1, <1>3
  <2>. QED BY <1>8, <1>10, <1>11, <2>1
<1>15. StreamSound(q)
  BY <1>5, <1>8, <1>12, <1>13, <1>14 DEF StreamSound
<1>. QED BY <1>0, <1>6, <1>7, <1>8, <1>15, StreamStepKeeps

\* The goroutine puts its update into the channel.
LEMMA LoopSendKeeps ==
  ASSUME StreamInv, NEW r \in Requests, LoopSend(r)
  PROVE  StreamInv'
<1>0. /\ req \in [Requests -> RequestRecord] /\ req[r] \in RequestRecord /\ StreamSound(req[r])
      /\ req[r].loop = "send" /\ Len(req[r].out) < OutBuffer /\ UNCHANGED <<max, active>>
  BY DEF StreamInv, StreamTypeOK, LoopSend
<1>1. /\ req[r].upd \in Seq(Updates) /\ req[r].got \in Seq(Updates) /\ req[r].out \in Seq(Updates)
  BY <1>0 DEF RequestRecord
<1>2. PICK out \in Seq(Updates) : out = req[r].out \o req[r].upd
  BY <1>1, ConcatProperties
<1> DEFINE q == [req[r] EXCEPT !.out = out, !.upd = <<>>, !.loop = "select"]
<1>3. req' = [req EXCEPT ![r] = q]
  BY <1>0, <1>2 DEF LoopSend, RequestRecord
<1>4. q \in RequestRecord
  <2>1. <<>> \in Seq(Updates)
    OBVIOUS
  <2>. QED BY <1>0, <2>1 DEF RequestRecord
<1>5. /\ q.pc = req[r].pc /\ q.cur = req[r].cur /\ q.filter = req[r].filter /\ q.loop = "select"
      /\ q.upd = <<>> /\ q.out = out /\ q.taken = req[r].taken /\ q.got = req[r].got
      /\ q.cancelled = req[r].cancelled
  BY <1>0 DEF RequestRecord
<1>. HIDE DEF q
<1>6. Shown(q) = Shown(req[r])
  <2>1. Shown(q) = (req[r].got \o out) \o <<>>
    BY <1>5 DEF Shown
  <2>2. (req[r].got \o out) \o <<>> = req[r].got \o out
    BY <1>1, ConcatProperties, ConcatEmptySeq
  <2>3. req[r].got \o (req[r].out \o req[r].upd) = (req[r].got \o req[r].out) \o req[r].upd
    BY <1>1, Assoc
  <2>. QED BY <1>2, <2>1, <2>2, <2>3 DEF Shown
<1>7. Shown(q) = Wanted(q.filter, q.taken)
  BY <1>0, <1>5, <1>6 DEF StreamSound
<1>8. Len(q.out) <= OutBuffer /\ req[r].pc \in {"open", "ended"}
  <2>1. Len(req[r].upd) <= 1
    BY <1>0 DEF StreamSound
  <2>2. PICK a \in Nat, b \in Nat : a = Len(req[r].out) /\ b = Len(req[r].upd)
    BY <1>1, LenProperties
  <2>3. Len(out) <= OutBuffer
    <3>1. Len(out) = a + b
      BY <1>1, <1>2, <2>2, ConcatProperties
    <3>2. OutBuffer \in Nat
      BY StreamAssumption
    <3>3. a < OutBuffer /\ b <= 1
      BY <1>0, <2>1, <2>2
    <3>. QED BY <3>1, <3>2, <3>3
  <2>4. req[r].pc \in {"open", "ended"}
    BY <1>0 DEF StreamSound
  <2>. QED BY <1>5, <2>3, <2>4
<1>9. \E n \in 0..Len(q.taken) : q.got \o q.out = Wanted(q.filter, SubSeq(q.taken, 1, n))
  BY <1>4, <1>5, <1>7, ShownHasArrived, AllIsPrefix
<1>10. StreamSound(q)
  <2>1. Len(<<>>) = 0
    OBVIOUS
  <2>. QED BY <1>5, <1>7, <1>8, <1>9, <2>1 DEF StreamSound
<1>. QED BY <1>0, <1>3, <1>4, <1>5, <1>10, StreamStepKeeps

\* The handler moves an update from the channel to the client.
LEMMA HandlerWritesKeeps ==
  ASSUME StreamInv, NEW r \in Requests, HandlerWrites(r)
  PROVE  StreamInv'
<1>0. /\ req \in [Requests -> RequestRecord] /\ req[r] \in RequestRecord /\ StreamSound(req[r])
      /\ req[r].pc = "open" /\ req[r].out # <<>> /\ UNCHANGED <<max, active>>
  BY DEF StreamInv, StreamTypeOK, HandlerWrites
<1>1. req[r].got \in Seq(Updates) /\ req[r].out \in Seq(Updates)
  BY <1>0 DEF RequestRecord
<1>2. PICK u \in Updates, out \in Seq(Updates) :
        u = Head(req[r].out) /\ out = Tail(req[r].out) /\ Len(out) = Len(req[r].out) - 1
  BY <1>0, <1>1, HeadTailProperties
<1>3. PICK got \in Seq(Updates) : got = Append(req[r].got, u)
  BY <1>1, AppendProperties
<1> DEFINE q == [req[r] EXCEPT !.out = out, !.got = got]
<1>4. req' = [req EXCEPT ![r] = q]
  BY <1>0, <1>2, <1>3 DEF HandlerWrites, RequestRecord
<1>5. q \in RequestRecord
  BY <1>0 DEF RequestRecord
<1>6. /\ q.pc = req[r].pc /\ q.cur = req[r].cur /\ q.filter = req[r].filter /\ q.loop = req[r].loop
      /\ q.upd = req[r].upd /\ q.out = out /\ q.taken = req[r].taken /\ q.got = got
      /\ q.cancelled = req[r].cancelled
  BY <1>0 DEF RequestRecord
<1>. HIDE DEF q
<1>7. Shown(q) = Shown(req[r]) /\ q.got \o q.out = req[r].got \o req[r].out
  <2>1. got \o out = req[r].got \o req[r].out
    <3>1. req[r].out = <<u>> \o out
      BY <1>0, <1>1, <1>2, ConcatProperties, HeadTailProperties
    <3>2. got = req[r].got \o <<u>>
      BY <1>1, <1>3, AppendIsConcat
    <3>3. (req[r].got \o <<u>>) \o out = req[r].got \o (<<u>> \o out)
      <4>1. <<u>> \in Seq(Updates)
        OBVIOUS
      <4>2. PICK g \in Seq(Updates), w \in Seq(Updates) : g = req[r].got /\ w = <<u>>
        BY <1>1, <4>1, Zenon
      <4>3. (g \o w) \o out = g \o (w \o out)
        BY Assoc
      <4>. QED BY <4>2, <4>3
    <3>. QED BY <3>1, <3>2, <3>3
  <2>. QED BY <1>6, <2>1 DEF Shown
<1>8. Len(q.out) <= OutBuffer
  BY <1>0, <1>1, <1>2, <1>6, StreamAssumption DEF StreamSound
<1>9. StreamSound(q)
  BY <1>0, <1>6, <1>7, <1>8 DEF StreamSound
<1>. QED BY <1>0, <1>4, <1>5, <1>6, <1>9, StreamStepKeeps

-----------------------------------------------------------------------------
\* The inductive invariant holds in every reachable state.
THEOREM StreamInvHolds == StreamSpec => []StreamInv
<1>1. ASSUME StreamInit PROVE StreamInv
  <2>1. Idle \in RequestRecord
    <3>1. Idle.filter \in Filters
      BY DEF Filters
    <3>. QED BY <3>1 DEF Idle, RequestRecord
  <2>2. StreamSound(Idle)
    <3>1. /\ Idle.in = <<>> /\ Idle.upd = <<>> /\ Idle.out = <<>> /\ Idle.taken = <<>> /\ Idle.got = <<>>
          /\ Idle.loop = "none" /\ Idle.pc = "new"
      BY DEF Idle
    <3>2. Shown(Idle) = Wanted(Idle.filter, Idle.taken)
      <4>1. Shown(Idle) = <<>>
        BY <3>1 DEF Shown
      <4>. QED BY <3>1, <4>1, WantedOfNone
    <3>3. Len(<<>>) <= 1 /\ Len(<<>>) <= OutBuffer
      BY StreamAssumption
    <3>. QED BY <2>1, <3>1, <3>2, <3>3, AllIsPrefix, ShownHasArrived DEF StreamSound
  <2>3. req = [r \in Requests |-> Idle] /\ max \in Limits /\ active = 0
    BY <1>1 DEF StreamInit
  <2>4. Holders = {}
    BY <2>3 DEF Holders, Idle
  <2>5. LimiterSound
    <3>1. IsFiniteSet(Holders) /\ Cardinality(Holders) = 0
      BY <2>4, FS_EmptySet
    <3>2. max \in Int
      BY <2>3, StreamAssumption
    <3>. QED BY <2>3, <3>1, <3>2 DEF LimiterSound, LimiterCountsStreams, Idle
  <2>. QED BY <2>1, <2>2, <2>3, <2>5 DEF StreamInv, StreamTypeOK
<1>2. ASSUME StreamInv, [StreamNext]_streamVars PROVE StreamInv'
  <2>1. CASE UNCHANGED streamVars
    BY <1>2, <2>1 DEF streamVars, StreamInv, StreamTypeOK, LimiterSound, LimiterCountsStreams, Holders, StreamSound, Shown
  <2>2. CASE StreamNext
    BY <1>2, <2>2, AcquireLoadKeeps, AcquireSwapKeeps, StreamKeeps, LoopEndsKeeps, LoopReceiveKeeps,
       LoopSendKeeps, SourceSendsKeeps, SourceClosesKeeps, DisconnectKeeps, HandlerWritesKeeps,
       ReleaseKeeps DEF StreamNext
  <2>. QED BY <1>2, <2>1, <2>2
<1>. QED BY <1>1, <1>2, PTL DEF StreamSpec

\* However loads and swaps interleave, the limiter counts the admitted requests and
\* keeps to its limit.
THEOREM LimiterIsExact == StreamSpec => []LimiterCountsStreams
<1>1. StreamInv => LimiterCountsStreams
  BY DEF StreamInv, LimiterSound
<1>. QED BY <1>1, StreamInvHolds, PTL

\* A client is shown the updates it asked for, all of them while it is there, in order.
THEOREM StreamsShowWhatWasAsked == StreamSpec => []StreamsWhatWasAsked
<1>1. ASSUME StreamInv PROVE StreamsWhatWasAsked
  <2>1. SUFFICES ASSUME NEW r \in Requests
                 PROVE  /\ Len(req[r].out) <= OutBuffer
                        /\ ~req[r].cancelled => Shown(req[r]) = Wanted(req[r].filter, req[r].taken)
                        /\ \E n \in 0..Len(req[r].taken) :
                             Shown(req[r]) = Wanted(req[r].filter, SubSeq(req[r].taken, 1, n))
    BY DEF StreamsWhatWasAsked
  <2>2. req[r] \in RequestRecord /\ StreamSound(req[r])
    BY <1>1 DEF StreamInv, StreamTypeOK
  <2>3. CASE ~req[r].cancelled \/ req[r].loop # "closed"
    BY <2>2, <2>3, AllIsPrefix DEF StreamSound
  <2>4. CASE req[r].cancelled /\ req[r].loop = "closed"
    BY <2>2, <2>4, ShownHasArrived DEF StreamSound
  <2>. QED BY <2>3, <2>4
<1>. QED BY <1>1, StreamInvHolds, PTL

=============================================================================
