----------------------------- MODULE BoundedQueue -----------------------------
(***************************************************************************)
(* The bounded work queue of infrastructure/mqtt/queue.go: a circular      *)
(* buffer of pointers to WorkItems, a map from bus to queued item, and     *)
(* workers sleeping in Dequeue on a condition variable.  Methods hold q.mu *)
(* for their whole body except in cond.Wait, where Dequeue is cut in two.  *)
(* A WorkItem is named by the RecvSeq it was made with; payload[s] is the  *)
(* message whose RawPayload the item s now carries.                        *)
(***************************************************************************)
EXTENDS Integers, Sequences, FiniteSets

CONSTANTS
  Capacity,      \* capacity, at least 1 (NewBoundedQueue)
  MaxItems,      \* bound: how many messages are offered
  Buses,         \* the values of BusID, NoBus among them
  NoBus,         \* the empty BusID
  Workers,       \* goroutines that call Dequeue in a loop, each with its context
  Nil

ASSUME BoundedQueueAssumption ==
  /\ Capacity \in Nat \ {0}
  /\ MaxItems \in Nat
  /\ NoBus \in Buses
  /\ Nil \notin 1..MaxItems

VARIABLES
  dropPolicy, items, head, tail, count, closed, coalesce,
  payload,    \* RecvSeq -> the message whose payload the WorkItem carries
  busOf,      \* RecvSeq -> BusID of the WorkItem made for that message
  droppedCount, coalescedCount,
  pc,         \* worker: idle, waiting (in cond.Wait), woken, gone
  cancelled,  \* workers whose context is done
  helpers,    \* worker -> its helper goroutine still selects on ctx.Done and done
  released,   \* worker -> helpers whose done channel is closed but have not run
  offered,    \* history: how many messages were offered to Enqueue
  rejected,   \* history: how many found the queue closed
  taken       \* history: what was dequeued, in order

buffer == <<items, head, tail, count, coalesce, payload>>
ring == <<buffer, busOf>>
stats == <<droppedCount, coalescedCount, offered, rejected>>
threads == <<pc, cancelled, helpers, released>>
vars == <<dropPolicy, ring, closed, stats, threads, taken>>

-----------------------------------------------------------------------------
Slots == 0..(Capacity - 1)

Messages == 1..MaxItems

\* The slot k places after slot i.
Slot(i, k) == (i + k) % Capacity

Succ(i) == Slot(i, 1)

\* The queued items, oldest first.
Contents == [i \in 1..count |-> items[Slot(head, i - 1)]]

Queued == {Contents[i] : i \in 1..count}

Waiting == {w \in Workers : pc[w] = "waiting"}

\* cond.Signal wakes one waiter if there is any; cond.Broadcast wakes them all.
Signal ==
  IF Waiting = {}
  THEN pc' = pc
  ELSE \E w \in Waiting : pc' = [pc EXCEPT ![w] = "woken"]

Wake(w) == IF pc[w] = "waiting" THEN "woken" ELSE pc[w]

Broadcast == pc' = [w \in Workers |-> Wake(w)]

-----------------------------------------------------------------------------
\* The policy is the constructor's argument and never changes.
NewBoundedQueue ==
  /\ dropPolicy \in {"drop_new", "coalesce_latest"}
  /\ items = [i \in Slots |-> Nil]
  /\ head = 0 /\ tail = 0 /\ count = 0
  /\ closed = FALSE
  /\ coalesce = [b \in Buses |-> Nil]
  /\ payload = [s \in Messages |-> s]
  /\ busOf = [s \in Messages |-> NoBus]
  /\ droppedCount = 0 /\ coalescedCount = 0

Init ==
  /\ NewBoundedQueue
  /\ pc = [w \in Workers |-> "idle"]
  /\ cancelled = {}
  /\ helpers = [w \in Workers |-> FALSE]
  /\ released = [w \in Workers |-> 0]
  /\ offered = 0 /\ rejected = 0
  /\ taken = <<>>

\* Mutant: the item is put in front.
Bug_InsertInFront(s, b) ==
  LET front == (head + Capacity - 1) % Capacity IN
  /\ items' = [items EXCEPT ![front] = s]
  /\ head' = front
  /\ count' = count + 1
  /\ coalesce' = IF b # NoBus THEN [coalesce EXCEPT ![b] = s] ELSE coalesce
  /\ UNCHANGED <<tail, payload>>

\* Caller holds q.mu.
insertItem(s, b) ==
  /\ items' = [items EXCEPT ![tail] = s]
  /\ tail' = Succ(tail)
  /\ count' = count + 1
  /\ coalesce' = IF b # NoBus THEN [coalesce EXCEPT ![b] = s] ELSE coalesce
  /\ UNCHANGED <<head, payload>>

CanCoalesce(b) == coalesce[b] # Nil /\ dropPolicy = "coalesce_latest"

EnqueueClosed ==
  /\ closed
  /\ rejected' = rejected + 1
  /\ UNCHANGED <<buffer, droppedCount, coalescedCount, pc>>

\* Mutant: the payload goes to the oldest item, whatever its bus.
Bug_MergesIntoOldest(s, b) ==
  /\ ~closed
  /\ CanCoalesce(b)
  /\ payload' = [payload EXCEPT ![items[head]] = s]
  /\ coalescedCount' = coalescedCount + 1
  /\ UNCHANGED <<items, head, tail, count, coalesce, droppedCount, rejected, pc>>

EnqueueCoalesced(s, b) ==
  /\ ~closed
  /\ CanCoalesce(b)
  /\ payload' = [payload EXCEPT ![coalesce[b]] = s]
  /\ coalescedCount' = coalescedCount + 1
  /\ UNCHANGED <<items, head, tail, count, coalesce, droppedCount, rejected, pc>>

\* Mutant: the signal is missing.
Bug_InsertsSilently(s, b) ==
  /\ ~closed
  /\ ~CanCoalesce(b)
  /\ count < Capacity
  /\ insertItem(s, b)
  /\ UNCHANGED <<droppedCount, coalescedCount, rejected, pc>>

EnqueueSuccess(s, b) ==
  /\ ~closed
  /\ ~CanCoalesce(b)
  /\ count < Capacity
  /\ insertItem(s, b)
  /\ Signal
  /\ UNCHANGED <<droppedCount, coalescedCount, rejected>>

\* Both policies drop the new item when the queue is full.
EnqueueDropped(b) ==
  /\ ~closed
  /\ ~CanCoalesce(b)
  /\ count >= Capacity
  /\ droppedCount' = droppedCount + 1
  /\ UNCHANGED <<buffer, coalescedCount, rejected, pc>>

Enqueue(b) ==
  /\ offered < MaxItems
  /\ offered' = offered + 1
  /\ busOf' = [busOf EXCEPT ![offered + 1] = b]
  /\ \/ EnqueueClosed
     \/ EnqueueCoalesced(offered + 1, b)
     \/ EnqueueSuccess(offered + 1, b)
     \/ EnqueueDropped(b)
  /\ UNCHANGED <<dropPolicy, closed, cancelled, helpers, released, taken>>

\* Mutant: the coalesce map keeps naming the item that left.
Bug_KeepsCoalesceEntry ==
  LET s == items[head] IN
  /\ items' = [items EXCEPT ![head] = Nil]
  /\ head' = Succ(head)
  /\ count' = count - 1
  /\ taken' = Append(taken, [seq |-> s, bus |-> busOf[s], load |-> payload[s]])
  /\ UNCHANGED <<tail, coalesce, payload, busOf>>

\* The tail of Dequeue and of TryDequeue: the head slot is emptied.
RemoveHead ==
  LET s == items[head] IN
  /\ items' = [items EXCEPT ![head] = Nil]
  /\ head' = Succ(head)
  /\ count' = count - 1
  /\ coalesce' = IF busOf[s] # NoBus THEN [coalesce EXCEPT ![busOf[s]] = Nil] ELSE coalesce
  /\ taken' = Append(taken, [seq |-> s, bus |-> busOf[s], load |-> payload[s]])
  /\ UNCHANGED <<tail, payload, busOf>>

\* Dequeue from the test of its loop to its return or to cond.Wait: an item is
\* taken even when the context is done.
LoopAndReturn(w) ==
  \/ /\ count > 0
     /\ RemoveHead
     /\ pc' = [pc EXCEPT ![w] = "idle"]
  \/ /\ count = 0
     /\ closed \/ w \in cancelled
     /\ pc' = [pc EXCEPT ![w] = "gone"]
     /\ UNCHANGED <<ring, taken>>
  \/ /\ count = 0
     /\ ~closed
     /\ w \notin cancelled
     /\ pc' = [pc EXCEPT ![w] = "waiting"]
     /\ UNCHANGED <<ring, taken>>

\* Each wait has a helper goroutine of its own.
Dequeue(w) ==
  /\ pc[w] = "idle"
  /\ LoopAndReturn(w)
  /\ helpers' = [helpers EXCEPT ![w] = (pc'[w] = "waiting")]
  /\ UNCHANGED <<dropPolicy, closed, stats, cancelled, released>>

\* cond.Wait returns: done is closed, and a done context ends the call before the
\* loop's test is evaluated again.
DequeueWoken(w) ==
  /\ pc[w] = "woken"
  /\ \/ /\ w \in cancelled
        /\ pc' = [pc EXCEPT ![w] = "gone"]
        /\ UNCHANGED <<ring, taken>>
     \/ /\ w \notin cancelled
        /\ LoopAndReturn(w)
  /\ released' = [released EXCEPT ![w] = IF helpers[w] THEN @ + 1 ELSE @]
  /\ helpers' = [helpers EXCEPT ![w] = (pc'[w] = "waiting")]
  /\ UNCHANGED <<dropPolicy, closed, stats, cancelled>>

\* The helper's select takes the ctx.Done() branch, which it may do even after
\* done was closed.
HelperBroadcast(w) ==
  /\ w \in cancelled
  /\ \/ /\ helpers[w]
        /\ helpers' = [helpers EXCEPT ![w] = FALSE]
        /\ UNCHANGED released
     \/ /\ released[w] > 0
        /\ released' = [released EXCEPT ![w] = @ - 1]
        /\ UNCHANGED helpers
  /\ Broadcast
  /\ UNCHANGED <<dropPolicy, ring, closed, stats, cancelled, taken>>

\* The helper's select takes the done branch.
HelperDone(w) ==
  /\ released[w] > 0
  /\ released' = [released EXCEPT ![w] = @ - 1]
  /\ UNCHANGED <<dropPolicy, ring, closed, stats, pc, cancelled, helpers, taken>>

TryDequeue ==
  /\ count > 0
  /\ RemoveHead
  /\ UNCHANGED <<dropPolicy, closed, stats, threads>>

\* Mutant: sleeping workers are not told.
Bug_ClosesSilently ==
  /\ ~closed
  /\ closed' = TRUE
  /\ UNCHANGED <<dropPolicy, ring, stats, threads, taken>>

Close ==
  /\ ~closed
  /\ closed' = TRUE
  /\ Broadcast
  /\ UNCHANGED <<dropPolicy, ring, stats, cancelled, helpers, released, taken>>

\* The owner of a worker's context cancels it.
CancelContext ==
  /\ \E w \in Workers \ cancelled :
       cancelled' = cancelled \cup {w}
  /\ UNCHANGED <<dropPolicy, ring, closed, stats, pc, helpers, released, taken>>

Next ==
  \/ \E b \in Buses : Enqueue(b)
  \/ \E w \in Workers : Dequeue(w)
  \/ \E w \in Workers : DequeueWoken(w)
  \/ \E w \in Workers : HelperBroadcast(w)
  \/ \E w \in Workers : HelperDone(w)
  \/ TryDequeue
  \/ Close
  \/ CancelContext

Spec == Init /\ [][Next]_vars

\* Goroutines that can run do run; nobody has to enqueue, close or cancel.
FairSpec ==
  /\ Spec
  /\ \A w \in Workers : WF_vars(Dequeue(w))
  /\ \A w \in Workers : WF_vars(DequeueWoken(w))
  /\ \A w \in Workers : WF_vars(HelperBroadcast(w) \/ HelperDone(w))

-----------------------------------------------------------------------------
\* Type correctness.
TypeOK ==
  /\ dropPolicy \in {"drop_new", "coalesce_latest"}
  /\ items \in [Slots -> Messages \cup {Nil}]
  /\ head \in Slots /\ tail \in Slots /\ count \in 0..Capacity
  /\ closed \in BOOLEAN
  /\ coalesce \in [Buses -> Messages \cup {Nil}]
  /\ payload \in [Messages -> Messages]
  /\ busOf \in [Messages -> Buses]
  /\ droppedCount \in 0..MaxItems /\ coalescedCount \in 0..MaxItems
  /\ pc \in [Workers -> {"idle", "waiting", "woken", "gone"}]
  /\ cancelled \subseteq Workers
  /\ helpers \in [Workers -> BOOLEAN]
  /\ released \in [Workers -> Nat]
  /\ offered \in 0..MaxItems /\ rejected \in 0..MaxItems
  /\ taken \in Seq([seq : Messages, bus : Buses, load : Messages])

\* The circular buffer is sound: the count slots from head hold items, all other
\* slots are nil, and tail is where the next item goes.
RingSound ==
  /\ tail = Slot(head, count)
  /\ {i \in Slots : items[i] # Nil} = {Slot(head, k) : k \in 0..(count - 1)}

\* The coalesce map names queued items only, each under its own bus; under
\* coalesce_latest it names every one, so no bus is queued twice.
CoalesceMapSound ==
  /\ \A b \in Buses : coalesce[b] # Nil => coalesce[b] \in Queued /\ busOf[coalesce[b]] = b
  /\ coalesce[NoBus] = Nil
  /\ dropPolicy = "coalesce_latest" =>
       \A i \in 1..count : LET b == busOf[Contents[i]] IN b # NoBus => coalesce[b] = Contents[i]

\* Every message offered is in exactly one place: waiting, taken, merged into
\* another item, dropped or rejected.
NothingVanishes ==
  offered = count + Len(taken) + coalescedCount + droppedCount + rejected

\* The ring, its counters and the coalesce map agree at every wrap-around, merge and
\* removal, however workers and callers interleave (queue.go:112, 193).
QueueSound == TypeOK /\ RingSound /\ CoalesceMapSound /\ NothingVanishes

\* Under either policy time never runs backwards and buses never mix: the payloads handed to
\* workers for one bus are that bus's own, in arrival order, and no older than the
\* item that carries them.
PayloadsNewest ==
  /\ \A i, j \in 1..Len(taken) :
       i < j /\ taken[i].bus = taken[j].bus => taken[i].load < taken[j].load
  /\ \A i \in 1..Len(taken) :
       taken[i].load >= taken[i].seq /\ busOf[taken[i].load] = taken[i].bus

\* The queued items with what they carry, oldest first.
QueuedItems == [i \in 1..count |-> [seq  |-> Contents[i],
                                    bus  |-> busOf[Contents[i]],
                                    load |-> payload[Contents[i]]]]

\* The queue is a bounded FIFO with in-place coalescing.
Fifo == INSTANCE CoalescingFifo WITH
  merging <- (dropPolicy = "coalesce_latest"),
  fifo <- QueuedItems,
  arrived <- offered

\* The ring buffer with its map and sleeping workers implements that FIFO: items leave in
\* arrival order and none twice, however many workers race.
ImplementsFifo == Fifo!Spec

\* "Blocks until an item is available or the context is cancelled" (queue.go:145): as long
\* as no context is done, every item wakes a worker that takes it or finds it taken,
\* whoever else runs in between.  A signal that a cancelled worker takes is lost.
ItemsWakeWorkers ==
  \A w \in Workers :
    (pc[w] = "waiting" /\ count > 0) ~> (pc[w] # "waiting" \/ count = 0 \/ cancelled # {})

\* After Close, or once its context is done, no worker stays asleep.
SleepersAreReleased ==
  \A w \in Workers : (closed \/ w \in cancelled) ~> (pc[w] # "waiting")

\* Messages are queued in arrival order, each once.
InArrivalOrder ==
  /\ \A i \in 1..count : Contents[i] <= offered
  /\ \A i, j \in 1..count : i < j => Contents[i] < Contents[j]

\* Item s carries its own message or a later one of its bus, and only a message that
\* has been offered; without merging, or without a bus, its own.
CarriesNewer(s) ==
  /\ payload[s] >= s /\ busOf[payload[s]] = busOf[s]
  /\ s <= offered => payload[s] <= offered
  /\ (s > offered \/ busOf[s] = NoBus \/ dropPolicy = "drop_new") => payload[s] = s

\* What is still queued for a bus is newer than all that was taken for it.
TakenIsOlder ==
  \A k \in 1..Len(taken) :
    /\ taken[k].load <= offered
    /\ \A i \in 1..count :
         taken[k].bus = busOf[Contents[i]] => taken[k].load < payload[Contents[i]]

\* The inductive invariant behind QueueSound, PayloadsNewest and the refinement.
IInv ==
  /\ QueueSound
  /\ InArrivalOrder
  /\ \A s \in Messages : CarriesNewer(s)
  /\ TakenIsOlder
  /\ PayloadsNewest

=============================================================================
