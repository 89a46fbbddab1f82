---------------------------- MODULE CoalescingFifo ----------------------------
(***************************************************************************)
(* What the ingestor's work queue promises, without its ring buffer, its   *)
(* coalesce map or its sleeping workers: a first-in first-out queue of at  *)
(* most Capacity items in which a newer message may take over the payload  *)
(* of the one item already queued for the same bus.                        *)
(***************************************************************************)
EXTENDS Integers, Sequences

CONSTANTS Capacity, MaxItems, Buses

VARIABLES
  merging, \* whether messages may be merged; never changes
  fifo,    \* the queued items, oldest first: [seq, bus, load]
  arrived, \* how many messages were offered
  taken    \* the items handed to workers, in order

avars == <<merging, fifo, arrived, taken>>

Init == merging \in BOOLEAN /\ fifo = <<>> /\ arrived = 0 /\ taken = <<>>

Arrive == arrived < MaxItems /\ arrived' = arrived + 1

\* The message joins the back of the queue.
Put(b) ==
  /\ Arrive
  /\ Len(fifo) < Capacity
  /\ fifo' = Append(fifo, [seq |-> arrived + 1, bus |-> b, load |-> arrived + 1])
  /\ UNCHANGED <<merging, taken>>

\* The message takes over the payload of the bus's queued item, in its place.
Merge(i) ==
  /\ Arrive
  /\ merging
  /\ fifo' = [fifo EXCEPT ![i].load = arrived + 1]
  /\ UNCHANGED <<merging, taken>>

\* The message is turned away.
Refuse == Arrive /\ UNCHANGED <<merging, fifo, taken>>

Take ==
  /\ fifo # <<>>
  /\ taken' = Append(taken, Head(fifo))
  /\ fifo' = Tail(fifo)
  /\ UNCHANGED <<merging, arrived>>

Next ==
  \/ \E b \in Buses : Put(b)
  \/ \E i \in DOMAIN fifo : Merge(i)
  \/ Refuse
  \/ Take

Spec == Init /\ [][Next]_avars
=============================================================================
