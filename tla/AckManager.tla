------------------------------ MODULE AckManager ------------------------------
(***************************************************************************)
(* The connection-scoped ordered acknowledgements of                       *)
(* infrastructure/mqtt/ack_manager.go.  Every method of AckManager holds   *)
(* am.mu for its whole body, so each is one action.  Time is the age of an *)
(* entry in ticks of the pending timeout: an entry whose age exceeds       *)
(* PendingTimeout is one whose RegisterAt is Before(cutoff).               *)
(***************************************************************************)
EXTENDS Integers, Sequences, FiniteSets

CONSTANTS
  MaxSeq,          \* bound: how many messages one connection receives
  MaxPendingSize,  \* cfg.MaxPendingSize
  PendingTimeout   \* cfg.PendingTimeout, in ticks

ASSUME AckManagerAssumption ==
  /\ MaxSeq \in Nat
  /\ MaxPendingSize \in Nat \ {0}
  /\ PendingTimeout \in Nat

VARIABLES
  nextRecvSeq,  \* next sequence to assign
  nextAckSeq,   \* next sequence to acknowledge
  pending,      \* RecvSeq -> PendingAck
  stopped,      \* the manager was stopped
  loop,         \* the goroutine running FlushLoop
  acked,        \* history: the sequence numbers whose AckFn was called, in order
  evicted,      \* history: the sequence numbers deleted without an AckFn call
  verdict       \* history: the last decision a worker had accepted per sequence

vars == <<nextRecvSeq, nextAckSeq, pending, stopped, loop, acked, evicted, verdict>>

-----------------------------------------------------------------------------
Seqs == 1..MaxSeq

\* AckDecision is an iota: the zero value of a fresh entry is the ACK decision.
AckDecision == {"ACK", "Retry"}

NoVerdict == "none"

Expired == PendingTimeout + 1

PendingAck == [decision : AckDecision, completed : BOOLEAN, age : 0..Expired]

Fresh == [decision |-> "ACK", completed |-> FALSE, age |-> 0]

Present(s) == s \in DOMAIN pending

\* Mutant: a completed entry is released although its worker asked for a retry.
Bug_ReleasesRetry(s) == Present(s) /\ pending[s].completed

\* The entry is released by the flush loop: completed, and not held for a retry.
Releasable(s) ==
  /\ Present(s)
  /\ pending[s].completed
  /\ pending[s].decision # "Retry"

\* Mutant: entries are never deleted.
Bug_NothingDeleted(S) == pending

Without(S) == [s \in DOMAIN pending \ S |-> pending[s]]

\* Where the gap-skipping loop of advanceNextAckSeq stops over the entries dom.
advanceNextAckSeq(dom, k) ==
  /\ k \in nextAckSeq..nextRecvSeq
  /\ k < nextRecvSeq => k \in dom
  /\ \A s \in nextAckSeq..(k - 1) : s \notin dom

\* The oldest entries: the one chosen among equal RegisterAt is the map's.
Oldest == {s \in DOMAIN pending : \A t \in DOMAIN pending : pending[t].age <= pending[s].age}

-----------------------------------------------------------------------------
NewAckManager ==
  /\ nextRecvSeq = 1
  /\ nextAckSeq = 1
  /\ pending = [s \in {} |-> Fresh]
  /\ stopped = FALSE
  /\ acked = <<>>
  /\ evicted = {}
  /\ verdict = [s \in Seqs |-> NoVerdict]

\* The victims of evictOldestIfNeeded, and where nextAckSeq moves with them.
evictOldestIfNeeded(victims, k) ==
  IF Cardinality(DOMAIN pending) < MaxPendingSize
  THEN victims = {} /\ k = nextAckSeq
  ELSE /\ \E o \in Oldest : victims = {o}
       /\ IF nextAckSeq \in victims
          THEN advanceNextAckSeq(DOMAIN pending \ victims, k)
          ELSE k = nextAckSeq

Register ==
  /\ nextRecvSeq <= MaxSeq
  /\ ~stopped
  /\ \E victims \in SUBSET DOMAIN pending, k \in nextAckSeq..nextRecvSeq :
       /\ evictOldestIfNeeded(victims, k)
       /\ nextAckSeq' = k
       /\ evicted' = evicted \cup victims
       /\ pending' = [s \in (DOMAIN pending \ victims) \cup {nextRecvSeq} |->
                        IF s = nextRecvSeq THEN Fresh ELSE pending[s]]
  /\ nextRecvSeq' = nextRecvSeq + 1
  /\ UNCHANGED <<stopped, loop, acked, verdict>>

Complete(s, d) ==
  /\ ~stopped
  /\ Present(s)
  /\ pending' = [pending EXCEPT ![s].decision = d, ![s].completed = TRUE]
  /\ verdict' = [verdict EXCEPT ![s] = d]
  /\ UNCHANGED <<nextRecvSeq, nextAckSeq, stopped, loop, acked, evicted>>

UpdateRetryToAck(s) ==
  /\ ~stopped
  /\ Present(s)
  /\ pending[s].completed
  /\ pending[s].decision = "Retry"
  /\ pending' = [pending EXCEPT ![s].decision = "ACK"]
  /\ verdict' = [verdict EXCEPT ![s] = "ACK"]
  /\ UNCHANGED <<nextRecvSeq, nextAckSeq, stopped, loop, acked, evicted>>

\* The entry at which the loop of Flush breaks.
FlushStops(k) ==
  /\ k \in nextAckSeq..nextRecvSeq
  /\ \A s \in nextAckSeq..(k - 1) : Releasable(s)
  /\ ~Releasable(k)

\* The sequence numbers a, a + 1, ..., k - 1, in the order Flush sends them.
Run(a, k) == [i \in 1..(k - a) |-> a + i - 1]

\* Mutant: off by one, the entry at which the loop breaks is deleted too.
Bug_FlushDropsBlocker ==
  /\ loop = "running"
  /\ ~stopped
  /\ \E k \in nextAckSeq..nextRecvSeq :
       /\ FlushStops(k)
       /\ acked' = acked \o Run(nextAckSeq, k)
       /\ pending' = Without(nextAckSeq..k)
       /\ nextAckSeq' = k
  /\ UNCHANGED <<nextRecvSeq, stopped, loop, evicted, verdict>>

\* FlushLoop serves am.flushCh and its ticker by Flush.
Flush ==
  /\ loop = "running"
  /\ ~stopped
  /\ \E k \in nextAckSeq..nextRecvSeq :
       /\ FlushStops(k)
       /\ acked' = acked \o Run(nextAckSeq, k)
       /\ pending' = Without(nextAckSeq..(k - 1))
       /\ nextAckSeq' = k
  /\ UNCHANGED <<nextRecvSeq, stopped, loop, evicted, verdict>>

\* Mutant: nextAckSeq moves only when the entry at it timed out.
Bug_NoGapSkip ==
  /\ loop = "running"
  /\ ~stopped
  /\ LET late == {s \in DOMAIN pending : pending[s].age = Expired} IN
     /\ pending' = Without(late)
     /\ evicted' = evicted \cup late
     /\ nextAckSeq' = IF nextAckSeq \in late THEN nextAckSeq + 1 ELSE nextAckSeq
  /\ UNCHANGED <<nextRecvSeq, stopped, loop, acked, verdict>>

\* FlushLoop serves its evictTicker.
evictTimedOut ==
  /\ loop = "running"
  /\ ~stopped
  /\ LET late == {s \in DOMAIN pending : pending[s].age = Expired} IN
     /\ pending' = Without(late)
     /\ evicted' = evicted \cup late
     /\ \E k \in nextAckSeq..nextRecvSeq :
          /\ advanceNextAckSeq(DOMAIN pending \ late, k)
          /\ nextAckSeq' = k
  /\ UNCHANGED <<nextRecvSeq, stopped, loop, acked, verdict>>

\* go am.FlushLoop(ctx), some time after the manager was made.
FlushLoop ==
  /\ loop = "idle"
  /\ loop' = IF stopped THEN "ended" ELSE "running"
  /\ UNCHANGED <<nextRecvSeq, nextAckSeq, pending, stopped, acked, evicted, verdict>>

\* ctx.Done() in FlushLoop.
CancelLoop ==
  /\ loop = "running"
  /\ loop' = "ended"
  /\ UNCHANGED <<nextRecvSeq, nextAckSeq, pending, stopped, acked, evicted, verdict>>

Stop ==
  /\ ~stopped
  /\ stopped' = TRUE
  /\ pending' = [s \in {} |-> Fresh]
  /\ loop' = IF loop = "running" THEN "ended" ELSE loop
  /\ UNCHANGED <<nextRecvSeq, nextAckSeq, acked, evicted, verdict>>

\* Time passes; past the timeout an entry does not age further.
Tick ==
  /\ \E s \in DOMAIN pending : pending[s].age < Expired
  /\ pending' = [s \in DOMAIN pending |->
       [pending[s] EXCEPT !.age = IF @ < Expired THEN @ + 1 ELSE @]]
  /\ UNCHANGED <<nextRecvSeq, nextAckSeq, stopped, loop, acked, evicted, verdict>>

Next ==
  \/ Register
  \/ \E s \in Seqs, d \in AckDecision : Complete(s, d)
  \/ \E s \in Seqs : UpdateRetryToAck(s)
  \/ Flush
  \/ evictTimedOut
  \/ FlushLoop
  \/ CancelLoop
  \/ Stop
  \/ Tick

Init == NewAckManager /\ loop = "idle"

Spec == Init /\ [][Next]_vars

\* The flush loop is scheduled while it runs and time passes; nothing obliges
\* a worker to report.
FairSpec == Spec /\ WF_vars(Flush) /\ WF_vars(evictTimedOut) /\ WF_vars(Tick)

-----------------------------------------------------------------------------
AckedSet == {acked[i] : i \in DOMAIN acked}

\* Type correctness of the manager's state and of its history.
TypeOK ==
  /\ nextRecvSeq \in 1..(MaxSeq + 1)
  /\ nextAckSeq \in 1..(MaxSeq + 1)
  /\ DOMAIN pending \subseteq Seqs
  /\ pending \in [DOMAIN pending -> PendingAck]
  /\ stopped \in BOOLEAN
  /\ loop \in {"idle", "running", "ended"}
  /\ acked \in Seq(Seqs)
  /\ evicted \subseteq Seqs
  /\ verdict \in [Seqs -> AckDecision \cup {NoVerdict}]

\* PUBACKs leave in strict RecvSeq order and never twice, whatever the order in
\* which workers complete and whatever eviction skips (ack_manager.go:42).
AcksInOrder ==
  \A i, j \in 1..Len(acked) : i < j => acked[i] < acked[j]

\* No message is acknowledged while an earlier one is still held: a pending or
\* retried entry blocks all later PUBACKs until it is released or evicted.
NoAckOvertakes ==
  \A i \in 1..Len(acked) : \A s \in DOMAIN pending : acked[i] < s

\* A PUBACK is sent only for a message whose last accepted report was ACK: never
\* for one nobody completed, nor for one a worker asked to retry.
AckedWasDecided ==
  \A i \in 1..Len(acked) : verdict[acked[i]] = "ACK"

\* Until Stop, every sequence handed out is in exactly one place: still pending,
\* acknowledged, or evicted; skipping gaps loses none of them.
Accounted ==
  /\ ~stopped => AckedSet \cup evicted \cup DOMAIN pending = 1..(nextRecvSeq - 1)
  /\ AckedSet \cap evicted = {}
  /\ AckedSet \cap DOMAIN pending = {}
  /\ evicted \cap DOMAIN pending = {}

\* The pending map never outgrows its configured size (ack_manager.go:17).
BoundedPending == Cardinality(DOMAIN pending) <= MaxPendingSize

\* A stopped manager sends no PUBACK, forgets none of its history and accepts no
\* further message ("prevents further ACKs", ack_manager.go:254).
StoppedIsFinal ==
  [][stopped => stopped' /\ acked' = acked /\ pending' = pending
                /\ nextRecvSeq' = nextRecvSeq]_vars

\* While the flush loop runs, a hole at nextAckSeq (an entry evicted out of
\* order) never wedges the manager: some eviction tick moves past it.
GapsAreSkipped ==
  \A s \in Seqs :
    (loop = "running" /\ nextAckSeq = s /\ s < nextRecvSeq /\ ~Present(s))
      ~> (nextAckSeq # s \/ loop # "running")

\* The window of live sequence numbers: pending entries lie between the next one
\* to acknowledge and the next one to assign, and what was sent lies below it.
Window ==
  /\ nextAckSeq <= nextRecvSeq
  /\ DOMAIN pending \subseteq nextAckSeq..(nextRecvSeq - 1)
  /\ evicted \subseteq 1..(nextRecvSeq - 1)
  /\ \A i \in 1..Len(acked) : acked[i] < nextAckSeq
  /\ stopped => DOMAIN pending = {}

\* A completed entry carries exactly the worker's last accepted report.
VerdictKept ==
  \A s \in DOMAIN pending : pending[s].completed => verdict[s] = pending[s].decision

\* The inductive invariant: what Flush, the two evictions and Register must
\* jointly keep for the acknowledgements to be ordered, decided and accounted for.
IInv ==
  /\ TypeOK
  /\ Window
  /\ VerdictKept
  /\ AcksInOrder
  /\ AckedWasDecided
  /\ Accounted
  /\ BoundedPending

=============================================================================
