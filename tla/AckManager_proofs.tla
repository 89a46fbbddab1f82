-------------------------- MODULE AckManager_proofs --------------------------
(***************************************************************************)
(* Proofs about AckManager for every number of messages, every map size    *)
(* and every timeout.                                                      *)
(***************************************************************************)
EXTENDS AckManager, FiniteSetTheorems, SequenceTheorems, TLAPS

\* What one Flush sends: the consecutive sequence numbers from a to k - 1.
LEMMA RunProperties ==
  ASSUME NEW a \in Nat, NEW k \in Nat, a <= k
  PROVE  /\ Run(a, k) \in Seq(a..(k - 1))
         /\ Len(Run(a, k)) = k - a
         /\ \A i \in 1..(k - a) : Run(a, k)[i] = a + i - 1
<1>1. \A i \in 1..(k - a) : a + i - 1 \in a..(k - 1)
  OBVIOUS
<1>2. Run(a, k) \in [1..(k - a) -> a..(k - 1)]
  BY <1>1 DEF Run
<1>3. k - a \in Nat
  OBVIOUS
<1>4. Run(a, k) \in Seq(a..(k - 1))
  BY <1>2, <1>3
<1>5. DOMAIN Run(a, k) = 1..(k - a)
  BY <1>2
<1>6. Len(Run(a, k)) = k - a
  BY <1>3, <1>4, <1>5, LenProperties
<1>7. QED
  BY <1>4, <1>6 DEF Run

\* The pending map is finite, so its size is a number evictOldestIfNeeded can compare.
LEMMA FinitePending ==
  ASSUME TypeOK
  PROVE  /\ IsFiniteSet(DOMAIN pending)
         /\ Cardinality(DOMAIN pending) \in Nat
<1>1. IsFiniteSet(Seqs)
  BY FS_Interval, AckManagerAssumption DEF Seqs
<1>2. QED
  BY <1>1, FS_Subset, FS_CardinalityType DEF TypeOK

\* NewAckManager starts with an empty window: the invariant holds at first.
LEMMA NewManagerIInv == NewAckManager /\ loop \in {"idle", "running", "ended"} => IInv
<1> SUFFICES ASSUME NewAckManager, loop \in {"idle", "running", "ended"} PROVE IInv
  OBVIOUS
<1> USE DEF NewAckManager
<1>1. TypeOK
  <2>1. nextRecvSeq \in 1..(MaxSeq + 1) /\ nextAckSeq \in 1..(MaxSeq + 1)
    BY AckManagerAssumption
  <2>2. DOMAIN pending = {} /\ pending \in [DOMAIN pending -> PendingAck]
    OBVIOUS
  <2>3. acked \in Seq(Seqs) /\ verdict \in [Seqs -> AckDecision \cup {NoVerdict}]
    OBVIOUS
  <2>4. QED
    BY <2>1, <2>2, <2>3 DEF TypeOK
<1>2. Window /\ VerdictKept /\ AcksInOrder /\ AckedWasDecided
  BY DEF Window, VerdictKept, AcksInOrder, AckedWasDecided
<1>3. Accounted
  BY DEF Accounted, AckedSet
<1>4. BoundedPending
  BY FS_EmptySet, AckManagerAssumption DEF BoundedPending
<1>5. QED
  BY <1>1, <1>2, <1>3, <1>4 DEF IInv

\* The manager starts in a state that satisfies the invariant.
THEOREM InitIInv == Init => IInv
BY NewManagerIInv DEF Init

\* Register keeps the invariant: the new entry joins the window on its right,
\* the entry evicted at capacity leaves it on record.
LEMMA RegisterKeepsIInv == IInv /\ Register => IInv'
<1> SUFFICES ASSUME IInv, Register PROVE IInv'
  OBVIOUS
<1> USE AckManagerAssumption
<1>1. PICK victims \in SUBSET DOMAIN pending, k \in nextAckSeq..nextRecvSeq :
        /\ evictOldestIfNeeded(victims, k)
        /\ nextAckSeq' = k
        /\ evicted' = evicted \cup victims
        /\ pending' = [s \in (DOMAIN pending \ victims) \cup {nextRecvSeq} |->
                         IF s = nextRecvSeq THEN Fresh ELSE pending[s]]
  BY DEF Register
<1>2. /\ nextRecvSeq <= MaxSeq /\ ~stopped
      /\ nextRecvSeq' = nextRecvSeq + 1
      /\ UNCHANGED <<stopped, loop, acked, verdict>>
  BY DEF Register
<1>3. TypeOK /\ Window /\ VerdictKept /\ Accounted /\ AcksInOrder /\ AckedWasDecided
      /\ BoundedPending
  BY DEF IInv
<1>4. DOMAIN pending' = (DOMAIN pending \ victims) \cup {nextRecvSeq}
  BY <1>1
<1>5. \A s \in DOMAIN pending \ victims : s # nextRecvSeq /\ pending'[s] = pending[s]
  BY <1>1, <1>3 DEF Window, TypeOK
<1>6. pending'[nextRecvSeq] = Fresh
  BY <1>1
<1>7. \A s \in DOMAIN pending \ victims : s >= k
  <2>1. CASE victims = {} /\ k = nextAckSeq
    BY <2>1, <1>3 DEF Window, TypeOK
  <2>2. CASE advanceNextAckSeq(DOMAIN pending \ victims, k)
    BY <2>2, <1>3 DEF advanceNextAckSeq, Window, TypeOK
  <2>3. CASE k = nextAckSeq
    BY <2>3, <1>3 DEF Window, TypeOK
  <2>4. QED
    BY <1>1, <2>1, <2>2, <2>3 DEF evictOldestIfNeeded
<1>8. TypeOK'
  <2>1. Fresh \in PendingAck
    BY DEF Fresh, PendingAck, AckDecision, Expired
  <2>2. pending' \in [DOMAIN pending' -> PendingAck]
    BY <2>1, <1>1, <1>3, <1>4 DEF TypeOK
  <2>3. DOMAIN pending' \subseteq Seqs /\ evicted' \subseteq Seqs
    BY <1>1, <1>2, <1>3, <1>4 DEF TypeOK, Seqs
  <2>4. nextRecvSeq' \in 1..(MaxSeq + 1) /\ nextAckSeq' \in 1..(MaxSeq + 1)
    BY <1>1, <1>2, <1>3 DEF TypeOK
  <2>5. QED
    BY <2>2, <2>3, <2>4, <1>2, <1>3 DEF TypeOK
<1>9. Window'
  BY <1>1, <1>2, <1>3, <1>4, <1>7 DEF Window, TypeOK, Seqs
<1>10. VerdictKept'
  BY <1>2, <1>3, <1>4, <1>5, <1>6 DEF VerdictKept, Fresh
<1>11. AcksInOrder' /\ AckedWasDecided'
  BY <1>2, <1>3 DEF AcksInOrder, AckedWasDecided
<1>12. Accounted'
  <2>1. AckedSet' = AckedSet /\ AckedSet \subseteq 1..(nextRecvSeq - 1)
    BY <1>2, <1>3 DEF AckedSet, Accounted
  <2>2. AckedSet \cup evicted \cup DOMAIN pending = 1..(nextRecvSeq - 1)
    BY <1>2, <1>3 DEF Accounted
  <2>3. nextRecvSeq \notin 1..(nextRecvSeq - 1)
        /\ 1..nextRecvSeq = (1..(nextRecvSeq - 1)) \cup {nextRecvSeq}
    BY <1>3 DEF TypeOK
  <2>4. nextRecvSeq' - 1 = nextRecvSeq
    BY <1>2, <1>3 DEF TypeOK
  <2>5. AckedSet' \cup evicted' \cup DOMAIN pending' = 1..(nextRecvSeq' - 1)
    BY <2>1, <2>2, <2>3, <2>4, <1>1, <1>4
  <2>6. /\ AckedSet' \cap evicted' = {}
        /\ AckedSet' \cap DOMAIN pending' = {}
        /\ evicted' \cap DOMAIN pending' = {}
    BY <2>1, <2>2, <2>3, <1>1, <1>3, <1>4 DEF Accounted
  <2>7. QED
    BY <2>5, <2>6 DEF Accounted
<1>13. BoundedPending'
  <2> DEFINE P == DOMAIN pending
  <2>1. IsFiniteSet(P) /\ Cardinality(P) \in Nat /\ Cardinality(P) <= MaxPendingSize
    BY <1>3, FinitePending DEF BoundedPending
  <2>2. IsFiniteSet(P \ victims) /\ Cardinality(P \ victims) < MaxPendingSize
        /\ Cardinality(P \ victims) \in Nat
    <3>1. CASE Cardinality(P) < MaxPendingSize
      <4>1. victims = {}
        BY <3>1, <1>1 DEF evictOldestIfNeeded
      <4>2. P \ victims = P
        BY <4>1
      <4>3. QED
        BY <4>2, <2>1, <3>1
    <3>2. CASE ~(Cardinality(P) < MaxPendingSize)
      <4>1. PICK o \in Oldest : victims = {o}
        BY <3>2, <1>1 DEF evictOldestIfNeeded
      <4>2. o \in P
        BY <4>1 DEF Oldest
      <4>3. IsFiniteSet(P \ {o}) /\ Cardinality(P \ {o}) = Cardinality(P) - 1
        BY <4>2, <2>1, FS_RemoveElement
      <4>4. Cardinality(P \ {o}) \in Nat
        BY <4>3, FS_CardinalityType
      <4>5. QED
        BY <4>1, <4>3, <4>4, <2>1
    <3>3. QED
      BY <3>1, <3>2
  <2>3. Cardinality((P \ victims) \cup {nextRecvSeq}) <= Cardinality(P \ victims) + 1
    BY <2>2, FS_AddElement
  <2>4. IsFiniteSet((P \ victims) \cup {nextRecvSeq})
    BY <2>2, FS_AddElement
  <2>5. Cardinality((P \ victims) \cup {nextRecvSeq}) \in Nat
    BY <2>4, FS_CardinalityType
  <2>6. QED
    BY <2>2, <2>3, <2>5, <1>4 DEF BoundedPending
<1>14. QED
  BY <1>8, <1>9, <1>10, <1>11, <1>12, <1>13 DEF IInv

\* A worker's report touches one entry and the record of its verdict together.
LEMMA ReportKeepsIInv ==
  ASSUME IInv, NEW s \in Seqs, NEW d \in AckDecision,
         ~stopped, Present(s),
         pending' = [pending EXCEPT ![s].decision = d, ![s].completed = TRUE],
         verdict' = [verdict EXCEPT ![s] = d],
         UNCHANGED <<nextRecvSeq, nextAckSeq, stopped, loop, acked, evicted>>
  PROVE  IInv'
<1>1. TypeOK /\ Window /\ VerdictKept /\ Accounted /\ AcksInOrder /\ AckedWasDecided
      /\ BoundedPending
  BY DEF IInv
<1>2. DOMAIN pending' = DOMAIN pending /\ s \in DOMAIN pending
  BY DEF Present
<1>3. \A t \in DOMAIN pending : pending[t] \in PendingAck
  BY <1>1 DEF TypeOK
<1>4. \A t \in DOMAIN pending : t # s => pending'[t] = pending[t] /\ verdict'[t] = verdict[t]
  BY <1>1 DEF TypeOK
<1>5. /\ pending'[s].decision = d /\ pending'[s].completed = TRUE
      /\ pending'[s] \in PendingAck
      /\ verdict'[s] = d
  BY <1>1, <1>2, <1>3 DEF TypeOK, PendingAck
<1>6. TypeOK'
  <2>1. pending' \in [DOMAIN pending' -> PendingAck]
    <3>1. \A t \in DOMAIN pending : pending'[t] \in PendingAck
      BY <1>3, <1>4, <1>5
    <3>2. pending' = [t \in DOMAIN pending |-> pending'[t]]
      BY <1>1 DEF TypeOK
    <3>3. QED
      BY <3>1, <3>2, <1>2
  <2>2. verdict' \in [Seqs -> AckDecision \cup {NoVerdict}]
    BY <1>1 DEF TypeOK
  <2>3. QED
    BY <2>1, <2>2, <1>1, <1>2 DEF TypeOK
<1>7. Window'
  BY <1>1, <1>2 DEF Window
<1>8. VerdictKept'
  BY <1>1, <1>2, <1>4, <1>5 DEF VerdictKept
<1>9. AcksInOrder'
  BY <1>1 DEF AcksInOrder
<1>10. AckedWasDecided'
  <2>1. \A i \in 1..Len(acked) : acked[i] # s /\ acked[i] \in Seqs
    <3>1. \A i \in 1..Len(acked) : acked[i] \in AckedSet /\ acked[i] \in Seqs
      BY <1>1, LenProperties DEF TypeOK, AckedSet
    <3>2. QED
      BY <3>1, <1>1, <1>2 DEF Accounted
  <2>2. QED
    BY <2>1, <1>1 DEF AckedWasDecided, TypeOK
<1>11. Accounted' /\ BoundedPending'
  BY <1>1, <1>2 DEF Accounted, AckedSet, BoundedPending
<1>12. QED
  BY <1>6, <1>7, <1>8, <1>9, <1>10, <1>11 DEF IInv

\* Complete is a report with any decision.
LEMMA CompleteKeepsIInv ==
  ASSUME NEW s \in Seqs, NEW d \in AckDecision
  PROVE  IInv /\ Complete(s, d) => IInv'
BY ReportKeepsIInv DEF Complete

\* The entry was completed already, so setting its decision is another report.
LEMMA UpdateRetryToAckKeepsIInv ==
  ASSUME NEW s \in Seqs
  PROVE  IInv /\ UpdateRetryToAck(s) => IInv'
<1> SUFFICES ASSUME IInv, UpdateRetryToAck(s) PROVE IInv'
  OBVIOUS
<1>1. pending[s] \in PendingAck /\ pending[s].completed = TRUE /\ s \in DOMAIN pending
  BY DEF IInv, TypeOK, UpdateRetryToAck, Present, PendingAck
<1>2. pending' = [pending EXCEPT ![s].decision = "ACK"]
  BY DEF UpdateRetryToAck
<1>3. [pending[s] EXCEPT !.decision = "ACK"]
        = [[pending[s] EXCEPT !.decision = "ACK"] EXCEPT !.completed = TRUE]
  BY <1>1 DEF PendingAck
<1>4. pending' = [pending EXCEPT ![s].decision = "ACK", ![s].completed = TRUE]
  BY <1>1, <1>2, <1>3 DEF PendingAck
<1>5. "ACK" \in AckDecision
  BY DEF AckDecision
<1>6. QED
  BY <1>4, <1>5, ReportKeepsIInv DEF UpdateRetryToAck

\* Flush moves a run of releasable entries, in order, from the left end of the
\* window to the end of what was sent.
LEMMA FlushKeepsIInv == IInv /\ Flush => IInv'
<1> SUFFICES ASSUME IInv, Flush PROVE IInv'
  OBVIOUS
<1> USE AckManagerAssumption
<1>1. PICK k \in nextAckSeq..nextRecvSeq :
        /\ FlushStops(k)
        /\ acked' = acked \o Run(nextAckSeq, k)
        /\ pending' = Without(nextAckSeq..(k - 1))
        /\ nextAckSeq' = k
  BY DEF Flush
<1>2. ~stopped /\ UNCHANGED <<nextRecvSeq, stopped, loop, evicted, verdict>>
  BY DEF Flush
<1>3. TypeOK /\ Window /\ VerdictKept /\ Accounted /\ AcksInOrder /\ AckedWasDecided
      /\ BoundedPending
  BY DEF IInv
<1> DEFINE R == nextAckSeq..(k - 1)
<1>4. nextAckSeq \in Nat /\ nextRecvSeq \in Nat /\ k \in Nat /\ nextAckSeq <= k
      /\ k <= nextRecvSeq
  BY <1>1, <1>3 DEF TypeOK
<1>5. \A s \in R : s \in DOMAIN pending /\ pending[s].completed
                   /\ pending[s].decision # "Retry"
  BY <1>1 DEF FlushStops, Releasable, Present
<1>6. R \subseteq DOMAIN pending /\ R \subseteq Seqs
  BY <1>3, <1>5 DEF TypeOK
<1>7. DOMAIN pending' = DOMAIN pending \ R
      /\ \A s \in DOMAIN pending \ R : pending'[s] = pending[s]
  BY <1>1 DEF Without
<1>8. /\ Run(nextAckSeq, k) \in Seq(R)
      /\ Len(Run(nextAckSeq, k)) = k - nextAckSeq
      /\ \A i \in 1..(k - nextAckSeq) : Run(nextAckSeq, k)[i] = nextAckSeq + i - 1
  BY <1>4, RunProperties
<1>9. Run(nextAckSeq, k) \in Seq(Seqs)
  BY <1>6, <1>8, SeqMonotonic
<1>10. Len(acked) \in Nat /\ acked \in Seq(Seqs)
  BY <1>3, LenProperties DEF TypeOK
<1>11. /\ acked' \in Seq(Seqs)
       /\ Len(acked') = Len(acked) + (k - nextAckSeq)
       /\ \A i \in 1..Len(acked') : acked'[i] =
            IF i <= Len(acked) THEN acked[i] ELSE nextAckSeq + (i - Len(acked)) - 1
  <2>1. /\ acked' \in Seq(Seqs)
        /\ Len(acked') = Len(acked) + (k - nextAckSeq)
        /\ \A i \in 1..(Len(acked) + (k - nextAckSeq)) : acked'[i] =
             IF i <= Len(acked) THEN acked[i] ELSE Run(nextAckSeq, k)[i - Len(acked)]
    <3> DEFINE r == Run(nextAckSeq, k)
    <3>1. /\ acked \o r \in Seq(Seqs)
          /\ Len(acked \o r) = Len(acked) + Len(r)
          /\ \A i \in 1..(Len(acked) + Len(r)) : (acked \o r)[i] =
               IF i <= Len(acked) THEN acked[i] ELSE r[i - Len(acked)]
      BY <1>9, <1>10, ConcatProperties
    <3>2. Len(r) = k - nextAckSeq
      BY <1>8
    <3>3. acked' = acked \o r
      BY <1>1
    <3> HIDE DEF r
    <3>4. QED
      BY <3>1, <3>2, <3>3 DEF r
  <2>2. \A i \in 1..(Len(acked) + (k - nextAckSeq)) :
           i > Len(acked) => i - Len(acked) \in 1..(k - nextAckSeq)
    BY <1>4, <1>10
  <2>3. \A i \in 1..(Len(acked) + (k - nextAckSeq)) : i > Len(acked) =>
          Run(nextAckSeq, k)[i - Len(acked)] = nextAckSeq + (i - Len(acked)) - 1
    BY <2>2, <1>8
  <2>4. QED
    BY <2>1, <2>3, <1>10
<1>12. AckedSet' = AckedSet \cup R
  <2>1. AckedSet' = {acked'[i] : i \in 1..Len(acked')}
        /\ AckedSet = {acked[i] : i \in 1..Len(acked)}
    BY <1>10, <1>11, LenProperties DEF AckedSet
  <2>2. ASSUME NEW x \in AckedSet' PROVE x \in AckedSet \cup R
    <3>1. PICK i \in 1..Len(acked') : x = acked'[i]
      BY <2>1
    <3>2. CASE i <= Len(acked)
      BY <3>1, <3>2, <1>10, <1>11, <2>1
    <3>3. CASE i > Len(acked)
      BY <3>1, <3>3, <1>4, <1>10, <1>11
    <3>4. QED
      BY <3>2, <3>3, <1>10, <1>11
  <2>3. ASSUME NEW x \in AckedSet PROVE x \in AckedSet'
    <3>1. PICK i \in 1..Len(acked) : x = acked[i]
      BY <2>1
    <3>2. i \in 1..Len(acked') /\ acked'[i] = x
      BY <3>1, <1>4, <1>10, <1>11
    <3>3. QED
      BY <3>2, <2>1
  <2>4. ASSUME NEW x \in R PROVE x \in AckedSet'
    <3>1. Len(acked) + (x - nextAckSeq) + 1 \in 1..Len(acked')
      BY <1>4, <1>10, <1>11
    <3>2. acked'[Len(acked) + (x - nextAckSeq) + 1] = x
      BY <3>1, <1>4, <1>10, <1>11
    <3>3. QED
      BY <3>1, <3>2, <2>1
  <2>5. QED
    BY <2>2, <2>3, <2>4
<1>13. TypeOK'
  <2>1. pending' \in [DOMAIN pending' -> PendingAck] /\ DOMAIN pending' \subseteq Seqs
    BY <1>1, <1>3, <1>7 DEF TypeOK, Without
  <2>2. nextAckSeq' \in 1..(MaxSeq + 1)
    BY <1>1, <1>3 DEF TypeOK
  <2>3. QED
    BY <2>1, <2>2, <1>2, <1>3, <1>11 DEF TypeOK
<1>14. Window'
  <2>1. DOMAIN pending' \subseteq k..(nextRecvSeq - 1)
    BY <1>3, <1>4, <1>7 DEF Window
  <2>2. \A i \in 1..Len(acked') : acked'[i] < k
    <3>1. \A i \in 1..Len(acked) : acked[i] < nextAckSeq /\ acked[i] \in Nat
      BY <1>3, <1>10, ElementOfSeq DEF Window, Seqs
    <3>2. QED
      BY <3>1, <1>4, <1>10, <1>11
  <2>3. QED
    BY <2>1, <2>2, <1>1, <1>2, <1>3, <1>4 DEF Window
<1>15. VerdictKept'
  BY <1>2, <1>3, <1>7 DEF VerdictKept
<1>16. AcksInOrder'
  <2> SUFFICES ASSUME NEW i \in 1..Len(acked'), NEW j \in 1..Len(acked'), i < j
               PROVE  acked'[i] < acked'[j]
    BY DEF AcksInOrder
  <2>1. CASE j <= Len(acked)
    BY <2>1, <1>3, <1>10, <1>11 DEF AcksInOrder
  <2>2. CASE i <= Len(acked) /\ j > Len(acked)
    <3>1. acked[i] < nextAckSeq /\ acked[i] \in Nat
      BY <2>2, <1>3, <1>10, ElementOfSeq DEF Window, Seqs
    <3>2. QED
      BY <3>1, <2>2, <1>4, <1>10, <1>11
  <2>3. CASE i > Len(acked)
    BY <2>3, <1>4, <1>10, <1>11
  <2>4. QED
    BY <2>1, <2>2, <2>3, <1>10
<1>17. AckedWasDecided'
  <2>1. \A s \in R : verdict[s] = "ACK"
    BY <1>3, <1>5, <1>6 DEF VerdictKept, TypeOK, PendingAck, AckDecision
  <2>2. ASSUME NEW i \in 1..Len(acked') PROVE verdict[acked'[i]] = "ACK"
    <3>1. CASE i <= Len(acked)
      BY <3>1, <1>3, <1>10, <1>11 DEF AckedWasDecided
    <3>2. CASE i > Len(acked)
      <4>1. acked'[i] \in R
        BY <3>2, <1>4, <1>10, <1>11
      <4>2. QED
        BY <4>1, <2>1
    <3>3. QED
      BY <3>1, <3>2, <1>10
  <2>3. QED
    BY <2>2, <1>2 DEF AckedWasDecided
<1>18. Accounted'
  BY <1>2, <1>3, <1>6, <1>7, <1>12 DEF Accounted
<1>19. BoundedPending'
  <2>1. /\ IsFiniteSet(DOMAIN pending') /\ Cardinality(DOMAIN pending') \in Nat
        /\ Cardinality(DOMAIN pending') <= Cardinality(DOMAIN pending)
        /\ Cardinality(DOMAIN pending) \in Nat
    BY <1>3, <1>7, FinitePending, FS_Subset, FS_CardinalityType
  <2>2. QED
    BY <2>1, <1>3 DEF BoundedPending
<1>20. QED
  BY <1>13, <1>14, <1>15, <1>16, <1>17, <1>18, <1>19 DEF IInv

\* The eviction tick takes entries out of the window and then moves its left end
\* over the holes, never past an entry that stays.
LEMMA EvictTimedOutKeepsIInv == IInv /\ evictTimedOut => IInv'
<1> SUFFICES ASSUME IInv, evictTimedOut PROVE IInv'
  OBVIOUS
<1> USE AckManagerAssumption
<1> DEFINE late == {s \in DOMAIN pending : pending[s].age = Expired}
<1>1. PICK k \in nextAckSeq..nextRecvSeq :
        /\ advanceNextAckSeq(DOMAIN pending \ late, k)
        /\ nextAckSeq' = k
  BY DEF evictTimedOut
<1>2. /\ pending' = Without(late) /\ evicted' = evicted \cup late
      /\ UNCHANGED <<nextRecvSeq, stopped, loop, acked, verdict>>
  BY DEF evictTimedOut
<1>3. TypeOK /\ Window /\ VerdictKept /\ Accounted /\ AcksInOrder /\ AckedWasDecided
      /\ BoundedPending
  BY DEF IInv
<1>4. DOMAIN pending' = DOMAIN pending \ late
      /\ \A s \in DOMAIN pending \ late : pending'[s] = pending[s]
  BY <1>2 DEF Without
<1>5. TypeOK'
  <2>1. pending' \in [DOMAIN pending' -> PendingAck] /\ DOMAIN pending' \subseteq Seqs
    BY <1>2, <1>3, <1>4 DEF TypeOK, Without
  <2>2. nextAckSeq' \in 1..(MaxSeq + 1)
    BY <1>1, <1>3 DEF TypeOK
  <2>3. QED
    BY <2>1, <2>2, <1>2, <1>3 DEF TypeOK
<1>6. Window'
  <2>1. DOMAIN pending' \subseteq k..(nextRecvSeq - 1)
    BY <1>1, <1>3, <1>4 DEF Window, advanceNextAckSeq, TypeOK
  <2>2. evicted' \subseteq 1..(nextRecvSeq - 1)
    BY <1>2, <1>3 DEF Window, TypeOK
  <2>3. \A i \in 1..Len(acked) : acked[i] < k
    <3>1. \A i \in 1..Len(acked) : acked[i] \in Nat
      BY <1>3, ElementOfSeq DEF TypeOK, Seqs
    <3>2. QED
      BY <3>1, <1>1, <1>3 DEF Window, TypeOK
  <2>4. ~stopped'
    BY DEF evictTimedOut
  <2>5. k <= nextRecvSeq
    BY <1>1, <1>3 DEF TypeOK
  <2>6. QED
    BY <2>1, <2>2, <2>3, <2>4, <2>5, <1>1, <1>2 DEF Window
<1>7. VerdictKept'
  BY <1>2, <1>3, <1>4 DEF VerdictKept
<1>8. AcksInOrder' /\ AckedWasDecided'
  BY <1>2, <1>3 DEF AcksInOrder, AckedWasDecided
<1>9. Accounted'
  <2>1. AckedSet' = AckedSet
    BY <1>2 DEF AckedSet
  <2>2. QED
    BY <2>1, <1>2, <1>3, <1>4 DEF Accounted
<1>10. BoundedPending'
  <2>1. /\ IsFiniteSet(DOMAIN pending') /\ Cardinality(DOMAIN pending') \in Nat
        /\ Cardinality(DOMAIN pending') <= Cardinality(DOMAIN pending)
        /\ Cardinality(DOMAIN pending) \in Nat
    BY <1>3, <1>4, FinitePending, FS_Subset, FS_CardinalityType
  <2>2. QED
    BY <2>1, <1>3 DEF BoundedPending
<1>11. QED
  BY <1>5, <1>6, <1>7, <1>8, <1>9, <1>10 DEF IInv

\* The loop's own life cycle and the passing of time move no sequence number.
LEMMA TickKeepsIInv == IInv /\ Tick => IInv'
<1> SUFFICES ASSUME IInv, Tick PROVE IInv'
  OBVIOUS
<1> USE AckManagerAssumption
<1>1. TypeOK /\ Window /\ VerdictKept /\ Accounted /\ AcksInOrder /\ AckedWasDecided
      /\ BoundedPending
  BY DEF IInv
<1>2. /\ DOMAIN pending' = DOMAIN pending
      /\ pending' = [s \in DOMAIN pending |->
           [pending[s] EXCEPT !.age = IF @ < Expired THEN @ + 1 ELSE @]]
      /\ UNCHANGED <<nextRecvSeq, nextAckSeq, stopped, loop, acked, evicted, verdict>>
  BY DEF Tick
<1>3. \A s \in DOMAIN pending : /\ pending'[s] \in PendingAck
                                /\ pending'[s].completed = pending[s].completed
                                /\ pending'[s].decision = pending[s].decision
  <2> TAKE s \in DOMAIN pending
  <2>1. pending[s] \in PendingAck
    BY <1>1 DEF TypeOK
  <2>2. pending'[s] = [pending[s] EXCEPT
                         !.age = IF pending[s].age < Expired THEN pending[s].age + 1
                                 ELSE pending[s].age]
    BY <1>2
  <2>3. QED
    BY <2>1, <2>2 DEF PendingAck, Expired
<1>4. TypeOK'
  <2>1. pending' \in [DOMAIN pending' -> PendingAck]
    BY <1>2, <1>3
  <2>2. QED
    BY <2>1, <1>1, <1>2 DEF TypeOK
<1>5. Window' /\ AcksInOrder' /\ AckedWasDecided' /\ BoundedPending'
  BY <1>1, <1>2 DEF Window, AcksInOrder, AckedWasDecided, BoundedPending
<1>6. VerdictKept'
  BY <1>1, <1>2, <1>3 DEF VerdictKept
<1>7. Accounted'
  BY <1>1, <1>2 DEF Accounted, AckedSet
<1>8. QED
  BY <1>4, <1>5, <1>6, <1>7 DEF IInv

\* Stop drops the entries and sends nothing, so the window may be left empty.
LEMMA StopKeepsIInv == IInv /\ Stop => IInv'
<1> SUFFICES ASSUME IInv, Stop PROVE IInv'
  OBVIOUS
<1> USE AckManagerAssumption
<1>1. TypeOK /\ Window /\ VerdictKept /\ Accounted /\ AcksInOrder /\ AckedWasDecided
      /\ BoundedPending
  BY DEF IInv
<1>2. /\ stopped' = TRUE
      /\ DOMAIN pending' = {} /\ pending' = [s \in {} |-> Fresh]
      /\ loop' \in {"ended", loop}
      /\ UNCHANGED <<nextRecvSeq, nextAckSeq, acked, evicted, verdict>>
  BY DEF Stop
<1>3. TypeOK'
  <2>1. pending' \in [DOMAIN pending' -> PendingAck] /\ loop' \in {"idle", "running", "ended"}
    BY <1>1, <1>2 DEF TypeOK
  <2>2. QED
    BY <2>1, <1>1, <1>2 DEF TypeOK
<1>4. Window' /\ VerdictKept' /\ AcksInOrder' /\ AckedWasDecided'
  BY <1>1, <1>2 DEF Window, VerdictKept, AcksInOrder, AckedWasDecided
<1>5. Accounted'
  BY <1>1, <1>2 DEF Accounted, AckedSet
<1>6. BoundedPending'
  BY <1>2, FS_EmptySet DEF BoundedPending
<1>7. QED
  BY <1>3, <1>4, <1>5, <1>6 DEF IInv

\* Starting the flush loop and cancelling it change nothing the invariant mentions.
LEMMA LoopKeepsIInv ==
  IInv /\ (FlushLoop \/ CancelLoop \/ UNCHANGED vars) => IInv'
<1> SUFFICES ASSUME IInv, FlushLoop \/ CancelLoop \/ UNCHANGED vars PROVE IInv'
  OBVIOUS
<1>1. /\ UNCHANGED <<nextRecvSeq, nextAckSeq, pending, stopped, acked, evicted, verdict>>
      /\ loop' \in {"idle", "running", "ended"}
  BY DEF FlushLoop, CancelLoop, vars, IInv, TypeOK
<1>2. QED
  BY <1>1 DEF IInv, TypeOK, Window, VerdictKept, AcksInOrder, AckedWasDecided,
     Accounted, AckedSet, BoundedPending

\* Every step of the manager keeps the invariant.
LEMMA NextKeepsIInv == IInv /\ [Next]_vars => IInv'
BY RegisterKeepsIInv, CompleteKeepsIInv, UpdateRetryToAckKeepsIInv, FlushKeepsIInv,
   EvictTimedOutKeepsIInv, TickKeepsIInv, StopKeepsIInv, LoopKeepsIInv DEF Next

\* The inductive invariant holds in every reachable state of the manager.
THEOREM IInvHolds == Spec => []IInv
BY InitIInv, NextKeepsIInv, PTL DEF Spec

\* The manager's variables keep their types.
THEOREM TypeCorrect == Spec => []TypeOK
<1>1. IInv => TypeOK
  BY DEF IInv
<1>2. QED
  BY <1>1, IInvHolds, PTL

\* PUBACKs leave in strict RecvSeq order, whatever workers and evictions do.
THEOREM OrderedAcks == Spec => []AcksInOrder
<1>1. IInv => AcksInOrder
  BY DEF IInv
<1>2. QED
  BY <1>1, IInvHolds, PTL

\* What was acknowledged lies below the window, what is held lies in it.
LEMMA WindowForbidsOvertaking == IInv => NoAckOvertakes
<1> SUFFICES ASSUME IInv, NEW i \in 1..Len(acked), NEW s \in DOMAIN pending
             PROVE  acked[i] < s
  BY DEF NoAckOvertakes
<1>1. acked[i] \in Nat /\ acked[i] < nextAckSeq
  <2>1. acked \in Seq(Seqs)
    BY DEF IInv, TypeOK
  <2>2. acked[i] \in Seqs
    BY <2>1, ElementOfSeq
  <2>3. QED
    BY <2>2 DEF IInv, Window, Seqs
<1>2. s >= nextAckSeq /\ s \in Nat /\ nextAckSeq \in Nat
  BY DEF IInv, Window, TypeOK, Seqs
<1>3. QED
  BY <1>1, <1>2

\* No PUBACK overtakes an entry that is still held.
THEOREM NoOvertaking == Spec => []NoAckOvertakes
BY WindowForbidsOvertaking, IInvHolds, PTL

\* A PUBACK is sent only for a message whose last accepted report was ACK.
THEOREM DecidedAcks == Spec => []AckedWasDecided
<1>1. IInv => AckedWasDecided
  BY DEF IInv
<1>2. QED
  BY <1>1, IInvHolds, PTL

\* Until Stop, every sequence handed out is pending, acknowledged or evicted, and
\* in one of the three only.
THEOREM EverySeqAccounted == Spec => []Accounted
<1>1. IInv => Accounted
  BY DEF IInv
<1>2. QED
  BY <1>1, IInvHolds, PTL

\* The pending map respects MaxPendingSize.
THEOREM PendingIsBounded == Spec => []BoundedPending
<1>1. IInv => BoundedPending
  BY DEF IInv
<1>2. QED
  BY <1>1, IInvHolds, PTL

\* A stopped manager neither acknowledges nor accepts anything again.
THEOREM StoppedStaysStopped == Spec => StoppedIsFinal
<1>1. ASSUME IInv, [Next]_vars
      PROVE  [stopped => stopped' /\ acked' = acked /\ pending' = pending
                /\ nextRecvSeq' = nextRecvSeq]_vars
  <2> SUFFICES ASSUME stopped, Next
               PROVE  stopped' /\ acked' = acked /\ pending' = pending
                      /\ nextRecvSeq' = nextRecvSeq
    BY <1>1
  <2>1. ~Tick
    BY <1>1 DEF Tick, IInv, Window
  <2>2. QED
    BY <2>1 DEF Next, Register, Complete, UpdateRetryToAck, Flush,
       evictTimedOut, FlushLoop, CancelLoop, Stop
<1>2. QED
  BY <1>1, IInvHolds, PTL DEF Spec, StoppedIsFinal

=============================================================================
