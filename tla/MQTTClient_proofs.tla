--------------------------- MODULE MQTTClient_proofs --------------------------
(***************************************************************************)
(* Proofs about MQTTClient: the acknowledgement manager's invariant, which *)
(* AckManager_proofs shows for one manager, survives the replacement of    *)
(* managers under the workers' hands, managers follow Start and Stop, and  *)
(* only a report about another manager's message can mislead one.          *)
(***************************************************************************)
EXTENDS MQTTClient, SequenceTheorems, TLAPS

\* What is proved of a manager, for the one the client holds.
AP == INSTANCE AckManager_proofs

-----------------------------------------------------------------------------
\* The manager of the proofs is the manager of the client: the same state ...
LEMMA SameInvariant == AM!IInv <=> AP!IInv
<1>1. AM!TypeOK <=> AP!TypeOK
  BY DEF AM!TypeOK, AP!TypeOK, AM!Seqs, AP!Seqs, AM!PendingAck, AP!PendingAck, AM!AckDecision,
         AP!AckDecision, AM!NoVerdict, AP!NoVerdict, AM!Expired, AP!Expired
<1>2. (AM!Window <=> AP!Window) /\ (AM!VerdictKept <=> AP!VerdictKept)
  BY DEF AM!Window, AP!Window, AM!VerdictKept, AP!VerdictKept
<1>3. (AM!AcksInOrder <=> AP!AcksInOrder) /\ (AM!AckedWasDecided <=> AP!AckedWasDecided)
  BY DEF AM!AcksInOrder, AP!AcksInOrder, AM!AckedWasDecided, AP!AckedWasDecided
<1>4. AM!Accounted <=> AP!Accounted
  BY DEF AM!Accounted, AP!Accounted, AM!AckedSet, AP!AckedSet
<1>5. AM!BoundedPending <=> AP!BoundedPending
  BY DEF AM!BoundedPending, AP!BoundedPending, AM!Cardinality, AP!Cardinality
<1>6. QED
  BY <1>1, <1>2, <1>3, <1>4, <1>5 DEF AM!IInv, AP!IInv

\* ... and the same steps.
LEMMA SameSteps ==
  /\ AM!Register => AP!Register
  /\ \A s, d : AM!Complete(s, d) => AP!Complete(s, d)
  /\ \A s : AM!UpdateRetryToAck(s) => AP!UpdateRetryToAck(s)
  /\ AM!Flush => AP!Flush
  /\ AM!evictTimedOut => AP!evictTimedOut
  /\ AM!FlushLoop => AP!FlushLoop
  /\ AM!CancelLoop => AP!CancelLoop
  /\ AM!Stop => AP!Stop
  /\ AM!Tick => AP!Tick
<1>1. AM!Register => AP!Register
  BY DEF AM!Register, AP!Register, AM!evictOldestIfNeeded, AP!evictOldestIfNeeded, AM!Oldest,
         AP!Oldest, AM!advanceNextAckSeq, AP!advanceNextAckSeq, AM!Fresh, AP!Fresh,
         AM!Cardinality, AP!Cardinality
<1>2. \A s, d : AM!Complete(s, d) => AP!Complete(s, d)
  BY DEF AM!Complete, AP!Complete, AM!Present, AP!Present
<1>3. \A s : AM!UpdateRetryToAck(s) => AP!UpdateRetryToAck(s)
  BY DEF AM!UpdateRetryToAck, AP!UpdateRetryToAck, AM!Present, AP!Present
<1>4. AM!Flush => AP!Flush
  BY DEF AM!Flush, AP!Flush, AM!FlushStops, AP!FlushStops, AM!Releasable, AP!Releasable,
         AM!Present, AP!Present, AM!Run, AP!Run, AM!Without, AP!Without
<1>5. AM!evictTimedOut => AP!evictTimedOut
  BY DEF AM!evictTimedOut, AP!evictTimedOut, AM!Without, AP!Without, AM!Expired, AP!Expired,
         AM!advanceNextAckSeq, AP!advanceNextAckSeq
<1>6. (AM!FlushLoop => AP!FlushLoop) /\ (AM!CancelLoop => AP!CancelLoop) /\ (AM!Stop => AP!Stop)
  BY DEF AM!FlushLoop, AP!FlushLoop, AM!CancelLoop, AP!CancelLoop, AM!Stop, AP!Stop, AM!Fresh, AP!Fresh
<1>7. AM!Tick => AP!Tick
  BY DEF AM!Tick, AP!Tick, AM!Expired, AP!Expired
<1>8. QED
  BY <1>1, <1>2, <1>3, <1>4, <1>5, <1>6, <1>7

\* A manager that was just made satisfies its invariant.
LEMMA NewManager == AM!NewAckManager /\ loop \in {"idle", "running", "ended"} => AM!IInv
<1>1. AM!NewAckManager => AP!NewAckManager
  BY DEF AM!NewAckManager, AP!NewAckManager, AM!Fresh, AP!Fresh, AM!Seqs, AP!Seqs,
         AM!NoVerdict, AP!NoVerdict
<1>2. QED
  BY <1>1, SameInvariant, AP!NewManagerIInv, MQTTClientAssumption

\* Every step of the manager that the client takes keeps the manager's invariant.
LEMMA ManagerSteps ==
  ASSUME AM!IInv,
         \/ AM!Register \/ AM!Flush \/ AM!evictTimedOut \/ AM!FlushLoop
         \/ AM!CancelLoop \/ AM!Stop \/ AM!Tick
         \/ \E s \in 1..MaxSeq, d \in AM!AckDecision : AM!Complete(s, d)
         \/ \E s \in 1..MaxSeq : AM!UpdateRetryToAck(s)
         \/ UNCHANGED manager
  PROVE  AM!IInv'
<1>1. AP!IInv
  BY SameInvariant
<1>2. AP!IInv' => AM!IInv'
  BY SameInvariant, PTL
<1>3. AP!Seqs = 1..MaxSeq /\ AP!AckDecision = AM!AckDecision
  BY DEF AP!Seqs, AP!AckDecision, AM!AckDecision
<1>4. UNCHANGED manager => UNCHANGED AP!vars
  BY DEF manager, AP!vars
<1>5. [AP!Next]_(AP!vars)
  BY <1>3, <1>4, SameSteps DEF AP!Next
<1>6. QED
  BY <1>1, <1>2, <1>5, AP!NextKeepsIInv, MQTTClientAssumption

-----------------------------------------------------------------------------
\* Before Start there is no manager and nothing to acknowledge.
LEMMA InitIInv == Init => IInv
<1> SUFFICES ASSUME Init PROVE IInv
  OBVIOUS
<1>1. AM!IInv
  <2>1. AM!NewAckManager /\ loop = "idle"
    BY DEF Init, AM!Init
  <2>2. QED
    BY <2>1, NewManager
<1>2. TypeOK
  <2>1. 0 \in 0..MaxConn /\ 0 \in 0..(MaxConn + 1)
    BY MQTTClientAssumption
  <2>2. QED
    BY <1>1, <2>1 DEF Init, NewMQTTClient, TypeOK, AM!IInv, ConnectionState, StartPc
<1>3. ClientSound
  BY DEF Init, NewMQTTClient, AM!Init, AM!NewAckManager, ClientSound
<1>4. ReportsBacked
  BY DEF Init, AM!Init, AM!NewAckManager, AM!Seqs, AM!NoVerdict, ReportsBacked
<1>5. QED
  BY <1>1, <1>2, <1>3, <1>4 DEF IInv

\* Each connection makes at most one manager more.
LEMMA ManagersBounded ==
  ASSUME NEW g \in Nat, NEW c \in 0..MaxConn, g <= c + 1
  PROVE  g \in 0..(MaxConn + 1)
BY MQTTClientAssumption

\* The invariant, taken apart for a step that leaves the workers' messages alone.
LEMMA Reassemble ==
  ASSUME IInv, AM!IInv', ClientSound', inflight' = inflight,
         state' \in ConnectionState, cstopped' \in BOOLEAN,
         startPc' \in StartPc, ctxDone' \in BOOLEAN, closing' \in BOOLEAN,
         stopPc' \in {"none", "stopping", "disconnecting", "leaving", "done"},
         link' \in {"none", "down", "opened", "up", "ended"}, conn' \in 0..MaxConn, gen' \in Nat,
         \/ verdict' = verdict /\ UNCHANGED <<gen, processed, stale>>
         \/ verdict' = [s \in 1..MaxSeq |-> AM!NoVerdict] /\ processed' = {} /\ stale' = {}
  PROVE  IInv'
<1>1. gen' \in 0..(MaxConn + 1)
  <2>1. gen' <= conn' + 1
    BY DEF ClientSound
  <2>2. QED
    BY <2>1, ManagersBounded
<1>2. processed' \subseteq 1..MaxSeq /\ stale' \subseteq 1..MaxSeq
  BY DEF IInv, TypeOK
<1>3. TypeOK'
  BY <1>1, <1>2 DEF IInv, TypeOK, AM!IInv
<1>4. ReportsBacked'
  BY DEF IInv, ReportsBacked, AM!NoVerdict
<1>5. QED
  BY <1>3, <1>4 DEF IInv

\* Making a manager: it is new, and nothing was reported to it.
LEMMA MadeManager ==
  ASSUME IInv, NEW l \in {"idle", "running"}, MakeManager(l)
  PROVE  /\ AM!IInv' /\ gen' = gen + 1 /\ gen \in Nat
         /\ loop' = l /\ stopped' = FALSE /\ DOMAIN pending' = {}
         /\ verdict' = [s \in 1..MaxSeq |-> AM!NoVerdict] /\ processed' = {} /\ stale' = {}
<1>1. (AM!NewAckManager /\ loop \in {"idle", "running", "ended"})'
  BY DEF MakeManager, AM!NewAckManager, AM!Seqs, AM!Fresh, AM!NoVerdict
<1>2. AM!IInv'
  BY <1>1, NewManager, PTL
<1>3. DOMAIN pending' = {}
  BY DEF MakeManager
<1>4. QED
  BY <1>2, <1>3, MQTTClientAssumption DEF MakeManager, IInv, TypeOK

\* Stopping the manager, or finding it stopped or not yet made: nothing is held then.
LEMMA StoppedManager ==
  ASSUME IInv, StopManager
  PROVE  /\ AM!IInv' /\ verdict' = verdict
         /\ loop' = "idle" => loop = "idle"
         /\ ~stopped' => UNCHANGED <<stopped, loop>>
         /\ DOMAIN pending' = {}
<1>1. \/ UNCHANGED manager /\ (stopped \/ gen = 0)
      \/ AM!Stop
  BY DEF StopManager
<1>2. AM!IInv'
  BY <1>1, ManagerSteps DEF IInv
<1>3. DOMAIN pending' = {}
  <2>1. AM!Stop => DOMAIN pending' = {}
    BY DEF AM!Stop
  <2>2. stopped \/ gen = 0 => DOMAIN pending = {}
    BY DEF IInv, ClientSound, AM!IInv, AM!Window
  <2>3. QED
    BY <1>1, <2>1, <2>2 DEF manager
<1>4. QED
  BY <1>1, <1>2, <1>3 DEF manager, AM!Stop

\* Start makes the first manager, whose flush loop is still to begin.
LEMMA MakeAckManagerKeepsIInv == IInv /\ MakeAckManager => IInv'
<1> SUFFICES ASSUME IInv, MakeAckManager PROVE IInv'
  OBVIOUS
<1>1. /\ AM!IInv' /\ gen' = gen + 1 /\ loop' = "idle" /\ stopped' = FALSE /\ DOMAIN pending' = {}
      /\ verdict' = [s \in 1..MaxSeq |-> AM!NoVerdict] /\ processed' = {} /\ stale' = {}
  BY MadeManager DEF MakeAckManager
<1>2. gen = 0 /\ link = "none" /\ conn \in 0..MaxConn /\ startPc' = "made"
      /\ UNCHANGED <<state, cstopped, ctxDone, stopPc, closing, link, conn, inflight>>
  BY DEF MakeAckManager, IInv, ClientSound, TypeOK
<1>3. ClientSound'
  BY <1>1, <1>2, MQTTClientAssumption DEF IInv, ClientSound
<1>4. startPc' \in StartPc
  BY <1>2 DEF StartPc
<1>5. QED
  BY <1>1, <1>2, <1>3, <1>4, Reassemble DEF IInv, TypeOK

\* Start begins the flush loop of the manager that there is by then; the end of Start's
\* context ends that loop if the manager is the first.
LEMMA LoopKeepsIInv == IInv /\ (StartFlushLoop \/ FlushLoopEnds) => IInv'
<1> SUFFICES ASSUME IInv, StartFlushLoop \/ FlushLoopEnds PROVE IInv'
  OBVIOUS
<1>1. \/ loop = "idle" /\ AM!FlushLoop /\ StartFlushLoop
      \/ loop # "idle" /\ UNCHANGED manager /\ StartFlushLoop
      \/ AM!CancelLoop /\ FlushLoopEnds
  BY DEF StartFlushLoop, FlushLoopEnds
<1>2. AM!IInv'
  BY <1>1, ManagerSteps DEF IInv
<1>3. /\ UNCHANGED <<verdict, stopped, pending>> /\ loop' # "idle"
      /\ ~stopped /\ loop' = "ended" => ctxDone /\ LoopContext
  BY <1>1 DEF AM!FlushLoop, AM!CancelLoop, FlushLoopEnds, manager, IInv, ClientSound
<1>4. /\ UNCHANGED <<state, cstopped, ctxDone, stopPc, closing, link, conn, gen, history>>
      /\ startPc' = startPc \/ (startPc = "connected" /\ startPc' = "flushing")
  BY DEF StartFlushLoop, FlushLoopEnds, client
<1>5. ClientSound'
  BY <1>3, <1>4 DEF IInv, ClientSound, LoopContext
<1>6. startPc' \in StartPc
  BY <1>4 DEF IInv, TypeOK, StartPc
<1>7. QED
  BY <1>2, <1>3, <1>4, <1>5, <1>6, MQTTClientAssumption, Reassemble DEF history, IInv, TypeOK

\* A reconnect replaces the manager only where the state still said Connected, and
\* then with one whose flush loop runs.
LEMMA ConnectionUpKeepsIInv == IInv /\ onConnectionUp => IInv'
<1> SUFFICES ASSUME IInv, onConnectionUp PROVE IInv'
  OBVIOUS
<1>0. /\ link = "opened" /\ link' = "up" /\ state' = "Connected"
      /\ UNCHANGED <<cstopped, startPc, ctxDone, stopPc, closing, conn, inflight>>
      /\ startPc \notin {"none", "begun", "made"} /\ gen \in Nat /\ gen >= 1 /\ conn \in 0..MaxConn
  BY MQTTClientAssumption DEF onConnectionUp, IInv, ClientSound, TypeOK
<1>1. CASE MakeManager("running")
  <2>1. /\ AM!IInv' /\ gen' = gen + 1 /\ loop' = "running" /\ stopped' = FALSE
        /\ DOMAIN pending' = {}
        /\ verdict' = [s \in 1..MaxSeq |-> AM!NoVerdict] /\ processed' = {} /\ stale' = {}
    BY <1>1, MadeManager
  <2>2. ClientSound'
    BY <1>0, <2>1, MQTTClientAssumption DEF IInv, ClientSound
  <2>3. QED
    BY <1>0, <2>1, <2>2, Reassemble DEF IInv, TypeOK, ConnectionState
<1>2. CASE UNCHANGED <<manager, gen, processed, stale>>
  <2>1. AM!IInv'
    BY <1>2, ManagerSteps DEF IInv
  <2>2. ClientSound'
    BY <1>0, <1>2, MQTTClientAssumption DEF IInv, ClientSound, LoopContext, manager
  <2>3. QED
    BY <1>0, <1>2, <2>1, <2>2, Reassemble DEF IInv, TypeOK, ConnectionState, manager
<1>3. QED
  BY <1>1, <1>2 DEF onConnectionUp

\* The steps that stop the manager.
LEMMA StoppingKeepsIInv == IInv /\ (onServerDisconnect \/ StopAckManager) => IInv'
<1> SUFFICES ASSUME IInv, onServerDisconnect \/ StopAckManager PROVE IInv'
  OBVIOUS
<1>1. /\ AM!IInv' /\ verdict' = verdict
      /\ loop' = "idle" => loop = "idle"
      /\ ~stopped' => UNCHANGED <<stopped, loop>>
      /\ DOMAIN pending' = {}
  BY StoppedManager DEF onServerDisconnect, StopAckManager
<1>2. /\ UNCHANGED <<startPc, ctxDone, closing, conn, gen, history, cstopped>>
      /\ link' = link \/ (link' = "down" /\ link = "up")
      /\ state' \in {state, "Disconnected"}
      /\ stopPc' = stopPc \/ (stopPc = "stopping" /\ stopPc' = "disconnecting")
  BY DEF onServerDisconnect, StopAckManager
<1>3. ClientSound'
  BY <1>1, <1>2 DEF IInv, ClientSound, LoopContext
<1>4. QED
  BY <1>1, <1>2, <1>3, MQTTClientAssumption, Reassemble
     DEF IInv, TypeOK, ConnectionState, history

\* The steps that leave the manager alone.
Untouched ==
  \/ Start \/ NewConnection \/ NewConnectionFails \/ SetConnection \/ StartFails \/ AwaitConnection
  \/ StartReturns \/ ContextEnds \/ ConnectionEnds \/ Connect \/ onConnectError \/ onClientError
  \/ Stop \/ Disconnect \/ StopReturns \/ UNCHANGED vars

LEMMA ManagerUntouched == IInv /\ Untouched => IInv'
<1> SUFFICES ASSUME IInv, Untouched PROVE IInv'
  OBVIOUS
<1> USE DEF Start, NewConnection, NewConnectionFails, SetConnection, StartFails, AwaitConnection,
            StartReturns, ContextEnds, ConnectionEnds, Connect, onConnectError, onClientError,
            Stop, Disconnect, StopReturns, vars, client
<1>1. UNCHANGED <<manager, gen, history>>
  BY DEF Untouched
<1>2. AM!IInv'
  BY <1>1, ManagerSteps DEF IInv
<1>3. /\ state' \in ConnectionState /\ cstopped' \in BOOLEAN /\ closing' \in BOOLEAN
      /\ ctxDone' \in BOOLEAN /\ (ctxDone => ctxDone')
      /\ (cstopped => cstopped') /\ (stopPc' # "none" => stopPc # "none" \/ cstopped')
  BY DEF Untouched, IInv, TypeOK, ConnectionState, HasConnection
<1>4. \/ stopPc' = stopPc
      \/ stopPc' \in {"stopping", "none"}
      \/ stopPc \in {"disconnecting", "leaving"} /\ stopPc' \in {"leaving", "done"}
  BY DEF Untouched
<1>5. \/ startPc' = startPc
      \/ startPc = "none" /\ startPc' = "begun"
      \/ startPc = "made" /\ startPc' \in {"created", "failed"}
      \/ startPc = "created" /\ startPc' = "awaiting"
      \/ startPc = "awaiting" /\ startPc' \in {"connected", "failed"}
      \/ startPc = "flushing" /\ startPc' = "done"
  BY DEF Untouched
<1>6. \/ UNCHANGED <<link, conn>>
      \/ link \in {"down", "up"} /\ link' \in {"down", "ended"} /\ conn' = conn
      \/ startPc = "made" /\ startPc' = "created" /\ link' = "down" /\ conn' = conn
      \/ link' = "opened" /\ link = "down" /\ conn' = conn + 1 /\ conn' <= MaxConn
         /\ startPc' = startPc
  BY MQTTClientAssumption DEF Untouched, IInv, TypeOK
<1>7. /\ link' \in {"none", "down", "opened", "up", "ended"} /\ conn' \in 0..MaxConn /\ gen \in Nat
      /\ startPc' \in StartPc
      /\ stopPc' \in {"none", "stopping", "disconnecting", "leaving", "done"}
  BY <1>4, <1>5, <1>6, MQTTClientAssumption DEF IInv, TypeOK, StartPc
<1>8. ClientSound'
  <2>1. UNCHANGED <<stopped, loop, gen, pending>>
    BY <1>1 DEF manager
  <2>2. conn \in Nat
    BY DEF IInv, TypeOK
  <2>3. gen \in Nat /\ gen <= conn + 1 /\ (link = "opened" => gen <= conn)
    BY <1>7 DEF IInv, ClientSound
  <2>4. gen' <= conn' + 1 /\ (link' = "opened" => gen' <= conn')
    BY <1>6, <2>1, <2>2, <2>3
  <2>5. /\ startPc' \in {"none", "begun"} => gen' = 0 /\ link' = "none"
        /\ startPc' \notin {"none", "begun"} => gen' >= 1
        /\ startPc' = "made" => link' = "none"
        /\ startPc' \in {"flushing", "done"} => loop' # "idle"
    BY <1>5, <1>6, <2>1 DEF IInv, ClientSound
  <2>6. /\ stopPc' # "none" => cstopped'
        /\ stopPc' \in {"disconnecting", "leaving", "done"} => DOMAIN pending' = {}
    BY <1>3, <1>4, <2>1 DEF IInv, ClientSound
  <2>7. /\ gen' = 0 => DOMAIN pending' = {}
        /\ ~stopped' /\ loop' = "ended" => ctxDone' /\ LoopContext'
    BY <1>3, <2>1 DEF IInv, ClientSound, LoopContext
  <2>8. QED
    BY <2>4, <2>5, <2>6, <2>7 DEF ClientSound
<1>9. QED
  BY <1>1, <1>2, <1>3, <1>7, <1>8, Reassemble DEF manager, history

\* The manager's own goroutine and the passing of time.
LEMMA ManagerRuns == IInv /\ (Flush \/ evictTimedOut \/ Tick) => IInv'
<1> SUFFICES ASSUME IInv, Flush \/ evictTimedOut \/ Tick PROVE IInv'
  OBVIOUS
<1>1. UNCHANGED <<client, history>> /\ (AM!Flush \/ AM!evictTimedOut \/ AM!Tick)
  BY DEF Flush, evictTimedOut, Tick
<1>2. AM!IInv'
  BY <1>1, ManagerSteps DEF IInv
<1>3. UNCHANGED <<stopped, loop, verdict>>
  BY <1>1 DEF AM!Flush, AM!evictTimedOut, AM!Tick
<1>4. DOMAIN pending' \subseteq DOMAIN pending
  BY <1>1 DEF AM!Flush, AM!evictTimedOut, AM!Tick, AM!Without
<1>5. ClientSound'
  BY <1>1, <1>3, <1>4 DEF IInv, ClientSound, LoopContext, client
<1>6. QED
  BY <1>1, <1>2, <1>3, <1>5, MQTTClientAssumption, Reassemble DEF IInv, TypeOK, client, history

\* A message is numbered by the manager that there is.
LEMMA PublishKeepsIInv == IInv /\ onPublishReceived => IInv'
<1> SUFFICES ASSUME IInv, onPublishReceived PROVE IInv'
  OBVIOUS
<1>1. /\ AM!Register /\ UNCHANGED <<client, processed, stale>> /\ link \in {"opened", "up"}
      /\ ~cstopped /\ inflight' = inflight \cup {[gen |-> gen, seq |-> nextRecvSeq]}
  BY DEF onPublishReceived
<1>2. AM!IInv'
  BY <1>1, ManagerSteps DEF IInv
<1>3. UNCHANGED <<stopped, loop, verdict>> /\ nextRecvSeq \in 1..MaxSeq
  BY <1>1, MQTTClientAssumption DEF AM!Register, IInv, TypeOK, AM!TypeOK
<1>4. gen \in 1..(MaxConn + 1)
  BY <1>1, MQTTClientAssumption DEF IInv, TypeOK, ClientSound
<1>5. inflight' \subseteq Messages
  BY <1>1, <1>3, <1>4 DEF IInv, TypeOK, Messages
<1>6. TypeOK'
  BY <1>1, <1>2, <1>5 DEF IInv, TypeOK, AM!IInv, client
<1>7. ClientSound'
  <2>1. stopPc = "none" /\ gen # 0
    BY <1>1, <1>4 DEF IInv, ClientSound
  <2>2. QED
    BY <1>1, <1>3, <2>1 DEF IInv, ClientSound, LoopContext, client
<1>8. ReportsBacked'
  BY <1>1, <1>3 DEF IInv, ReportsBacked
<1>9. QED
  BY <1>2, <1>6, <1>7, <1>8 DEF IInv

\* A report is remembered as its own manager's or as a stale one.
LEMMA ReportKeepsIInv ==
  ASSUME IInv, NEW m \in inflight, NEW d \in AM!AckDecision,
         \/ AckMessage(m, d)
         \/ d = "ACK" /\ UpdateRetryToAck(m)
  PROVE  IInv'
<1>0. m \in Messages /\ m.seq \in 1..MaxSeq
  BY DEF IInv, TypeOK, Messages
<1>1. /\ UNCHANGED client
      /\ \/ Finished(m)
         \/ d # "ACK" /\ UNCHANGED <<inflight, processed>>
      /\ \/ (AM!Complete(m.seq, d) \/ (d = "ACK" /\ AM!UpdateRetryToAck(m.seq))) /\ Accepted(m)
         \/ UNCHANGED <<manager, stale>>
  BY DEF AckMessage, UpdateRetryToAck, ReadsReplaced
<1>2. AM!IInv'
  BY <1>0, <1>1, ManagerSteps DEF IInv
<1>3. /\ UNCHANGED <<stopped, loop>> /\ DOMAIN pending' = DOMAIN pending
      /\ \/ verdict' = [verdict EXCEPT ![m.seq] = d] /\ Accepted(m)
         \/ UNCHANGED <<verdict, stale>>
  BY <1>1 DEF AM!Complete, AM!UpdateRetryToAck, manager
<1>4. /\ stale \subseteq stale' /\ stale' \subseteq stale \cup {m.seq}
      /\ Accepted(m) => m.gen = gen \/ m.seq \in stale'
  BY <1>3 DEF Accepted
<1>5. /\ inflight' \subseteq inflight
      /\ processed \subseteq processed' /\ processed' \subseteq processed \cup {m.seq}
      /\ d = "ACK" /\ m.gen = gen => m.seq \in processed'
  BY <1>1 DEF Finished
<1>6. TypeOK'
  BY <1>0, <1>1, <1>2, <1>4, <1>5 DEF IInv, TypeOK, AM!IInv, client
<1>7. ClientSound'
  BY <1>1, <1>3 DEF IInv, ClientSound, LoopContext, client
<1>8. ReportsBacked'
  <2> SUFFICES ASSUME NEW s \in 1..MaxSeq, verdict'[s] = "ACK"
               PROVE  s \in processed' \cup stale'
    BY DEF ReportsBacked
  <2>1. CASE verdict[s] = "ACK"
    BY <1>4, <1>5, <2>1 DEF IInv, ReportsBacked
  <2>2. CASE verdict[s] # "ACK"
    <3>1. s = m.seq /\ d = "ACK" /\ Accepted(m)
      BY <1>0, <1>3, <2>2 DEF IInv, TypeOK, AM!TypeOK, AM!Seqs
    <3>2. QED
      BY <1>4, <1>5, <3>1
  <2>3. QED
    BY <2>1, <2>2
<1>9. QED
  BY <1>2, <1>6, <1>7, <1>8 DEF IInv

\* No step of client, broker or worker breaks the invariant.
LEMMA NextKeepsIInv == IInv /\ [Next]_vars => IInv'
<1> SUFFICES ASSUME IInv, [Next]_vars PROVE IInv'
  OBVIOUS
<1>1. ASSUME NEW m \in inflight, UpdateRetryToAck(m) PROVE IInv'
  BY <1>1, ReportKeepsIInv DEF AM!AckDecision
<1>2. ASSUME NEW m \in inflight, NEW d \in AM!AckDecision, AckMessage(m, d) PROVE IInv'
  BY <1>2, ReportKeepsIInv
<1>3. QED
  BY <1>1, <1>2, MakeAckManagerKeepsIInv, LoopKeepsIInv, ConnectionUpKeepsIInv, StoppingKeepsIInv,
     ManagerUntouched, ManagerRuns, PublishKeepsIInv DEF Next, Untouched

\* The invariant holds throughout.
THEOREM IInvHolds == Spec => []IInv
BY InitIInv, NextKeepsIInv, PTL DEF Spec

\* Once Start has returned, a manager that accepts messages is flushed until the context
\* of its loop ends; once Stop has been to the manager, nothing is held.
THEOREM ManagersFollowClient == Spec => []ManagerFollowsClient
<1>1. IInv => ManagerFollowsClient
  BY DEF IInv, ClientSound, TypeOK, AM!TypeOK, ManagerFollowsClient
<1>2. QED
  BY <1>1, IInvHolds, PTL

\* Per manager PUBACKs are ordered, overtake nothing that is held and lose no number.
THEOREM AcksInOrderPerConnection == Spec => []ConnectionAcksInOrder
<1>1. AP!IInv => AP!NoAckOvertakes
  BY AP!WindowForbidsOvertaking, MQTTClientAssumption
<1>2. AP!NoAckOvertakes => AM!NoAckOvertakes
  BY DEF AP!NoAckOvertakes, AM!NoAckOvertakes
<1>3. IInv => ConnectionAcksInOrder
  BY <1>1, <1>2, SameInvariant DEF IInv, AM!IInv, ConnectionAcksInOrder
<1>4. QED
  BY <1>3, IInvHolds, PTL

\* A PUBACK nobody earned was earned by a message of another manager.
THEOREM OnlyStaleReports == Spec => []OnlyStaleReportsMislead
<1>1. ASSUME IInv PROVE OnlyStaleReportsMislead
  <2> SUFFICES ASSUME NEW i \in 1..Len(acked)
               PROVE  acked[i] \in processed \cup stale
    BY DEF OnlyStaleReportsMislead
  <2>1. acked \in Seq(1..MaxSeq) /\ verdict[acked[i]] = "ACK"
    BY <1>1 DEF IInv, AM!IInv, AM!TypeOK, AM!Seqs, AM!AckedWasDecided
  <2>2. acked[i] \in 1..MaxSeq
    BY <2>1, ElementOfSeq
  <2>3. QED
    BY <1>1, <2>1, <2>2 DEF IInv, ReportsBacked
<1>2. QED
  BY <1>1, IInvHolds, PTL

=============================================================================
