------------------------------ MODULE MQTTClient ------------------------------
(***************************************************************************)
(* The MQTT client of infrastructure/mqtt/client.go around its AckManager, *)
(* with the connection that autopaho keeps re-establishing and the workers *)
(* that report on messages whenever they are done with them.  The client   *)
(* holds one manager at a time (c.ackMgr); a replaced one was stopped, so  *)
(* the variables of AckManager stand for the current one and gen counts    *)
(* the managers made.  Callbacks are single steps; Start and Stop are cut  *)
(* at every access to what they share with them.  Start is called once.    *)
(***************************************************************************)
EXTENDS Integers, Sequences, FiniteSets

CONSTANTS
  MaxSeq, MaxPendingSize, PendingTimeout,  \* of AckManager
  MaxConn                                  \* bound: connections established

ASSUME MQTTClientAssumption ==
  /\ MaxSeq \in Nat /\ MaxPendingSize \in Nat \ {0} /\ PendingTimeout \in Nat
  /\ MaxConn \in Nat \ {0}

VARIABLES
  nextRecvSeq, nextAckSeq, pending, stopped, loop, acked, evicted, verdict,
  state,      \* c.state
  cstopped,   \* c.stopped, set together with the closing of c.stopCh
  startPc,    \* where Start is, see StartPc
  ctxDone,    \* external: the context Start was called with has ended
  stopPc,     \* where Stop is: none, stopping, disconnecting, leaving, done
  closing,    \* Stop has called c.cm.Disconnect
  link,       \* external: none (no autopaho yet), down, opened (CONNACK received),
              \* up (callback ran), ended (autopaho is done)
  conn,       \* external: how many connections were established
  gen,        \* how many managers were made; 0 while c.ackMgr is nil
  inflight,   \* external: messages handed to the handler and not yet settled
  processed,  \* history: the current manager's messages some worker finished with ACK
  stale       \* history: entries that took a report about another manager's message

manager == <<nextRecvSeq, nextAckSeq, pending, stopped, loop, acked, evicted, verdict>>
client == <<state, cstopped, startPc, ctxDone, stopPc, closing, link, conn, gen>>
history == <<inflight, processed, stale>>
vars == <<manager, client, history>>

AM == INSTANCE AckManager

-----------------------------------------------------------------------------
ConnectionState == {"Disconnected", "Connecting", "Connected"}

StartPc == {"none", "begun", "made", "created", "awaiting", "connected", "flushing", "done", "failed"}

Messages == [gen : 1..(MaxConn + 1), seq : 1..MaxSeq]

\* am.Stop(), which does nothing the second time.
StopManager == IF stopped \/ gen = 0 THEN UNCHANGED manager ELSE AM!Stop

\* Mutant: the manager is reused with its entries, its counters restarted.
Bug_ReusesManager(l) ==
  /\ nextRecvSeq' = 1 /\ nextAckSeq' = 1
  /\ stopped' = FALSE
  /\ acked' = <<>> /\ evicted' = {}
  /\ verdict' = [s \in 1..MaxSeq |-> AM!NoVerdict]
  /\ loop' = l
  /\ gen' = gen + 1
  /\ processed' = {} /\ stale' = {}
  /\ UNCHANGED pending

\* c.ackMgr = NewAckManager(...), with its flush loop in state l.
MakeManager(l) ==
  /\ nextRecvSeq' = 1 /\ nextAckSeq' = 1
  /\ pending' = [s \in {} |-> AM!Fresh]
  /\ stopped' = FALSE
  /\ acked' = <<>> /\ evicted' = {}
  /\ verdict' = [s \in 1..MaxSeq |-> AM!NoVerdict]
  /\ loop' = l
  /\ gen' = gen + 1
  /\ processed' = {} /\ stale' = {}

NewMQTTClient ==
  /\ state = "Disconnected"
  /\ cstopped = FALSE
  /\ gen = 0

Init ==
  /\ AM!Init
  /\ NewMQTTClient
  /\ startPc = "none" /\ ctxDone = FALSE
  /\ stopPc = "none" /\ closing = FALSE
  /\ link = "none" /\ conn = 0
  /\ inflight = {} /\ processed = {} /\ stale = {}

\* Start, first critical section; a stopped client is left as it is.
Start ==
  /\ startPc = "none"
  /\ ~cstopped
  /\ state' = "Connecting"
  /\ startPc' = "begun"
  /\ UNCHANGED <<manager, cstopped, ctxDone, stopPc, closing, link, conn, gen, history>>

\* The server URLs parse, as Validate has tried; the first manager is made.
MakeAckManager ==
  /\ startPc = "begun"
  /\ MakeManager("idle")
  /\ startPc' = "made"
  /\ UNCHANGED <<state, cstopped, ctxDone, stopPc, closing, link, conn, inflight>>

\* autopaho runs from here on, though c.cm does not name it yet.
NewConnection ==
  /\ startPc = "made"
  /\ link' = "down"
  /\ startPc' = "created"
  /\ UNCHANGED <<manager, state, cstopped, ctxDone, stopPc, closing, conn, gen, history>>

NewConnectionFails ==
  /\ startPc = "made"
  /\ state' = "Disconnected"
  /\ startPc' = "failed"
  /\ UNCHANGED <<manager, cstopped, ctxDone, stopPc, closing, link, conn, gen, history>>

\* c.cm = cm
SetConnection ==
  /\ startPc = "created"
  /\ startPc' = "awaiting"
  /\ UNCHANGED <<manager, state, cstopped, ctxDone, stopPc, closing, link, conn, gen, history>>

\* AwaitConnection gives up: its context has ended or autopaho was told to end.
StartFails ==
  /\ startPc = "awaiting"
  /\ ctxDone \/ closing
  /\ state' = "Disconnected"
  /\ startPc' = "failed"
  /\ UNCHANGED <<manager, cstopped, ctxDone, stopPc, closing, link, conn, gen, history>>

\* AwaitConnection returns as soon as there is a connection, before or after the
\* callback for it has run.
AwaitConnection ==
  /\ startPc = "awaiting"
  /\ link \in {"opened", "up"}
  /\ startPc' = "connected"
  /\ UNCHANGED <<manager, state, cstopped, ctxDone, stopPc, closing, link, conn, gen, history>>

\* Mutant: Start forgets the flush loop.
Bug_StartWithoutLoop ==
  /\ startPc = "connected"
  /\ startPc' = "flushing"
  /\ UNCHANGED <<manager, state, cstopped, ctxDone, stopPc, closing, link, conn, gen, history>>

\* go c.ackMgr.FlushLoop(ctx), on the manager c.ackMgr names by now; where that one
\* has a loop already, a second one changes nothing.
StartFlushLoop ==
  /\ startPc = "connected"
  /\ IF loop = "idle" THEN AM!FlushLoop ELSE UNCHANGED manager
  /\ startPc' = "flushing"
  /\ UNCHANGED <<state, cstopped, ctxDone, stopPc, closing, link, conn, gen, history>>

\* Start, last critical section.
StartReturns ==
  /\ startPc = "flushing"
  /\ state' = "Connected"
  /\ startPc' = "done"
  /\ UNCHANGED <<manager, cstopped, ctxDone, stopPc, closing, link, conn, gen, history>>

\* external: the context of Start ends, at any time after the call.
ContextEnds ==
  /\ startPc # "none"
  /\ ~ctxDone
  /\ ctxDone' = TRUE
  /\ UNCHANGED <<manager, state, cstopped, startPc, stopPc, closing, link, conn, gen, history>>

\* Only the loop that Start begins watches that context: the first manager's.
LoopContext == gen = 1

\* ctx.Done() in the loop that Start began.
FlushLoopEnds ==
  /\ ctxDone /\ LoopContext
  /\ AM!CancelLoop
  /\ UNCHANGED <<client, history>>

\* external: autopaho ends, its context done or Disconnect called.
ConnectionEnds ==
  /\ ctxDone \/ closing
  /\ link \in {"down", "up"}
  /\ link' = "ended"
  /\ UNCHANGED <<manager, state, cstopped, startPc, ctxDone, stopPc, closing, conn, gen, history>>

\* external: autopaho gets a CONNACK.
Connect ==
  /\ link = "down"
  /\ conn < MaxConn
  /\ conn' = conn + 1
  /\ link' = "opened"
  /\ UNCHANGED <<manager, state, cstopped, startPc, ctxDone, stopPc, closing, gen, history>>

\* The manager is stopped and replaced only when the state still said Connected;
\* the subscription that follows changes nothing but lastError.
onConnectionUp ==
  /\ link = "opened"
  /\ link' = "up"
  /\ state' = "Connected"
  /\ IF state = "Connected" THEN MakeManager("running") ELSE UNCHANGED <<manager, gen, processed, stale>>
  /\ UNCHANGED <<cstopped, startPc, ctxDone, stopPc, closing, conn, inflight>>

onConnectError ==
  /\ link = "down"
  /\ state' = "Connecting"
  /\ UNCHANGED <<manager, cstopped, startPc, ctxDone, stopPc, closing, link, conn, gen, history>>

\* The connection breaks; onClientError only records lastError.
onClientError ==
  /\ link = "up"
  /\ link' = "down"
  /\ UNCHANGED <<manager, state, cstopped, startPc, ctxDone, stopPc, closing, conn, gen, history>>

onServerDisconnect ==
  /\ link = "up"
  /\ link' = "down"
  /\ state' = "Disconnected"
  /\ StopManager
  /\ UNCHANGED <<cstopped, startPc, ctxDone, stopPc, closing, conn, gen, history>>

\* Neither a stopped client nor a stopped manager hands the message on.
onPublishReceived ==
  /\ link \in {"opened", "up"}
  /\ ~cstopped
  /\ AM!Register
  /\ inflight' = inflight \cup {[gen |-> gen, seq |-> nextRecvSeq]}
  /\ UNCHANGED <<client, processed, stale>>

\* A report is accepted by sequence number alone; one about a message another
\* manager numbered is remembered in stale.
Accepted(m) ==
  stale' = IF m.gen # gen THEN stale \cup {m.seq} ELSE stale

\* The worker is done with the message.
Finished(m) ==
  /\ inflight' = inflight \ {m}
  /\ processed' = IF m.gen = gen THEN processed \cup {m.seq} ELSE processed

\* Nothing orders a worker's read of c.ackMgr after its replacement: the worker of an
\* earlier manager's message may still find that one or one in between.  All of them
\* were stopped and refuse the report.
ReadsReplaced(m) == m.gen < gen /\ UNCHANGED <<manager, stale>>

\* A worker's call of AckMessage.
AckMessage(m, d) ==
  /\ \/ IF ~stopped /\ m.seq \in DOMAIN pending
        THEN AM!Complete(m.seq, d) /\ Accepted(m)
        ELSE UNCHANGED <<manager, stale>>
     \/ ReadsReplaced(m)
  /\ IF d = "ACK" THEN Finished(m) ELSE UNCHANGED <<inflight, processed>>
  /\ UNCHANGED client

\* A worker's retry succeeded.
UpdateRetryToAck(m) ==
  /\ \/ IF /\ ~stopped /\ m.seq \in DOMAIN pending
           /\ pending[m.seq].completed /\ pending[m.seq].decision = "Retry"
        THEN AM!UpdateRetryToAck(m.seq) /\ Accepted(m)
        ELSE UNCHANGED <<manager, stale>>
     \/ ReadsReplaced(m)
  /\ Finished(m)
  /\ UNCHANGED client

\* Stop, first critical section.
Stop ==
  /\ stopPc = "none"
  /\ cstopped' = TRUE
  /\ stopPc' = "stopping"
  /\ UNCHANGED <<manager, state, startPc, ctxDone, closing, link, conn, gen, history>>

\* Mutant: Stop leaves the manager to the broken connection.
Bug_StopWithoutManager ==
  /\ stopPc = "stopping"
  /\ stopPc' = "disconnecting"
  /\ UNCHANGED <<manager, state, cstopped, startPc, ctxDone, closing, link, conn, gen, history>>

StopAckManager ==
  /\ stopPc = "stopping"
  /\ StopManager
  /\ stopPc' = "disconnecting"
  /\ UNCHANGED <<state, cstopped, startPc, ctxDone, closing, link, conn, gen, history>>

\* c.cm # nil
HasConnection == startPc \in {"awaiting", "connected", "flushing", "done", "failed"} /\ link # "none"

\* Disconnect tells autopaho to end and returns when it has ended or after a timeout;
\* a Stop that overtook Start finds no connection to end.
Disconnect ==
  /\ stopPc = "disconnecting"
  /\ closing' = HasConnection
  /\ stopPc' = "leaving"
  /\ UNCHANGED <<manager, state, cstopped, startPc, ctxDone, link, conn, gen, history>>

\* Stop, last critical section.
StopReturns ==
  /\ stopPc = "leaving"
  /\ state' = "Disconnected"
  /\ stopPc' = "done"
  /\ UNCHANGED <<manager, cstopped, startPc, ctxDone, closing, link, conn, gen, history>>

\* The manager's own goroutine and the passing of time.
Flush == AM!Flush /\ UNCHANGED <<client, history>>

evictTimedOut == AM!evictTimedOut /\ UNCHANGED <<client, history>>

Tick == AM!Tick /\ UNCHANGED <<client, history>>

Next ==
  \/ Start \/ MakeAckManager \/ NewConnection \/ NewConnectionFails \/ SetConnection
  \/ StartFails \/ AwaitConnection \/ StartFlushLoop \/ StartReturns
  \/ ContextEnds \/ FlushLoopEnds \/ ConnectionEnds
  \/ Connect \/ onConnectionUp \/ onConnectError \/ onClientError
  \/ onServerDisconnect \/ onPublishReceived
  \/ \E m \in inflight, d \in AM!AckDecision : AckMessage(m, d)
  \/ \E m \in inflight : UpdateRetryToAck(m)
  \/ Stop \/ StopAckManager \/ Disconnect \/ StopReturns
  \/ Flush \/ evictTimedOut \/ Tick

Spec == Init /\ [][Next]_vars

\* The client's own code and the manager's goroutine are scheduled; the broker,
\* the network and the workers owe nothing.
FairSpec ==
  /\ Spec
  /\ WF_vars(StartFlushLoop) /\ WF_vars(StartReturns) /\ WF_vars(onConnectionUp)
  /\ WF_vars(StopAckManager) /\ WF_vars(Disconnect) /\ WF_vars(StopReturns)
  /\ WF_vars(Flush) /\ WF_vars(evictTimedOut) /\ WF_vars(Tick)

-----------------------------------------------------------------------------
\* Type correctness of the client; the manager's variables are AckManager's.
TypeOK ==
  /\ AM!TypeOK
  /\ state \in ConnectionState
  /\ cstopped \in BOOLEAN
  /\ startPc \in StartPc /\ ctxDone \in BOOLEAN
  /\ stopPc \in {"none", "stopping", "disconnecting", "leaving", "done"} /\ closing \in BOOLEAN
  /\ link \in {"none", "down", "opened", "up", "ended"}
  /\ conn \in 0..MaxConn
  /\ gen \in 0..(MaxConn + 1)
  /\ inflight \subseteq Messages
  /\ processed \subseteq 1..MaxSeq /\ stale \subseteq 1..MaxSeq

\* Whatever order Start, Stop, reconnects and disconnects come in: once Start has
\* returned, a manager that accepts messages has a running flush loop, unless it is the
\* first and its context has ended; and once Stop has been to the manager no message is
\* held, not even by a manager that a late reconnect or a late Start makes.
ManagerFollowsClient ==
  /\ TypeOK
  /\ startPc = "done" /\ ~stopped => loop = "running" \/ (ctxDone /\ LoopContext)
  /\ stopPc \in {"disconnecting", "leaving", "done"} => DOMAIN pending = {}

\* Within the life of each manager PUBACKs stay ordered, and no sequence number
\* is lost, although managers are replaced under the workers' hands.
ConnectionAcksInOrder == AM!AcksInOrder /\ AM!NoAckOvertakes /\ AM!Accounted

\* A PUBACK for a message no worker finished has one cause only: a report that was
\* about another manager's message with the same number.
OnlyStaleReportsMislead ==
  \A i \in 1..Len(acked) : acked[i] \in processed \cup stale

\* A message that is held when Start has returned is eventually settled: released,
\* evicted, or dropped with its manager, unless the context of the first manager's loop
\* has ended.
HeldMessagesSettle ==
  \A s \in 1..MaxSeq :
    (startPc = "done" /\ s \in DOMAIN pending)
      ~> (s \notin DOMAIN pending \/ (ctxDone /\ LoopContext))

\* There is a manager once Start has made it, a connection replaces it at most once, its
\* flush loop ends only when it is stopped or when Start's context ends, and nothing is
\* registered once Stop has begun.
ClientSound ==
  /\ startPc \in {"none", "begun"} => gen = 0 /\ link = "none"
  /\ startPc \notin {"none", "begun"} => gen >= 1
  /\ startPc = "made" => link = "none"
  /\ gen <= conn + 1 /\ (link = "opened" => gen <= conn)
  /\ gen = 0 => DOMAIN pending = {}
  /\ ~stopped /\ loop = "ended" => ctxDone /\ LoopContext
  /\ startPc \in {"flushing", "done"} => loop # "idle"
  /\ stopPc # "none" => cstopped
  /\ stopPc \in {"disconnecting", "leaving", "done"} => DOMAIN pending = {}

\* An ACK that the current manager accepted came from a worker that finished the
\* message, or from one that reported on another manager's message.
ReportsBacked ==
  \A s \in 1..MaxSeq : verdict[s] = "ACK" => s \in processed \cup stale

\* The inductive invariant: the manager's own, carried over every replacement, and
\* what the client adds to it.
IInv == TypeOK /\ AM!IInv /\ ClientSound /\ ReportsBacked

=============================================================================
