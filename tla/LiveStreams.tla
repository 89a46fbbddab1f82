----------------------------- MODULE LiveStreams ------------------------------
(***************************************************************************)
(* Requests for the stream of live bus updates: the limiter that admits    *)
(* them (api/http/sse.go), the goroutine that filters updates into the     *)
(* channel of a request (application/bus/usecase/stream_live_bus_updates.go)*)
(* and, from the outside, the source it reads and the handler that writes  *)
(* the channel to the client and gives the slot back.                      *)
(***************************************************************************)
EXTENDS Integers, Sequences, FiniteSets

CONSTANTS
  Requests,
  Limits,      \* the limits the server may be configured with; 0 is no limit
  Updates,     \* the updates the source may send: a bus and the route it is on
  Asked,       \* what a request may ask for: a route and a set of buses
  OutBuffer,   \* capacity of the channel, 32 in the code
  MaxUpdates,  \* bound: how many updates the source sends to one request
  Blank        \* an identifier that is empty once it is trimmed

ASSUME StreamAssumption ==
  /\ \A u \in Updates : u.bus # Blank /\ u.route # Blank
  /\ Limits \subseteq Int
  /\ OutBuffer \in Nat \ {0}
  /\ MaxUpdates \in Nat

VARIABLES
  max,     \* the limit
  active,  \* the counter of the limiter
  req      \* request -> its progress

streamVars == <<max, active, req>>

-----------------------------------------------------------------------------
\* NewLiveBusStreamFilter drops blank identifiers.
Filter(asked) == [asked EXCEPT !.buses = @ \ {Blank}]

\* A blank route, and a filter without buses, let everything through.
Matches(filter, upd) ==
  /\ filter.route \in {Blank, upd.route}
  /\ filter.buses = {} \/ upd.bus \in filter.buses

Idle ==
  [pc |-> "new", cur |-> 0, filter |-> [route |-> Blank, buses |-> {}], cancelled |-> FALSE, sent |-> 0, in |-> <<>>,
   inClosed |-> FALSE, loop |-> "none", upd |-> <<>>, out |-> <<>>, taken |-> <<>>, got |-> <<>>]

StreamInit ==
  /\ max \in Limits
  /\ active = 0
  /\ req = [r \in Requests |-> Idle]

\* Without a limit the counter is only incremented; with one its value is read first.
AcquireLoad(r) ==
  /\ req[r].pc = "new"
  /\ IF max <= 0
     THEN /\ active' = active + 1
          /\ req' = [req EXCEPT ![r].pc = "admitted"]
     ELSE /\ req' = [req EXCEPT ![r].pc = IF active >= max THEN "refused" ELSE "swap", ![r].cur = active]
          /\ UNCHANGED active
  /\ UNCHANGED max

\* Mutant: the counter is stored without comparing it.
Bug_Store(r) ==
  /\ req[r].pc = "swap"
  /\ active' = req[r].cur + 1
  /\ req' = [req EXCEPT ![r].pc = "admitted"]
  /\ UNCHANGED max

\* CompareAndSwapInt64; when the counter has moved the value is read again.
AcquireSwap(r) ==
  /\ req[r].pc = "swap"
  /\ IF active = req[r].cur
     THEN /\ active' = active + 1
          /\ req' = [req EXCEPT ![r].pc = "admitted"]
     ELSE /\ req' = [req EXCEPT ![r].pc = "new"]
          /\ UNCHANGED active
  /\ UNCHANGED max

\* Stream: subscribe, and start the goroutine.
Stream(r) ==
  /\ req[r].pc = "admitted"
  /\ \E asked \in Asked :
       req' = [req EXCEPT ![r].pc = "open", ![r].filter = Filter(asked), ![r].loop = "select"]
  /\ UNCHANGED <<max, active>>

-----------------------------------------------------------------------------
\* Mutant: the send does not wait for ctx.Done().
Bug_SendIgnoresDone(r) ==
  /\ req[r].cancelled
  /\ req[r].loop = "select"
  /\ req' = [req EXCEPT ![r].loop = "closed", ![r].upd = <<>>]
  /\ UNCHANGED <<max, active>>

\* The goroutine leaves by ctx.Done(), from either select; out is closed.
LoopDone(r) ==
  /\ req[r].cancelled
  /\ req[r].loop \in {"select", "send"}
  /\ req' = [req EXCEPT ![r].loop = "closed", ![r].upd = <<>>]
  /\ UNCHANGED <<max, active>>

\* The source's channel is closed and drained.
LoopSourceClosed(r) ==
  /\ req[r].loop = "select"
  /\ req[r].inClosed
  /\ req[r].in = <<>>
  /\ req' = [req EXCEPT ![r].loop = "closed"]
  /\ UNCHANGED <<max, active>>

LoopReceive(r) ==
  /\ req[r].loop = "select"
  /\ req[r].in # <<>>
  /\ LET upd == Head(req[r].in)
         to == IF Matches(req[r].filter, upd) THEN [loop |-> "send", upd |-> <<upd>>]
               ELSE [loop |-> "select", upd |-> <<>>]
     IN req' = [req EXCEPT ![r].in = Tail(@), ![r].taken = Append(@, upd),
                           ![r].loop = to.loop, ![r].upd = to.upd]
  /\ UNCHANGED <<max, active>>

\* Mutant: on a full channel the newest update goes first, the one it displaces after it.
Bug_SendNewest(r) ==
  /\ req[r].loop = "send"
  /\ LET full == Len(req[r].out) >= OutBuffer
     IN req' = [req EXCEPT ![r].out = (IF full THEN Tail(@) ELSE @) \o req[r].upd,
                           ![r].upd = IF full THEN <<Head(req[r].out)>> ELSE <<>>,
                           ![r].loop = IF full THEN "send" ELSE "select"]
  /\ UNCHANGED <<max, active>>

\* The send blocks while the channel is full.
LoopSend(r) ==
  /\ req[r].loop = "send"
  /\ Len(req[r].out) < OutBuffer
  /\ req' = [req EXCEPT ![r].out = @ \o req[r].upd, ![r].upd = <<>>, ![r].loop = "select"]
  /\ UNCHANGED <<max, active>>

-----------------------------------------------------------------------------
\* External: the source sends, in any number, and closes when it stops.
SourceSends(r, upd) ==
  /\ req[r].pc = "open"
  /\ ~req[r].inClosed
  /\ req[r].sent < MaxUpdates
  /\ Len(req[r].in) = 0
  /\ req' = [req EXCEPT ![r].in = <<upd>>, ![r].sent = @ + 1]
  /\ UNCHANGED <<max, active>>

SourceCloses(r) ==
  /\ req[r].pc = "open"
  /\ ~req[r].inClosed
  /\ req' = [req EXCEPT ![r].inClosed = TRUE]
  /\ UNCHANGED <<max, active>>

\* External: the client goes away, or the server cancels the request.
Disconnect(r) ==
  /\ req[r].pc = "open"
  /\ ~req[r].cancelled
  /\ req' = [req EXCEPT ![r].cancelled = TRUE]
  /\ UNCHANGED <<max, active>>

\* External: the handler writes an event to the client.
HandlerWrites(r) ==
  /\ req[r].pc = "open"
  /\ req[r].out # <<>>
  /\ req' = [req EXCEPT ![r].out = Tail(@), ![r].got = Append(@, Head(req[r].out))]
  /\ UNCHANGED <<max, active>>

\* The handler returns when the client is gone or the channel is closed and empty;
\* Release, and the context of the request ends.
Release(r) ==
  /\ req[r].pc = "open"
  /\ req[r].cancelled \/ (req[r].loop = "closed" /\ req[r].out = <<>>)
  /\ active' = active - 1
  /\ req' = [req EXCEPT ![r].pc = "ended", ![r].cancelled = TRUE]
  /\ UNCHANGED max

Loop(r) == LoopDone(r) \/ LoopSourceClosed(r) \/ LoopReceive(r) \/ LoopSend(r)

StreamNext ==
  \E r \in Requests :
    \/ AcquireLoad(r) \/ AcquireSwap(r) \/ Stream(r)
    \/ LoopDone(r) \/ LoopSourceClosed(r) \/ LoopReceive(r) \/ LoopSend(r)
    \/ \E upd \in Updates : SourceSends(r, upd)
    \/ SourceCloses(r) \/ Disconnect(r)
    \/ HandlerWrites(r) \/ Release(r)

\* A goroutine that can go on does, a select takes ctx.Done() in the end, and so does
\* the handler of a request.
StreamSpec ==
  /\ StreamInit
  /\ [][StreamNext]_streamVars
  /\ \A r \in Requests :
       /\ WF_streamVars(AcquireLoad(r) \/ AcquireSwap(r)) /\ WF_streamVars(Stream(r))
       /\ WF_streamVars(Loop(r)) /\ WF_streamVars(LoopDone(r))
       /\ WF_streamVars(HandlerWrites(r)) /\ WF_streamVars(Release(r))

-----------------------------------------------------------------------------
Holders == {r \in Requests : req[r].pc \in {"admitted", "open"}}

\* The counter is the number of requests that were admitted and have not ended, however
\* their loads and swaps interleave, and never above a limit that is set (sse.go:34).
LimiterCountsStreams ==
  /\ active = Cardinality(Holders)
  /\ max > 0 => active <= max

\* The updates of a sequence that the filter lets through, in their order.
Wanted(filter, updates) ==
  LET w[n \in 0..Len(updates)] ==
        IF n = 0 THEN <<>>
        ELSE IF Matches(filter, updates[n]) THEN Append(w[n - 1], updates[n]) ELSE w[n - 1]
  IN w[Len(updates)]

\* What the client has, finds in the channel or is about to be sent.
Shown(q) == q.got \o q.out \o q.upd

\* While the client is there, it has, is about to be sent or finds in the channel exactly
\* the updates it asked for of those the goroutine took, in their order; whatever
\* happens it never gets another, unless it asked for blank identifiers only
\* (stream_live_bus_updates.go:36, 93).
StreamsWhatWasAsked ==
  \A r \in Requests :
    LET q == req[r]
    IN /\ Len(q.out) <= OutBuffer
       /\ ~q.cancelled => Shown(q) = Wanted(q.filter, q.taken)
       /\ \E n \in 0..Len(q.taken) : Shown(q) = Wanted(q.filter, SubSeq(q.taken, 1, n))

\* "The returned channel is closed when ctx is canceled or the upstream source closes",
\* and the slot of a request that ended either way is free again
\* (stream_live_bus_updates.go:74).
StreamsAreFreed ==
  \A r \in Requests :
    (req[r].cancelled \/ req[r].inClosed) ~> (req[r].pc = "ended" /\ req[r].loop = "closed")

-----------------------------------------------------------------------------
Filters == {Filter(asked) : asked \in Asked} \cup {Idle.filter}

RequestRecord ==
  [pc : {"new", "swap", "refused", "admitted", "open", "ended"}, cur : Int, filter : Filters,
   cancelled : BOOLEAN, sent : Nat, in : Seq(Updates), inClosed : BOOLEAN,
   loop : {"none", "select", "send", "closed"}, upd : Seq(Updates), out : Seq(Updates),
   taken : Seq(Updates), got : Seq(Updates)]

StreamTypeOK == max \in Limits /\ active \in Int /\ req \in [Requests -> RequestRecord]

\* The counter was below the limit when it was loaded, and every admitted request has
\* raised it once.
LimiterSound ==
  /\ IsFiniteSet(Holders)
  /\ LimiterCountsStreams
  /\ \A r \in Requests : req[r].pc = "swap" => req[r].cur < max

\* As long as the goroutine runs, and after it when the source has closed, the client is
\* shown all it asked for; a goroutine that leaves while it sends drops that update.
StreamSound(q) ==
  /\ q.loop = "none" => q.in = <<>> /\ q.upd = <<>> /\ q.out = <<>> /\ q.taken = <<>> /\ q.got = <<>>
  /\ q.loop = "none" <=> q.pc \notin {"open", "ended"}
  /\ q.loop # "send" => q.upd = <<>>
  /\ Len(q.upd) <= 1
  /\ Len(q.out) <= OutBuffer
  /\ ~q.cancelled \/ q.loop # "closed" => Shown(q) = Wanted(q.filter, q.taken)
  /\ \E n \in 0..Len(q.taken) : q.got \o q.out = Wanted(q.filter, SubSeq(q.taken, 1, n))

\* The inductive invariant behind LimiterCountsStreams and StreamsWhatWasAsked.
StreamInv == StreamTypeOK /\ LimiterSound /\ \A r \in Requests : StreamSound(req[r])

=============================================================================
