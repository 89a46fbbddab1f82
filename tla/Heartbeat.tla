------------------------------ MODULE Heartbeat -------------------------------
(***************************************************************************)
(* The liveness key of infrastructure/mqtt/heartbeat.go: Start and Stop    *)
(* coordinate through two atomic flags, a context and a wait group, but    *)
(* the fields between them are written without a lock; Touch, called by    *)
(* the loop and by anyone else, reads and writes lastProcessed the same    *)
(* way.  Each access to shared memory or to Redis is one step.             *)
(***************************************************************************)
EXTENDS Naturals

CONSTANTS
  TTL, UpdateInterval,  \* of the configuration, in ticks
  Touchers,             \* who calls Touch: "loop", and possibly "caller"
  MaxFails,             \* bound: consecutive failures of Redis
  MaxProcessed,         \* bound: the processed counter
  Word                  \* 2^64: the range of a uint64

ASSUME HeartbeatAssumption ==
  /\ TTL \in Nat /\ UpdateInterval \in Nat \ {0} /\ 2 * UpdateInterval < TTL
  /\ "loop" \in Touchers /\ Touchers \subseteq {"loop", "caller"}
  /\ MaxFails \in Nat /\ MaxProcessed \in Nat /\ Word \in Nat /\ Word > MaxProcessed

VARIABLES
  startPc,        \* none, swapped, armed, done
  stopPc,         \* none, swapped, waiting, done
  cancelSet,      \* h.ctx and h.cancel are assigned
  ctxDone,        \* h.ctx is done
  wg,             \* the counter of h.wg
  loop,           \* none, touching, sleeping, ended
  timer,          \* ticks since the loop's ticker last fired
  keyAge,         \* external: ticks since the key was set; TTL when it is gone
  fails,          \* external: consecutive failures of Redis
  processed,      \* external: what statsProvider returns
  lastProcessed,
  newest,         \* the toucher whose now is the latest
  ahead,          \* per toucher: its now is after lastUpdateTime
  pc, got, rate,  \* per toucher: where Touch is, its processed, its throughput
  value,          \* external: what was last written to the key
  everSet,        \* history: the loop has written the key
  overlap         \* history: a Touch began while another was under way

lifecycle == <<startPc, stopPc, cancelSet, ctxDone, wg>>
stamps == <<newest, ahead, overlap>>
touch == <<lastProcessed, stamps, pc, got, rate, value, everSet>>
vars == <<lifecycle, loop, timer, keyAge, fails, processed, touch>>

Init ==
  /\ startPc = "none" /\ stopPc = "none"
  /\ cancelSet = FALSE /\ ctxDone = FALSE /\ wg = 0
  /\ loop = "none" /\ timer = 0
  /\ keyAge = TTL /\ fails = 0
  /\ processed = 0 /\ lastProcessed = 0
  /\ pc = [t \in Touchers |-> "idle"]
  /\ got = [t \in Touchers |-> 0]
  /\ rate = [t \in Touchers |-> 0]
  /\ newest = "loop" /\ ahead = [t \in Touchers |-> FALSE]
  /\ value = [processed |-> 0, rate |-> 0] /\ everSet = FALSE /\ overlap = FALSE

-----------------------------------------------------------------------------
\* now := time.Now(), the first act of Touch.
TouchBegins(t) ==
  /\ pc' = [pc EXCEPT ![t] = "begun"]
  /\ newest' = t
  /\ ahead' = [ahead EXCEPT ![t] = TRUE]
  /\ overlap' = (overlap \/ \E u \in Touchers \ {t} : pc[u] # "idle")

\* started.Swap(true); a second Start returns at once.
Start ==
  /\ startPc = "none"
  /\ startPc' = "swapped"
  /\ UNCHANGED <<stopPc, cancelSet, ctxDone, wg, loop, timer, keyAge, fails, processed, touch>>

\* h.ctx, h.cancel and h.lastUpdateTime.
StartArms ==
  /\ startPc = "swapped"
  /\ startPc' = "armed"
  /\ cancelSet' = TRUE
  /\ ahead' = [t \in Touchers |-> FALSE]
  /\ UNCHANGED <<stopPc, ctxDone, wg, loop, timer, keyAge, fails, processed,
                 lastProcessed, newest, overlap, pc, got, rate, value, everSet>>

\* h.wg.Add(1) and go h.loop(), whose first act is a Touch.
StartLoop ==
  /\ startPc = "armed"
  /\ startPc' = "done"
  /\ wg' = wg + 1
  /\ loop' = "touching"
  /\ TouchBegins("loop")
  /\ UNCHANGED <<stopPc, cancelSet, ctxDone, timer, keyAge, fails, processed,
                 lastProcessed, got, rate, value, everSet>>

\* stopped.Swap(true); a second Stop returns at once.
Stop ==
  /\ stopPc = "none"
  /\ stopPc' = "swapped"
  /\ UNCHANGED <<startPc, cancelSet, ctxDone, wg, loop, timer, keyAge, fails, processed, touch>>

\* Mutant: Stop waits without cancelling.
Bug_StopForgetsCancel ==
  /\ stopPc = "swapped"
  /\ stopPc' = "waiting"
  /\ UNCHANGED <<startPc, cancelSet, ctxDone, wg, loop, timer, keyAge, fails, processed, touch>>

\* if h.cancel != nil { h.cancel() }
StopCancels ==
  /\ stopPc = "swapped"
  /\ stopPc' = "waiting"
  /\ ctxDone' = (ctxDone \/ cancelSet)
  /\ UNCHANGED <<startPc, cancelSet, wg, loop, timer, keyAge, fails, processed, touch>>

\* h.wg.Wait()
StopReturns ==
  /\ stopPc = "waiting"
  /\ wg = 0
  /\ stopPc' = "done"
  /\ UNCHANGED <<startPc, cancelSet, ctxDone, wg, loop, timer, keyAge, fails, processed, touch>>

\* external: the context given to Start ends.
ParentDone ==
  /\ cancelSet /\ ~ctxDone
  /\ ctxDone' = TRUE
  /\ UNCHANGED <<startPc, stopPc, cancelSet, wg, loop, timer, keyAge, fails, processed, touch>>

-----------------------------------------------------------------------------
\* Somebody else calls Touch.
Touch ==
  /\ "caller" \in Touchers
  /\ pc["caller"] = "idle"
  /\ TouchBegins("caller")
  /\ UNCHANGED <<lifecycle, loop, timer, keyAge, fails, processed, lastProcessed, got, rate, value, everSet>>

\* Touch asks statsProvider.
TouchReadsStats(t) ==
  /\ pc[t] = "begun"
  /\ pc' = [pc EXCEPT ![t] = "read"]
  /\ got' = [got EXCEPT ![t] = processed]
  /\ UNCHANGED <<lifecycle, loop, timer, keyAge, fails, processed, lastProcessed,
                 stamps, rate, value, everSet>>

\* Mutant: the difference is taken the wrong way round.
Bug_RateReversed(t) ==
  IF ahead[t] /\ lastProcessed > 0 THEN (lastProcessed + Word - got[t]) % Word ELSE 0

\* processed - h.lastProcessed in uint64, taken over one unit of time, if time has
\* passed since lastUpdateTime.
Throughput(t) ==
  IF ahead[t] /\ lastProcessed > 0 THEN (got[t] + Word - lastProcessed) % Word ELSE 0

TouchComputes(t) ==
  /\ pc[t] = "read"
  /\ pc' = [pc EXCEPT ![t] = "computed"]
  /\ rate' = [rate EXCEPT ![t] = Throughput(t)]
  /\ UNCHANGED <<lifecycle, loop, timer, keyAge, fails, processed, lastProcessed,
                 stamps, got, value, everSet>>

\* The loop goes back to its select, whatever Touch returned.
Returned(t) == loop' = IF t = "loop" THEN "sleeping" ELSE loop

\* Mutant: a key that exists keeps its expiry.
Bug_SetKeepsExpiry(t) ==
  /\ pc[t] = "computed"
  /\ pc' = [pc EXCEPT ![t] = "set"]
  /\ keyAge' = IF keyAge = TTL THEN 0 ELSE keyAge
  /\ fails' = 0
  /\ value' = [processed |-> got[t], rate |-> rate[t]]
  /\ everSet' = (everSet \/ t = "loop")
  /\ UNCHANGED <<lifecycle, loop, timer, processed, lastProcessed, stamps, got, rate>>

\* Redis answers the SET.
TouchSets(t) ==
  /\ pc[t] = "computed"
  /\ pc' = [pc EXCEPT ![t] = "set"]
  /\ keyAge' = 0
  /\ fails' = 0
  /\ value' = [processed |-> got[t], rate |-> rate[t]]
  /\ everSet' = (everSet \/ t = "loop")
  /\ UNCHANGED <<lifecycle, loop, timer, processed, lastProcessed, stamps, got, rate>>

\* Redis does not answer, or the loop's context is done.
TouchFails(t) ==
  /\ pc[t] = "computed"
  /\ \/ fails < MaxFails /\ fails' = fails + 1
     \/ t = "loop" /\ ctxDone /\ UNCHANGED fails
  /\ pc' = [pc EXCEPT ![t] = "idle"]
  /\ Returned(t)
  /\ UNCHANGED <<lifecycle, timer, keyAge, processed, lastProcessed,
                 stamps, got, rate, value, everSet>>

\* Both tracking fields; lastUpdateTime becomes this Touch's now, which the other
\* toucher's may precede.
TouchUpdates(t) ==
  /\ pc[t] = "set"
  /\ pc' = [pc EXCEPT ![t] = "idle"]
  /\ lastProcessed' = got[t]
  /\ ahead' = [u \in Touchers |-> u # t /\ newest = u]
  /\ Returned(t)
  /\ UNCHANGED <<lifecycle, timer, keyAge, fails, processed, newest, overlap, got, rate,
                 value, everSet>>

\* case <-ticker.C
TickerFires ==
  /\ loop = "sleeping"
  /\ timer = UpdateInterval
  /\ timer' = 0
  /\ loop' = "touching"
  /\ TouchBegins("loop")
  /\ UNCHANGED <<lifecycle, keyAge, fails, processed, lastProcessed, got, rate,
                 value, everSet>>

\* case <-h.ctx.Done(), and the deferred wg.Done.
LoopEnds ==
  /\ loop = "sleeping"
  /\ ctxDone
  /\ loop' = "ended"
  /\ wg' = wg - 1
  /\ UNCHANGED <<startPc, stopPc, cancelSet, ctxDone, timer, keyAge, fails, processed, touch>>

\* external: a message is processed.
Process ==
  /\ processed < MaxProcessed
  /\ processed' = processed + 1
  /\ UNCHANGED <<lifecycle, loop, timer, keyAge, fails, touch>>

\* Time passes while the loop sleeps; a Touch of the loop takes less than a tick.
Tick ==
  /\ loop = "sleeping" => timer < UpdateInterval
  /\ loop # "touching"
  /\ loop = "sleeping" \/ keyAge < TTL
  /\ timer' = IF loop = "sleeping" THEN timer + 1 ELSE timer
  /\ keyAge' = IF keyAge < TTL THEN keyAge + 1 ELSE keyAge
  /\ UNCHANGED <<lifecycle, loop, fails, processed, touch>>

TouchSteps(t) ==
  TouchReadsStats(t) \/ TouchComputes(t) \/ TouchSets(t) \/ TouchFails(t) \/ TouchUpdates(t)

Next ==
  \/ Start \/ StartArms \/ StartLoop
  \/ Stop \/ StopCancels \/ StopReturns \/ ParentDone
  \/ Touch
  \/ \E t \in Touchers : TouchReadsStats(t)
  \/ \E t \in Touchers : TouchComputes(t)
  \/ \E t \in Touchers : TouchSets(t)
  \/ \E t \in Touchers : TouchFails(t)
  \/ \E t \in Touchers : TouchUpdates(t)
  \/ TickerFires \/ LoopEnds
  \/ Process \/ Tick

Spec == Init /\ [][Next]_vars

\* Goroutines that can run do; a select that can always take ctx.Done eventually
\* does; nobody has to call Start, Stop or Touch.
FairSpec ==
  /\ Spec
  /\ WF_vars(StartArms) /\ WF_vars(StartLoop)
  /\ WF_vars(StopCancels) /\ WF_vars(StopReturns)
  /\ WF_vars(TouchSteps("loop")) /\ WF_vars(TickerFires) /\ SF_vars(LoopEnds)
  /\ WF_vars(Tick)

-----------------------------------------------------------------------------
\* Type correctness.
TypeOK ==
  /\ startPc \in {"none", "swapped", "armed", "done"}
  /\ stopPc \in {"none", "swapped", "waiting", "done"}
  /\ cancelSet \in BOOLEAN /\ ctxDone \in BOOLEAN /\ wg \in 0..1
  /\ loop \in {"none", "touching", "sleeping", "ended"}
  /\ timer \in 0..UpdateInterval /\ keyAge \in 0..TTL /\ fails \in 0..MaxFails
  /\ processed \in 0..MaxProcessed /\ lastProcessed \in 0..MaxProcessed
  /\ pc \in [Touchers -> {"idle", "begun", "read", "computed", "set"}]
  /\ got \in [Touchers -> 0..MaxProcessed]
  /\ rate \in [Touchers -> 0..(Word - 1)] 
  /\ newest \in Touchers /\ ahead \in [Touchers -> BOOLEAN]
  /\ value \in [processed : 0..MaxProcessed, rate : 0..(Word - 1)] /\ everSet \in BOOLEAN
  /\ overlap \in BOOLEAN

\* "shorter than TTL/2 to ensure continuous presence" (heartbeat.go:36): with such an
\* interval, one failed update between two good ones never lets the key of a running
\* loop expire, so downstream services see no false failure.
KeySurvivesOneFailure == TypeOK /\ (everSet /\ loop # "ended" /\ ~ctxDone => keyAge < TTL)

\* A published throughput exceeds what was ever processed, by the unsigned difference
\* of Touch wrapping, for one reason only: two Touch calls overlapped.
ThroughputIsProgress == value.rate <= processed \/ overlap

\* A Stop that begins once Start has published its cancel function always returns: the
\* loop it waits for was told to end, whatever Redis and other callers of Touch do.
StopReturnsEventually == (stopPc = "swapped" /\ cancelSet) ~> (stopPc = "done")

-----------------------------------------------------------------------------
\* The inductive invariant.  The loop runs from the end of Start to its wg.Done, and its
\* ticker stands still while it touches.
LoopSound ==
  /\ loop = "none" <=> startPc # "done"
  /\ wg = 1 <=> loop \in {"touching", "sleeping"}
  /\ loop = "touching" <=> pc["loop"] # "idle"
  /\ loop \in {"none", "touching"} => timer = 0
  /\ everSet => loop # "none"

\* How old the key may be after n failures in a row.
Budget(n) == n * UpdateInterval

\* Each interval that has passed without an update has cost one failure.
KeySound ==
  everSet /\ loop # "ended" /\ ~ctxDone =>
    /\ loop = "sleeping" => keyAge <= Budget(fails) + timer
    /\ loop = "touching" /\ pc["loop"] # "set" => keyAge <= Budget(fails) + UpdateInterval
    /\ loop = "touching" /\ pc["loop"] = "set" => keyAge <= Budget(fails)

\* Touch calls that do not overlap see lastProcessed grow.
RateSound ==
  overlap \/
    /\ \A t, u \in Touchers : pc[t] # "idle" /\ pc[u] # "idle" => t = u
    /\ lastProcessed <= processed /\ value.rate <= processed
    /\ \A t \in Touchers :
         /\ got[t] <= processed
         /\ pc[t] \in {"read", "computed", "set"} => lastProcessed <= got[t]
         /\ pc[t] \in {"computed", "set"} => rate[t] <= processed

IInv == TypeOK /\ LoopSound /\ KeySound /\ RateSound

=============================================================================
