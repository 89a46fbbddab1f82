--------------------------- MODULE Heartbeat_proofs ---------------------------
(***************************************************************************)
(* Theorems about Heartbeat, for any interval, time to live and number of  *)
(* failures: how old the key of a running loop may be, and when a          *)
(* published throughput may be trusted.                                    *)
(***************************************************************************)
EXTENDS Heartbeat, TLAPS

-----------------------------------------------------------------------------
\* Arithmetic.

\* A failure more is an interval more.
LEMMA BudgetStep ==
  ASSUME NEW n \in Nat
  PROVE  /\ Budget(n) \in Nat /\ Budget(0) = 0
         /\ Budget(n + 1) = Budget(n) + UpdateInterval
BY HeartbeatAssumption DEF Budget

\* Fewer failures leave a younger key.
LEMMA BudgetMonotone ==
  ASSUME NEW m \in Nat, NEW n \in Nat, m <= n
  PROVE  Budget(m) <= Budget(n)
BY HeartbeatAssumption DEF Budget

\* A difference of counters that does not go below zero does not wrap.
LEMMA NoWrap ==
  ASSUME NEW w \in Nat, NEW d \in Nat, d < w
  PROVE  (w + d) % w = d
OBVIOUS

\* An unsigned difference is a word.
LEMMA WrapIsWord ==
  ASSUME NEW w \in Nat, w > 0, NEW x \in Nat
  PROVE  x % w \in 0..(w - 1)
OBVIOUS

-----------------------------------------------------------------------------
\* The four parts of the inductive invariant.

\* Types; the wait group never goes below zero.
LEMMA StepKeepsType ==
  ASSUME TypeOK, LoopSound, [Next]_vars
  PROVE  TypeOK'
<1>. USE DEF lifecycle, touch, stamps
<1>1. CASE Start
  BY <1>1 DEF Start, TypeOK
<1>2. CASE StartArms
  BY <1>2 DEF StartArms, TypeOK
<1>3. CASE StartLoop
  BY <1>3, HeartbeatAssumption DEF StartLoop, TouchBegins, TypeOK, LoopSound
<1>4. CASE Stop
  BY <1>4 DEF Stop, TypeOK
<1>5. CASE StopCancels
  BY <1>5 DEF StopCancels, TypeOK
<1>6. CASE StopReturns
  BY <1>6 DEF StopReturns, TypeOK
<1>7. CASE ParentDone
  BY <1>7 DEF ParentDone, TypeOK
<1>8. CASE Touch
  BY <1>8, HeartbeatAssumption DEF Touch, TouchBegins, TypeOK
<1>9. CASE \E t \in Touchers : TouchReadsStats(t)
  BY <1>9 DEF TouchReadsStats, TypeOK
<1>10. CASE \E t \in Touchers : TouchComputes(t)
  <2>1. PICK t \in Touchers : TouchComputes(t)
    BY <1>10
  <2>2. PICK w : w = Throughput(t)
    OBVIOUS
  <2>3. w \in 0..(Word - 1)
    <3>1. got[t] \in Nat /\ lastProcessed \in Nat /\ lastProcessed < Word
      BY HeartbeatAssumption DEF TypeOK
    <3>2. got[t] + Word - lastProcessed \in Nat
      BY <3>1, HeartbeatAssumption
    <3>3. (got[t] + Word - lastProcessed) % Word \in 0..(Word - 1)
      BY <3>2, WrapIsWord, HeartbeatAssumption
    <3>4. 0 \in 0..(Word - 1)
      BY HeartbeatAssumption
    <3>. QED BY <2>2, <3>3, <3>4 DEF Throughput
  <2>. QED BY <2>1, <2>2, <2>3 DEF TouchComputes, TypeOK
<1>11. CASE \E t \in Touchers : TouchSets(t)
  BY <1>11, HeartbeatAssumption DEF TouchSets, TypeOK
<1>12. CASE \E t \in Touchers : TouchFails(t)
  BY <1>12, HeartbeatAssumption DEF TouchFails, Returned, TypeOK
<1>13. CASE \E t \in Touchers : TouchUpdates(t)
  BY <1>13 DEF TouchUpdates, Returned, TypeOK
<1>14. CASE TickerFires
  BY <1>14, HeartbeatAssumption DEF TickerFires, TouchBegins, TypeOK
<1>15. CASE LoopEnds
  BY <1>15, HeartbeatAssumption DEF LoopEnds, TypeOK, LoopSound
<1>16. CASE Process
  BY <1>16, HeartbeatAssumption DEF Process, TypeOK
<1>17. CASE Tick
  BY <1>17, HeartbeatAssumption DEF Tick, TypeOK
<1>18. CASE UNCHANGED vars
  BY <1>18 DEF vars, TypeOK
<1>. QED BY <1>1, <1>2, <1>3, <1>4, <1>5, <1>6, <1>7, <1>8, <1>9, <1>10, <1>11, <1>12, <1>13, <1>14, <1>15, <1>16, <1>17, <1>18 DEF Next

\* The loop's own progress.
LEMMA StepKeepsLoop ==
  ASSUME TypeOK, LoopSound, [Next]_vars
  PROVE  LoopSound'
<1>. USE DEF lifecycle, touch, stamps
<1>1. CASE Start
  BY <1>1 DEF Start, TypeOK, LoopSound
<1>2. CASE StartArms
  BY <1>2 DEF StartArms, TypeOK, LoopSound
<1>3. CASE StartLoop
  BY <1>3, HeartbeatAssumption DEF StartLoop, TouchBegins, TypeOK, LoopSound
<1>4. CASE Stop
  BY <1>4 DEF Stop, TypeOK, LoopSound
<1>5. CASE StopCancels
  BY <1>5 DEF StopCancels, TypeOK, LoopSound
<1>6. CASE StopReturns
  BY <1>6 DEF StopReturns, TypeOK, LoopSound
<1>7. CASE ParentDone
  BY <1>7 DEF ParentDone, TypeOK, LoopSound
<1>8. CASE Touch
  BY <1>8, HeartbeatAssumption DEF Touch, TouchBegins, TypeOK, LoopSound
<1>9. CASE \E t \in Touchers : TouchReadsStats(t)
  BY <1>9, HeartbeatAssumption DEF TouchReadsStats, TypeOK, LoopSound
<1>10. CASE \E t \in Touchers : TouchComputes(t)
  BY <1>10, HeartbeatAssumption DEF TouchComputes, TypeOK, LoopSound
<1>11. CASE \E t \in Touchers : TouchSets(t)
  BY <1>11, HeartbeatAssumption DEF TouchSets, TypeOK, LoopSound
<1>12. CASE \E t \in Touchers : TouchFails(t)
  BY <1>12, HeartbeatAssumption DEF TouchFails, Returned, TypeOK, LoopSound
<1>13. CASE \E t \in Touchers : TouchUpdates(t)
  BY <1>13, HeartbeatAssumption DEF TouchUpdates, Returned, TypeOK, LoopSound
<1>14. CASE TickerFires
  BY <1>14, HeartbeatAssumption DEF TickerFires, TouchBegins, TypeOK, LoopSound
<1>15. CASE LoopEnds
  BY <1>15, HeartbeatAssumption DEF LoopEnds, TypeOK, LoopSound
<1>16. CASE Process
  BY <1>16 DEF Process, TypeOK, LoopSound
<1>17. CASE Tick
  BY <1>17, HeartbeatAssumption DEF Tick, TypeOK, LoopSound
<1>18. CASE UNCHANGED vars
  BY <1>18 DEF vars, TypeOK, LoopSound
<1>. QED BY <1>1, <1>2, <1>3, <1>4, <1>5, <1>6, <1>7, <1>8, <1>9, <1>10, <1>11, <1>12, <1>13, <1>14, <1>15, <1>16, <1>17, <1>18 DEF Next

\* The age of the key: time costs nothing but failures.
LEMMA StepKeepsKey ==
  ASSUME TypeOK, LoopSound, KeySound, [Next]_vars
  PROVE  KeySound'
<1>. USE DEF lifecycle, touch, stamps
<1>1. CASE Start
  BY <1>1 DEF Start, TypeOK, LoopSound, KeySound
<1>2. CASE StartArms
  BY <1>2 DEF StartArms, TypeOK, LoopSound, KeySound
<1>3. CASE StartLoop
  BY <1>3, HeartbeatAssumption DEF StartLoop, TouchBegins, TypeOK, LoopSound, KeySound
<1>4. CASE Stop
  BY <1>4 DEF Stop, TypeOK, LoopSound, KeySound
<1>5. CASE StopCancels
  BY <1>5 DEF StopCancels, TypeOK, LoopSound, KeySound
<1>6. CASE StopReturns
  BY <1>6 DEF StopReturns, TypeOK, LoopSound, KeySound
<1>7. CASE ParentDone
  BY <1>7 DEF ParentDone, TypeOK, LoopSound, KeySound
<1>8. CASE Touch
  BY <1>8, HeartbeatAssumption DEF Touch, TouchBegins, TypeOK, LoopSound, KeySound
<1>9. CASE \E t \in Touchers : TouchReadsStats(t)
  BY <1>9, HeartbeatAssumption DEF TouchReadsStats, TypeOK, LoopSound, KeySound
<1>10. CASE \E t \in Touchers : TouchComputes(t)
  BY <1>10, HeartbeatAssumption DEF TouchComputes, TypeOK, LoopSound, KeySound
<1>11. CASE \E t \in Touchers : TouchSets(t)
  <2>1. PICK t \in Touchers : TouchSets(t)
    BY <1>11
  <2>. fails \in Nat /\ timer \in Nat /\ keyAge \in Nat /\ UpdateInterval \in Nat
    BY HeartbeatAssumption DEF TypeOK
  <2>. Budget(fails) \in Nat
    BY BudgetStep
  <2>2. keyAge' = 0 /\ fails' = 0 /\ timer' = timer
    BY <2>1 DEF TouchSets
  <2>3. Budget(0) = 0
    BY BudgetStep
  <2>. QED BY <2>2, <2>3, HeartbeatAssumption DEF KeySound
<1>12. CASE \E t \in Touchers : TouchFails(t)
  <2>1. PICK t \in Touchers : TouchFails(t)
    BY <1>12
  <2>. fails \in Nat /\ timer \in Nat /\ keyAge \in Nat /\ UpdateInterval \in Nat
    BY HeartbeatAssumption DEF TypeOK
  <2>. Budget(fails) \in Nat
    BY BudgetStep
  <2>2. SUFFICES ASSUME everSet, loop' # "ended", ~ctxDone PROVE KeySound'
    BY <2>1 DEF TouchFails, KeySound
  <2>3. CASE t = "loop"
    <3>1. loop = "touching" /\ pc["loop"] # "set" /\ timer = 0
      BY <2>1, <2>3 DEF TouchFails, LoopSound
    <3>2. keyAge <= Budget(fails) + UpdateInterval
      BY <2>2, <3>1 DEF KeySound
    <3>3. fails' = fails + 1 /\ keyAge' = keyAge /\ timer' = 0 /\ loop' = "sleeping"
      BY <2>1, <2>2, <2>3, <3>1 DEF TouchFails, Returned
    <3>4. Budget(fails') = Budget(fails) + UpdateInterval
      BY <3>3, BudgetStep
    <3>. QED BY <3>2, <3>3, <3>4 DEF KeySound
  <2>4. CASE t # "loop"
    <3>1. fails' \in Nat /\ fails <= fails' /\ loop' = loop /\ pc'["loop"] = pc["loop"]
          /\ keyAge' = keyAge /\ timer' = timer
      BY <2>1, <2>4, HeartbeatAssumption DEF TouchFails, Returned, TypeOK
    <3>2. Budget(fails) <= Budget(fails') /\ Budget(fails') \in Nat
      BY <3>1, BudgetMonotone, BudgetStep
    <3>3. UNCHANGED <<everSet, ctxDone>>
      BY <2>1 DEF TouchFails
    <3>4. /\ loop = "sleeping" => keyAge <= Budget(fails) + timer
          /\ loop = "touching" /\ pc["loop"] # "set" => keyAge <= Budget(fails) + UpdateInterval
          /\ loop = "touching" /\ pc["loop"] = "set" => keyAge <= Budget(fails)
      BY <2>2, <3>1 DEF KeySound
    <3>5. /\ keyAge <= Budget(fails) + timer => keyAge' <= Budget(fails') + timer'
          /\ keyAge <= Budget(fails) + UpdateInterval => keyAge' <= Budget(fails') + UpdateInterval
          /\ keyAge <= Budget(fails) => keyAge' <= Budget(fails')
      BY <3>1, <3>2
    <3>. QED BY <3>1, <3>4, <3>5 DEF KeySound
  <2>. QED BY <2>3, <2>4
<1>13. CASE \E t \in Touchers : TouchUpdates(t)
  <2>1. PICK t \in Touchers : TouchUpdates(t)
    BY <1>13
  <2>. fails \in Nat /\ timer \in Nat /\ keyAge \in Nat /\ UpdateInterval \in Nat
    BY HeartbeatAssumption DEF TypeOK
  <2>. Budget(fails) \in Nat
    BY BudgetStep
  <2>2. UNCHANGED <<everSet, ctxDone, fails, keyAge, timer>>
    BY <2>1 DEF TouchUpdates
  <2>3. CASE t = "loop"
    <3>1. pc["loop"] = "set" /\ loop = "touching" /\ loop' = "sleeping"
      BY <2>1, <2>3 DEF TouchUpdates, Returned, LoopSound
    <3>. QED BY <2>2, <3>1 DEF KeySound
  <2>4. CASE t # "loop"
    <3>1. loop' = loop /\ pc'["loop"] = pc["loop"]
      BY <2>1, <2>4, HeartbeatAssumption DEF TouchUpdates, Returned, TypeOK
    <3>. QED BY <2>2, <3>1 DEF KeySound
  <2>. QED BY <2>3, <2>4
<1>14. CASE TickerFires
  BY <1>14, HeartbeatAssumption DEF TickerFires, TouchBegins, TypeOK, LoopSound, KeySound
<1>15. CASE LoopEnds
  BY <1>15 DEF LoopEnds, TypeOK, LoopSound, KeySound
<1>16. CASE Process
  BY <1>16 DEF Process, TypeOK, LoopSound, KeySound
<1>17. CASE Tick
  <2>. fails \in Nat /\ timer \in Nat /\ keyAge \in Nat /\ UpdateInterval \in Nat
    BY HeartbeatAssumption DEF TypeOK
  <2>. Budget(fails) \in Nat
    BY BudgetStep
  <2>1. UNCHANGED <<everSet, ctxDone, fails, loop, pc>> /\ loop # "touching"
    BY <1>17 DEF Tick
  <2>2. CASE loop = "sleeping"
    <3>1. timer' = timer + 1 /\ keyAge' <= keyAge + 1
      BY <1>17, <2>2 DEF Tick
    <3>2. keyAge' \in Nat
      BY <1>17 DEF Tick
    <3>3. keyAge <= Budget(fails) + timer => keyAge' <= Budget(fails) + timer'
      BY <3>1, <3>2
    <3>. QED BY <2>1, <2>2, <3>3 DEF KeySound
  <2>3. CASE loop # "sleeping"
    BY <2>1, <2>3 DEF KeySound
  <2>. QED BY <2>2, <2>3
<1>18. CASE UNCHANGED vars
  BY <1>18 DEF vars, TypeOK, LoopSound, KeySound
<1>. QED BY <1>1, <1>2, <1>3, <1>4, <1>5, <1>6, <1>7, <1>8, <1>9, <1>10, <1>11, <1>12, <1>13, <1>14, <1>15, <1>16, <1>17, <1>18 DEF Next

\* A Touch that begins beside another is an overlap; alone, it has read nothing yet.
LEMMA BeginKeepsRate ==
  ASSUME TypeOK, RateSound, NEW t \in Touchers, TouchBegins(t),
         UNCHANGED <<processed, lastProcessed, got, rate, value>>
  PROVE  RateSound'
<1>1. SUFFICES ASSUME ~overlap' PROVE RateSound'
  BY DEF RateSound
<1>2. ~overlap /\ (\A u \in Touchers \ {t} : pc[u] = "idle")
  BY <1>1 DEF TouchBegins
<1>3. pc' = [pc EXCEPT ![t] = "begun"] /\ DOMAIN pc = Touchers
  BY DEF TouchBegins, TypeOK
<1>4. pc'[t] = "begun" /\ (\A u \in Touchers \ {t} : pc'[u] = "idle")
  BY <1>2, <1>3
<1>. QED BY <1>2, <1>4 DEF RateSound

\* Touch calls that do not overlap: each reads a counter that is not behind the one
\* its predecessor left.
LEMMA StepKeepsRate ==
  ASSUME TypeOK, RateSound, [Next]_vars
  PROVE  RateSound'
<1>. USE DEF lifecycle, touch, stamps
<1>1. CASE Start
  BY <1>1 DEF Start, TypeOK, RateSound
<1>2. CASE StartArms
  BY <1>2 DEF StartArms, TypeOK, RateSound
<1>3. CASE StartLoop
  BY <1>3, BeginKeepsRate, HeartbeatAssumption DEF StartLoop
<1>4. CASE Stop
  BY <1>4 DEF Stop, TypeOK, RateSound
<1>5. CASE StopCancels
  BY <1>5 DEF StopCancels, TypeOK, RateSound
<1>6. CASE StopReturns
  BY <1>6 DEF StopReturns, TypeOK, RateSound
<1>7. CASE ParentDone
  BY <1>7 DEF ParentDone, TypeOK, RateSound
<1>8. CASE Touch
  BY <1>8, BeginKeepsRate, HeartbeatAssumption DEF Touch
<1>9. CASE \E t \in Touchers : TouchReadsStats(t)
  BY <1>9, HeartbeatAssumption DEF TouchReadsStats, TypeOK, RateSound
<1>10. CASE \E t \in Touchers : TouchComputes(t)
  <2>1. PICK t \in Touchers : TouchComputes(t)
    BY <1>10
  <2>2. SUFFICES ASSUME ~overlap PROVE RateSound'
    BY <2>1 DEF TouchComputes, RateSound
  <2>3. /\ \A u, v \in Touchers : pc[u] # "idle" /\ pc[v] # "idle" => u = v
        /\ lastProcessed <= processed /\ value.rate <= processed
        /\ \A u \in Touchers :
             /\ got[u] <= processed
             /\ pc[u] \in {"read", "computed", "set"} => lastProcessed <= got[u]
             /\ pc[u] \in {"computed", "set"} => rate[u] <= processed
    BY <2>2 DEF RateSound
  <2>4. PICK w : w = Throughput(t)
    OBVIOUS
  <2>5. w <= processed
    <3>1. /\ got[t] \in Nat /\ lastProcessed \in Nat /\ processed \in Nat /\ Word \in Nat
          /\ got[t] < Word /\ lastProcessed <= got[t] /\ got[t] <= processed
      BY <2>1, <2>3, HeartbeatAssumption DEF TouchComputes, TypeOK
    <3>2. PICK d \in Nat : d = got[t] - lastProcessed
      BY <3>1
    <3>3. d < Word /\ d <= processed /\ got[t] + Word - lastProcessed = Word + d
      BY <3>1, <3>2
    <3>4. (got[t] + Word - lastProcessed) % Word = d
      BY <3>1, <3>3, NoWrap
    <3>. QED BY <2>4, <3>1, <3>3, <3>4 DEF Throughput
  <2>6. /\ pc' = [pc EXCEPT ![t] = "computed"] /\ rate' = [rate EXCEPT ![t] = w]
        /\ pc[t] = "read"
        /\ UNCHANGED <<processed, lastProcessed, got, value>>
    BY <2>1, <2>4 DEF TouchComputes
  <2>7. pc \in [Touchers -> {"idle", "begun", "read", "computed", "set"}]
        /\ rate \in [Touchers -> 0..(Word - 1)]
    BY DEF TypeOK
  <2>. QED BY <2>3, <2>5, <2>6, <2>7 DEF RateSound
<1>11. CASE \E t \in Touchers : TouchSets(t)
  BY <1>11, HeartbeatAssumption DEF TouchSets, TypeOK, RateSound
<1>12. CASE \E t \in Touchers : TouchFails(t)
  BY <1>12, HeartbeatAssumption DEF TouchFails, Returned, TypeOK, RateSound
<1>13. CASE \E t \in Touchers : TouchUpdates(t)
  BY <1>13, HeartbeatAssumption DEF TouchUpdates, Returned, TypeOK, RateSound
<1>14. CASE TickerFires
  BY <1>14, BeginKeepsRate, HeartbeatAssumption DEF TickerFires
<1>15. CASE LoopEnds
  BY <1>15 DEF LoopEnds, TypeOK, RateSound
<1>16. CASE Process
  BY <1>16 DEF Process, TypeOK, RateSound
<1>17. CASE Tick
  BY <1>17 DEF Tick, TypeOK, RateSound
<1>18. CASE UNCHANGED vars
  BY <1>18 DEF vars, TypeOK, RateSound
<1>. QED BY <1>1, <1>2, <1>3, <1>4, <1>5, <1>6, <1>7, <1>8, <1>9, <1>10, <1>11, <1>12, <1>13, <1>14, <1>15, <1>16, <1>17, <1>18 DEF Next

-----------------------------------------------------------------------------
\* The inductive invariant holds in every reachable state.
THEOREM IInvHolds == Spec => []IInv
<1>1. Init => IInv
  <2>1. SUFFICES ASSUME Init PROVE IInv
    OBVIOUS
  <2>2. cancelSet \in BOOLEAN /\ ctxDone \in BOOLEAN /\ everSet \in BOOLEAN /\ overlap \in BOOLEAN
    BY <2>1, Zenon DEF Init
  <2>3. TypeOK
    BY <2>1, <2>2, HeartbeatAssumption DEF Init, TypeOK
  <2>4. LoopSound /\ KeySound
    BY <2>1, HeartbeatAssumption DEF Init, LoopSound, KeySound
  <2>5. RateSound
    BY <2>1 DEF Init, RateSound
  <2>. QED BY <2>3, <2>4, <2>5 DEF IInv
<1>2. IInv /\ [Next]_vars => IInv'
  BY StepKeepsType, StepKeepsLoop, StepKeepsKey, StepKeepsRate DEF IInv
<1>. QED BY <1>1, <1>2, PTL DEF Spec

\* A key whose time to live covers one interval more than Redis may fail in a row never
\* expires under a running loop.
LEMMA KeyOutlivesFailures ==
  ASSUME IInv, (MaxFails + 1) * UpdateInterval < TTL
  PROVE  KeySurvivesOneFailure
<1>1. TypeOK
  BY DEF IInv
<1>2. SUFFICES ASSUME everSet, loop # "ended", ~ctxDone PROVE keyAge < TTL
  BY <1>1 DEF KeySurvivesOneFailure
<1>3. /\ fails \in Nat /\ fails <= MaxFails /\ MaxFails \in Nat /\ timer \in Nat
      /\ timer <= UpdateInterval /\ UpdateInterval \in Nat /\ keyAge \in Nat /\ TTL \in Nat
  BY <1>1, HeartbeatAssumption DEF TypeOK
<1>4. /\ Budget(fails) \in Nat /\ Budget(MaxFails) \in Nat /\ Budget(fails) <= Budget(MaxFails)
      /\ Budget(MaxFails + 1) = Budget(MaxFails) + UpdateInterval
  BY <1>3, BudgetStep, BudgetMonotone
<1>5. Budget(MaxFails) + UpdateInterval < TTL
  BY <1>4 DEF Budget
<1>6. loop \in {"sleeping", "touching"}
  BY <1>1, <1>2 DEF IInv, LoopSound, TypeOK
<1>7. keyAge <= Budget(fails) + UpdateInterval
  <2>1. \/ keyAge <= Budget(fails) + timer
        \/ keyAge <= Budget(fails) + UpdateInterval
        \/ keyAge <= Budget(fails)
    BY <1>2, <1>6 DEF IInv, KeySound
  <2>. QED BY <1>3, <1>4, <2>1
<1>. QED BY <1>3, <1>4, <1>5, <1>7

\* However often Redis fails in a row, a time to live of more than one interval per
\* failure and one besides keeps the key of a running loop alive.
THEOREM KeySurvivesFailures ==
  ASSUME (MaxFails + 1) * UpdateInterval < TTL
  PROVE  Spec => []KeySurvivesOneFailure
<1>1. IInv => KeySurvivesOneFailure
  BY KeyOutlivesFailures
<1>. QED BY <1>1, IInvHolds, PTL

\* With an update interval shorter than half the time to live, which is all that the
\* configuration is asked for, the key survives one failure.
THEOREM KeySurvives ==
  ASSUME MaxFails = 1
  PROVE  Spec => []KeySurvivesOneFailure
<1>1. (MaxFails + 1) * UpdateInterval < TTL
  BY HeartbeatAssumption
<1>2. IInv => KeySurvivesOneFailure
  BY <1>1, KeyOutlivesFailures
<1>. QED BY <1>2, IInvHolds, PTL

\* A published throughput that exceeds what was ever processed comes from Touch calls that
\* overlapped, and from nothing else.
THEOREM ThroughputsAreProgress == Spec => []ThroughputIsProgress
<1>1. IInv => ThroughputIsProgress
  BY DEF IInv, RateSound, ThroughputIsProgress
<1>. QED BY <1>1, IInvHolds, PTL

=============================================================================
