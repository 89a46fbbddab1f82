---------------------------- MODULE AggregateStore ----------------------------
(***************************************************************************)
(* Command handlers racing on one row of the buses or of the users table.  *)
(* A handler loads the aggregate, calls one method and saves; one that     *)
(* saves successfully saw the row as it still is, so loading and the       *)
(* method are one step and the save is another.  Each behaviour is about   *)
(* one aggregate, a bus or a user; the two never read each other's table.  *)
(***************************************************************************)
EXTENDS Bus, User

CONSTANTS
  Handlers,    \* concurrent command handlers
  MaxTime,     \* bound: the last tick
  MaxVersion,  \* bound: the last version that is stored
  Nil

ASSUME AggregateStoreAssumption == MaxTime \in Nat /\ MaxVersion \in Nat

VARIABLES
  kind,  \* which aggregate the row is
  rows,  \* the row, if there is one
  held,  \* handler -> the command and the copy it is about to save, or Nil
  now

vars == <<kind, rows, held, now>>

-----------------------------------------------------------------------------
Ops == IF kind = "bus" THEN BusOps ELSE UserOps

Created == IF kind = "bus" THEN CreateBus ELSE CreateUser(now)

\* The aggregate as FindByID returns it at time t, or none.
Loaded(rs, t) == IF kind = "bus" THEN FindBus(rs) ELSE FindUser(rs, t)

\* What the command makes of the row when it is handled at time t.
Outcome(op, rs, t) ==
  UNION {IF kind = "bus" THEN BusOutcome(op, a) ELSE UserOutcome(op, a, t) : a \in Loaded(rs, t)}

Saved(rs, a) == IF kind = "bus" THEN SaveBus(rs, a) ELSE SaveUser(rs, a)

Init ==
  /\ kind \in {"bus", "user"}
  /\ rows = {}
  /\ held = [h \in Handlers |-> Nil]
  /\ now = 0

Create(h) ==
  /\ held[h] = Nil
  /\ \E a \in Created : held' = [held EXCEPT ![h] = [op |-> "Create", next |-> a]]
  /\ UNCHANGED <<kind, rows, now>>

Handle(h, op) ==
  /\ held[h] = Nil
  /\ \E a \in Outcome(op, rows, now) : held' = [held EXCEPT ![h] = [op |-> op, next |-> a]]
  /\ UNCHANGED <<kind, rows, now>>

Save(h) ==
  /\ held[h] # Nil
  /\ \E r \in Saved(rows, held[h].next) : r.version <= MaxVersion /\ rows' = {r}
  /\ held' = [held EXCEPT ![h] = Nil]
  /\ UNCHANGED <<kind, now>>

\* A stale version, a failed statement, an address that is taken, a cancelled request.
SaveFails(h) ==
  /\ held[h] # Nil
  /\ held' = [held EXCEPT ![h] = Nil]
  /\ UNCHANGED <<kind, rows, now>>

Tick ==
  /\ now < MaxTime
  /\ now' = now + 1
  /\ UNCHANGED <<kind, rows, held>>

Next ==
  \/ \E h \in Handlers : Create(h)
  \/ \E h \in Handlers, op \in BusOps \cup UserOps : op \in Ops /\ Handle(h, op)
  \/ \E h \in Handlers : Save(h)
  \/ \E h \in Handlers : SaveFails(h)
  \/ Tick

Spec == Init /\ [][Next]_vars

-----------------------------------------------------------------------------
Records == IF kind = "bus" THEN BusRecord ELSE UserRecord

TypeOK ==
  /\ kind \in {"bus", "user"}
  /\ rows \subseteq Records
  /\ \A h \in Handlers : held[h] # Nil => held[h].op \in Ops \cup {"Create"} /\ held[h].next \in Records
  /\ now \in 0..MaxTime

\* Whatever the order of the commands, a stored bus has an arrival time exactly while
\* it stands at a terminal, which is when it has dwelt there, and a stored user has no
\* more saved locations than the limit (bus_methods.go:76, user_methods.go:16).
RowsAreSound ==
  /\ TypeOK
  /\ kind = "bus" =>
       \A b \in rows :
         /\ b.isAtTerminal <=> b.terminalArrivalTime # NoArrival
         /\ \A t \in BusMoments : CalculateTerminalDwellTime(b, t) > 0 => b.isAtTerminal
  /\ kind = "user" => \A u \in rows : Len(u.savedLocs) <= MaxLocations

\* Every version that is stored is what the saving handler's command makes of the
\* version it replaces, at some moment up to now, and only a first one is created: no
\* command is lost between two handlers (bus_repository.go:64, user_repository.go:60).
SavesAreSerial ==
  [][\A h \in Handlers :
       Save(h) =>
         \/ rows = {} /\ held[h].op = "Create"
         \/ held[h].op \in Ops /\ \E t \in 0..now : held[h].next \in Outcome(held[h].op, rows, t)]_vars

\* The row cannot be loaded, and no handler that could still replace it has loaded it.
Stranded ==
  /\ rows # {}
  /\ Loaded(rows, now) = {}
  /\ \A h \in Handlers : held[h] # Nil => Saved(rows, held[h].next) = {}

\* Rehydration repeats the checks of creation (user_rehydrate.go:21, bus_rehydrate.go:28)
\* and every command loads first: a row those checks refuse, such as a lapsed
\* subscription, stays as it is for ever, its renewal included.
StrandedForEver == [][Stranded => Stranded']_vars

\* A stored bus is on the roster of its operator, and its operator may stream it, unless
\* its last report carried a negative stop index, which UpdatePosition stores and
\* NewBus refuses on every load (bus_methods.go:26, bus.go:57).
OnlyBadStopIndexHides ==
  kind = "bus" =>
    \A b \in rows :
      /\ Exists(rows) /\ b \in ListBusIDsByRoute(rows, b.operator, {b.status})
      /\ CanSubscribeToBus(rows, b.operator) <=> b.stopIndex >= 0

-----------------------------------------------------------------------------
\* The inductive invariant.  What a bus or a user is wherever it is kept, in the row
\* or in the hands of a handler.
Sound(a) ==
  /\ a \in Records
  /\ kind = "bus" => a.position.valid /\ (a.isAtTerminal <=> a.terminalArrivalTime # NoArrival)

\* A first save already stores version 2: no copy that is created can replace a row.
RowSound == rows = {} \/ \E r \in rows : rows = {r} /\ Sound(r) /\ r.version >= 2

\* A loaded copy is not ahead of the row, and one with the row's version was made from
\* that very row.
CopyIsCurrent(c) ==
  \E r \in rows :
    /\ c.next.version <= r.version
    /\ c.next.version = r.version => \E t \in 0..now : c.next \in Outcome(c.op, rows, t)

CopySound(c) ==
  /\ Sound(c.next)
  /\ \/ c.op = "Create" /\ c.next.version = 1
     \/ c.op \in Ops /\ CopyIsCurrent(c)

IInv ==
  /\ TypeOK
  /\ held \in [Handlers -> [op : Ops \cup {"Create"}, next : Records] \cup {Nil}]
  /\ RowSound
  /\ \A h \in Handlers : held[h] # Nil => CopySound(held[h])

=============================================================================
