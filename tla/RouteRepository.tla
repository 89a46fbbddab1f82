--------------------------- MODULE RouteRepository ----------------------------
(***************************************************************************)
(* Command handlers racing on one row of the routes table, and the table   *)
(* of stops behind the nearby-stop queries                                 *)
(* (infrastructure/repositories/route_repository.go,                       *)
(* stop_geo_repository.go).  Save writes the row in one statement that     *)
(* checks the version, and then one statement per stop, outside any        *)
(* transaction: the saves of two handlers can overlap there, and the first *)
(* statement that fails ends the synchronisation, not the save.  The table *)
(* is keyed by the stop alone and shared by all routes: every statement    *)
(* overwrites location and distance and adds its route to route_ids, so    *)
(* another route's save can come between, and no statement ever deletes an *)
(* entry.                                                                  *)
(***************************************************************************)
EXTENDS Route

CONSTANTS
  Handlers,    \* concurrent command handlers
  OtherStops,  \* the stops that other routes are saved with
  MaxVersion,  \* bound: the last version that is stored
  MaxStops,    \* bound: the longest list of stops that is saved
  Absent       \* no command under way, no entry in the table

\* An entry of the stops table and (ghost) the version of this route that wrote it,
\* or 0 when another route did.
Entry == [at : Nat, cum : Int, routes : SUBSET {"this", "other"}, version : Nat]

ASSUME RoutesAssumption == OtherStops \subseteq Stop /\ Absent \notin Entry

VARIABLES
  rows,  \* the row, if there is one
  held,  \* handler -> what it is about to save or to synchronise, or Absent
  geo,   \* stop -> its entry in the stops table, or Absent
  gap    \* ghost: a synchronisation failed or overlapped, and none has repaired it

routesVars == <<rows, held, geo, gap>>

-----------------------------------------------------------------------------
\* WHERE status = Active AND active_from <= at AND active_until > at, rebuilt.
FindActiveRoutes(rs, at) ==
  {r \in UNION {RehydrateRoute(s) : s \in rs} :
     r.status = "Active" /\ r.period.from <= at /\ r.period.until > at}

FindByID(rs) == UNION {RehydrateRoute(r) : r \in rs}

Outcome(op, rs) == UNION {RouteOutcome(op, r) : r \in FindByID(rs)}

Syncing == {h \in Handlers : held[h] # Absent /\ held[h].pc = "sync"}

RoutesInit ==
  /\ rows = {}
  /\ held = [h \in Handlers |-> Absent]
  /\ geo = [s \in StopIDs |-> Absent]
  /\ gap = FALSE

Hold(h, route) ==
  /\ Len(route.stops) <= MaxStops
  /\ held' = [held EXCEPT ![h] = [pc |-> "save", next |-> route]]

Create(h) ==
  /\ held[h] = Absent
  /\ \E r \in CreateRoute : Hold(h, r)
  /\ UNCHANGED <<rows, geo, gap>>

Handle(h, op) ==
  /\ held[h] = Absent
  /\ \E r \in Outcome(op, rows) : Hold(h, r)
  /\ UNCHANGED <<rows, geo, gap>>

\* h goes on with the stops of the route it saved; whoever is at it now is not alone.
StartSync(h, route) ==
  held' = [k \in Handlers |->
             IF k = h THEN [pc |-> "sync", next |-> route, i |-> 1, alone |-> Syncing = {}]
             ELSE IF k \in Syncing THEN [held[k] EXCEPT !.alone = FALSE]
             ELSE held[k]]

\* Mutant: the UPSERT does not check the version.
Bug_SaveBlind(h) ==
  /\ held[h] # Absent
  /\ held[h].pc = "save"
  /\ LET stored == [held[h].next EXCEPT !.version = @ + 1]
     IN /\ stored.version <= MaxVersion
        /\ rows' = {stored}
        /\ StartSync(h, stored)
  /\ gap' = TRUE
  /\ UNCHANGED geo

\* The UPSERT of the row; the stops table lags behind it until the stops are written.
Save(h) ==
  /\ held[h] # Absent
  /\ held[h].pc = "save"
  /\ \A r \in rows : r.version = held[h].next.version
  /\ LET stored == [held[h].next EXCEPT !.version = @ + 1]
     IN /\ stored.version <= MaxVersion
        /\ rows' = {stored}
        /\ StartSync(h, stored)
  /\ gap' = TRUE
  /\ UNCHANGED geo

\* ErrRouteVersionStale, a failed statement or a cancelled request.
SaveFails(h) ==
  /\ held[h] # Absent
  /\ held[h].pc = "save"
  /\ held' = [held EXCEPT ![h] = Absent]
  /\ UNCHANGED <<rows, geo, gap>>

\* INSERT ... ON CONFLICT (stop_id) DO UPDATE: what becomes of the entry.
Upsert(entry, stop, route, version) ==
  [at |-> stop.at, cum |-> stop.cum,
   routes |-> {route} \cup (IF entry = Absent THEN {} ELSE entry.routes), version |-> version]

\* Mutant: an entry that is there keeps its location and distance.
Bug_SyncInserts(h) ==
  /\ h \in Syncing
  /\ held[h].i <= Len(held[h].next.stops)
  /\ LET stop == held[h].next.stops[held[h].i]
     IN geo' = IF geo[stop.id] # Absent THEN geo
               ELSE [geo EXCEPT ![stop.id] = Upsert(@, stop, "this", held[h].next.version)]
  /\ held' = [held EXCEPT ![h].i = @ + 1]
  /\ UNCHANGED <<rows, gap>>

\* One statement of syncStopsToGeoTable.
SyncStop(h) ==
  /\ h \in Syncing
  /\ held[h].i <= Len(held[h].next.stops)
  /\ LET stop == held[h].next.stops[held[h].i]
     IN geo' = [geo EXCEPT ![stop.id] = Upsert(@, stop, "this", held[h].next.version)]
  /\ held' = [held EXCEPT ![h].i = @ + 1]
  /\ UNCHANGED <<rows, gap>>

\* All stops are written; one that was alone has brought the table up to date.
SyncEnds(h) ==
  /\ h \in Syncing
  /\ held[h].i > Len(held[h].next.stops)
  /\ gap' = (gap /\ ~held[h].alone)
  /\ held' = [held EXCEPT ![h] = Absent]
  /\ UNCHANGED <<rows, geo>>

\* A statement fails: the rest of the stops is not written, and Save returns nil.
SyncFails(h) ==
  /\ h \in Syncing
  /\ held[h].i <= Len(held[h].next.stops)
  /\ held' = [held EXCEPT ![h] = Absent]
  /\ UNCHANGED <<rows, geo, gap>>

\* The same statement in the save of another route that has the stop.
OtherRouteSyncs(stop) ==
  /\ geo' = [geo EXCEPT ![stop.id] = Upsert(@, stop, "other", 0)]
  /\ UNCHANGED <<rows, held, gap>>

RoutesNext ==
  \/ \E h \in Handlers : Create(h)
  \/ \E h \in Handlers, op \in RouteOps : Handle(h, op)
  \/ \E h \in Handlers : Save(h)
  \/ \E h \in Handlers : SaveFails(h)
  \/ \E h \in Handlers : SyncStop(h)
  \/ \E h \in Handlers : SyncEnds(h)
  \/ \E h \in Handlers : SyncFails(h)
  \/ \E stop \in OtherStops : OtherRouteSyncs(stop)

RoutesSpec == RoutesInit /\ [][RoutesNext]_routesVars

-----------------------------------------------------------------------------
\* The queries on the stops table.
FindStopByID(id) == 
  IF geo[id] = Absent THEN {} ELSE {[id |-> id, at |-> geo[id].at, cum |-> geo[id].cum]}

FindAllStops == UNION {FindStopByID(id) : id \in StopIDs}

FindNearbyStops(at, radius) ==
  {s \in FindAllStops : s.at - at <= radius /\ at - s.at <= radius}

Storable ==
  {r \in [stops : Seq(Stop), direction : RouteDirection, type : RouteType, rate : 12..14,
          status : Statuses \cup {"Active"}, period : Period, version : Nat \ {0}] :
     Len(r.stops) >= 2 /\ r.period.until > r.period.from}

Saves == [pc : {"save"}, next : Storable]
Syncs == [pc : {"sync"}, next : Storable, i : Nat \ {0}, alone : BOOLEAN]

RoutesTypeOK ==
  /\ rows \subseteq Storable /\ \A r, s \in rows : r = s
  /\ held \in [Handlers -> {Absent} \cup Saves \cup Syncs]
  /\ geo \in [StopIDs -> {Absent} \cup Entry]
  /\ gap \in BOOLEAN

\* The last stop with this identifier on the route, whose statement came last.
LastWritten(r, id) == r.stops[Max({i \in DOMAIN r.stops : r.stops[i].id = id})]

\* The stops table never shows a version of the route that is not stored, and when no
\* synchronisation has failed or overlapped since one brought it up to date, every stop
\* of the route is there for it, and a search at the stop finds it with the distance that
\* is stored unless another route was saved with that stop since
\* (route_repository.go:124, 392, 401).
GeoFollowsRoute ==
  \A r \in rows :
    /\ \A s \in StopIDs : geo[s] # Absent => geo[s].version <= r.version
    /\ ~gap => \A i \in DOMAIN r.stops :
                 LET s == r.stops[i].id
                     last == LastWritten(r, s)
                 IN /\ geo[s] # Absent /\ "this" \in geo[s].routes
                    /\ geo[s].version = 0 \/ last \in FindNearbyStops(last.at, 0)

\* The entry is that of this stop of the route, but for what another route wrote over it.
Holds(entry, stop) ==
  /\ entry # Absent /\ "this" \in entry.routes
  /\ entry.version = 0 \/ (entry.at = stop.at /\ entry.cum = stop.cum)

\* Of the first n - 1 stops, the last with an identifier is the one the table holds.
Written(r, n) ==
  \A k \in DOMAIN r.stops :
    /\ k < n
    /\ \A j \in DOMAIN r.stops : k < j /\ j < n => r.stops[j].id # r.stops[k].id
    => Holds(geo[r.stops[k].id], r.stops[k])

\* Nobody writes for a version beyond the row's; who is alone writes what the row holds;
\* and without a gap all of it is written.
LagSound ==
  /\ \A s \in StopIDs :
       geo[s] # Absent => geo[s].version = 0 \/ \E r \in rows : geo[s].version <= r.version
  /\ \A h \in Syncing : \E r \in rows : held[h].next.version <= r.version
  /\ \A h \in Syncing : held[h].alone => /\ Syncing = {h}
                                        /\ rows = {held[h].next}
                                        /\ Written(held[h].next, held[h].i)
  /\ ~gap => Syncing = {} /\ \A r \in rows : Written(r, Len(r.stops) + 1)

\* What can be made of the stored row, over all commands.
Commanded(rs) == UNION {Outcome(op, rs) : op \in RouteOps}

\* A route that waits to be saved is new, overtaken, or made from the row that is stored.
Current(next) ==
  \/ next.version = 1
  \/ \E r \in rows : \/ next.version < r.version
                     \/ next.version = r.version /\ next \in Commanded(rows)

SavesSound ==
  /\ \A r \in rows : r.version > 1
  /\ \A h \in Handlers : held[h] # Absent /\ held[h].pc = "save" => Current(held[h].next)

\* The inductive invariant of the proofs.
RoutesInv == RoutesTypeOK /\ LagSound /\ SavesSound

\* No update is lost: of two handlers that loaded the same version only one is stored, so
\* what replaces a row is what a command made of that very row, one version on
\* (route_repository.go:86, 118).
SavesAreSerial ==
  [][rows' # rows /\ rows # {} =>
       \E n \in Commanded(rows) : rows' = {[n EXCEPT !.version = @ + 1]}]_routesVars

\* Whatever the commands stored, the row can be loaded, loading what was loaded changes
\* no distance any more, the total is the distance between the ends, and a route that
\* has a length has one after the load (route_rehydrate.go:27, route_methods.go:455).
\* Two stops of a route that runs both ways are joined in exactly one direction, and the
\* query for active routes and IsActive disagree on no moment but the first of the
\* period (route_repository.go:225, route_methods.go:118).
LoadsAreStable ==
  \A r \in rows :
    /\ FindByID({r}) # {}
    /\ \A n \in FindByID({r}) :
         /\ FindByID({n}) = {n}
         /\ TotalRouteDistance(n) = DistanceBetweenStopIndices(n, 0, Len(n.stops) - 1)
         /\ TotalRouteDistance(n) > 0 \/ LineDistance(n.stops, Len(n.stops)) = 0
         /\ n.direction = "Bidirectional" =>
              \A i, j \in DOMAIN n.stops : n.stops[i].id # n.stops[j].id =>
                (ValidateJourney(n, n.stops[i].id, n.stops[j].id, "Outbound") = {}
                   <=> ValidateJourney(n, n.stops[i].id, n.stops[j].id, "Inbound") # {})
         /\ \A t \in (n.period.from - 1)..n.period.until :
              FindActiveRoutes({r}, t) # {} <=> IsActive(n, t) \/ (t = n.period.from /\ n.status = "Active")

=============================================================================
