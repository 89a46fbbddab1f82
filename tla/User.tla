--------------------------------- MODULE User ---------------------------------
(***************************************************************************)
(* The user aggregate (domain/aggregates/user*.go), its command handlers   *)
(* (application/user/mgmt) and the statements of its repository, written   *)
(* like Bus.  Whether a subscription is active depends on the time, so     *)
(* every method that asks takes the time.                                  *)
(***************************************************************************)
EXTENDS Integers, Sequences, FiniteSetsExt, SequencesExt

CONSTANTS
  Emails,        \* addresses NewEmail accepts
  Places,        \* where a saved location is
  Names,         \* names of saved locations
  Expiries,      \* expiry dates of subscriptions
  MaxLocations   \* maxLocations, 10 in the code

ASSUME UserAssumption == MaxLocations \in Nat /\ Expiries \subseteq Nat

\* The plan only bounds the journeys of CanStartNewJourney, which nothing calls.
Subscriptions == [active : BOOLEAN, expiry : Expiries]
SavedLocation == [name : Names, place : Places]

UserRecord ==
  [email : Emails, subscription : Subscriptions,
   savedLocs : BoundedSeq(SavedLocation, MaxLocations), version : Nat]

-----------------------------------------------------------------------------
IsActive(s, now) == s.active /\ now < s.expiry

NewUser(email, subscription, now) ==
  IF ~IsActive(subscription, now) THEN {}
  ELSE {[email |-> email, subscription |-> subscription, savedLocs |-> <<>>, version |-> 1]}

RehydrateUser(u, now) ==
  {[n EXCEPT !.savedLocs = u.savedLocs,
             !.version = IF u.version > 0 THEN u.version ELSE n.version] :
     n \in NewUser(u.email, u.subscription, now)}

\* Names may repeat.
AddSavedLocation(u, loc) ==
  IF Len(u.savedLocs) >= MaxLocations THEN {} ELSE {[u EXCEPT !.savedLocs = Append(@, loc)]}

\* The positions that hold the name; the methods take the first.
Named(u, name) == {i \in DOMAIN u.savedLocs : u.savedLocs[i].name = name}

RemoveSavedLocation(u, name) ==
  IF Named(u, name) = {} THEN {}
  ELSE {[u EXCEPT !.savedLocs = RemoveAt(@, Min(Named(u, name)))]}

UpdateSavedLocation(u, loc) ==
  IF Named(u, loc.name) = {} THEN {}
  ELSE {[u EXCEPT !.savedLocs = ReplaceAt(@, Min(Named(u, loc.name)), loc)]}

ClearSavedLocations(u) == {[u EXCEPT !.savedLocs = <<>>]}

UpdateSubscription(u, subscription, now) ==
  IF ~IsActive(subscription, now) THEN {} ELSE {[u EXCEPT !.subscription = subscription]}

ChangeEmail(u, email) == IF u.email = email THEN {} ELSE {[u EXCEPT !.email = email]}

-----------------------------------------------------------------------------
\* Mutant: the WHERE clause is missing.
Bug_SaveUserUnchecked(rows, u) == {[u EXCEPT !.version = @ + 1]}

\* The UPSERT, which also fails when another user has the address.
SaveUser(rows, u) ==
  IF \A r \in rows : r.version = u.version THEN {[u EXCEPT !.version = @ + 1]} ELSE {}

FindUser(rows, now) == UNION {RehydrateUser(r, now) : r \in rows}

UserOps == {"ChangeEmail", "UpdateSubscription", "AddSavedLocation", "RemoveSavedLocation",
            "UpdateSavedLocation", "ClearSavedLocations"}

CreateUser(now) == UNION {NewUser(e, s, now) : e \in Emails, s \in Subscriptions}

\* What the handler of op can make of the user u, over its inputs.
UserOutcome(op, u, now) ==
  CASE op = "ChangeEmail"         -> UNION {ChangeEmail(u, e) : e \in Emails}
    [] op = "UpdateSubscription"  -> UNION {UpdateSubscription(u, s, now) : s \in Subscriptions}
    [] op = "AddSavedLocation"    -> UNION {AddSavedLocation(u, l) : l \in SavedLocation}
    [] op = "RemoveSavedLocation" -> UNION {RemoveSavedLocation(u, n) : n \in Names}
    [] op = "UpdateSavedLocation" -> UNION {UpdateSavedLocation(u, l) : l \in SavedLocation}
    [] op = "ClearSavedLocations" -> ClearSavedLocations(u)

=============================================================================
