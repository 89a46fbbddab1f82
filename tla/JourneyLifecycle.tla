--------------------------- MODULE JourneyLifecycle ---------------------------
(***************************************************************************)
(* What a passenger can rely on about a stored journey, without handlers,  *)
(* copies or buses: its status follows the lifecycle, an ended journey     *)
(* stays ended, and every accepted command is one new version of it.       *)
(***************************************************************************)
EXTENDS Naturals

VARIABLES
  status,  \* the stored status, "None" before the journey exists
  version  \* the stored version

lvars == <<status, version>>

Active == {"Searching", "Tracking", "BoardingPrompt", "Boarded"}

Ended == {"Completed", "Cancelled", "Expired"}

\* The lifecycle of a journey that is not called off.
Forward ==
  {<<"Searching", "Tracking">>,
   <<"Tracking", "BoardingPrompt">>,
   <<"BoardingPrompt", "Tracking">>,
   <<"BoardingPrompt", "Boarded">>,
   <<"Boarded", "Completed">>}

\* Any active journey can be called off or run out.
Abandon == Active \X {"Cancelled", "Expired"}

Init == status = "None" /\ version = 0

Create ==
  /\ status = "None"
  /\ status' = "Searching"
  /\ version' = 2

Move ==
  /\ <<status, status'>> \in Forward \cup Abandon
  /\ version' = version + 1

\* A command that leaves the status alone.
Touch ==
  /\ status # "None"
  /\ status' = status
  /\ version' = version + 1

Next == Create \/ Move \/ Touch

Spec == Init /\ [][Next]_lvars
=============================================================================
