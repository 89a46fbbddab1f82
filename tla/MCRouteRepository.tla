-------------------------- MODULE MCRouteRepository ---------------------------
(***************************************************************************)
(* RouteRepository for TLC: three stops on a line, lists with and without  *)
(* road distances, one stop at another place in another list, a stop       *)
(* without a distance that may be added anywhere and more than once, two   *)
(* stops that another route shares, a period with a moment inside and an   *)
(* empty one.                                                              *)
(***************************************************************************)
EXTENDS RouteRepository, TLC

CONSTANTS s1, s2, s3

At(s, p, c) == [id |-> s, at |-> p, cum |-> c]

MCStopLists ==
  {<<At(s1, 0, 0)>>, <<At(s1, 0, 0), At(s2, 2, 0)>>, <<At(s2, 2, 1), At(s1, 1, 5)>>}

MCNewStops == {At(s3, 3, 0)}

MCOtherStops == {At(s2, 4, 7), At(s1, 0, 0)}

MCPeriods == {[from |-> 0, until |-> 2], [from |-> 2, until |-> 2]}

Symmetry == Permutations(Handlers)

=============================================================================
