---------------------------- MODULE MCLiveStreams -----------------------------
(***************************************************************************)
(* LiveStreams for TLC: two buses on two routes, and requests for the      *)
(* buses of one route, for both buses and for one of them, with blank      *)
(* identifiers among them.                                                 *)
(***************************************************************************)
EXTENDS LiveStreams

CONSTANTS b1, b2, k1, k2

MCUpdates == {[bus |-> b1, route |-> k1], [bus |-> b2, route |-> k2]}

\* The second lets both updates through, so that their order shows.
MCAsked ==
  {[route |-> k1, buses |-> {Blank}],
   [route |-> Blank, buses |-> {b1, b2, Blank}],
   [route |-> Blank, buses |-> {b2, Blank}]}

=============================================================================
