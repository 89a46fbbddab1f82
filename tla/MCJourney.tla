------------------------------ MODULE MCJourney -------------------------------
(***************************************************************************)
(* Journey for TLC: handlers are interchangeable, and so are buses.        *)
(***************************************************************************)
EXTENDS Journey, TLC

Symmetry == Permutations(Handlers) \cup Permutations(Buses)

=============================================================================
