------------------------------ MODULE MCTracer ------------------------------
(***************************************************************************)
(* Instances of Tracer for TLC: a common stream, and an agent with one     *)
(* stream of its own.                                                      *)
(***************************************************************************)
EXTENDS Tracer, TLC

CONSTANTS b, x, s

OneAgent == (x :> {s})

\* Every entry has a message of its own, with a row of its own.
OwnRows == [e \in Entries |-> e]

LastIsBare == {<<b, Limit>>}
None       == {}

=============================================================================
