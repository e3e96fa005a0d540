------------------------------ MODULE MCOutbox ------------------------------
(***************************************************************************)
(* Instances of Outbox for TLC: two agents, one of which sends a message   *)
(* of a type that is not recorded.                                         *)
(***************************************************************************)
EXTENDS Outbox, TLC

CONSTANTS x, y

\* Every hand-over makes a row of its own.
OwnRows == [e \in Entries |-> e]

AllButOne == Entries \ {<<y, 1>>}

=============================================================================
