------------------------------ MODULE MCFleet ------------------------------
(***************************************************************************)
(* Instances of Fleet for TLC.  Ticks of 10 s: TTL 6, Period 3, MaxDelay 1 *)
(* have the proportions of the code's 60 s and 30 s.                       *)
(***************************************************************************)
EXTENDS Fleet

CONSTANTS a1

=============================================================================
