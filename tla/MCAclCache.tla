----------------------------- MODULE MCAclCache -----------------------------
(***************************************************************************)
(* Instances of AclCache for TLC.                                          *)
(***************************************************************************)
EXTENDS AclCache, TLC

CONSTANTS s, t, r1, r2
TwoWays == {<<s, t>>, <<t, s>>}

\* s and t are in different groups, which may talk or not.
ApartInit ==
    /\ Init
    /\ groups = (s :> {1}) @@ (t :> {2})
    /\ rules \in {{}, {<<1, 2>>}}
ApartSpec == ApartInit /\ [][Next]_vars

RequestSymmetry == Permutations({r1, r2})

=============================================================================
