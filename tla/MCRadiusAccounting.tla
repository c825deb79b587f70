------------------------- MODULE MCRadiusAccounting -------------------------
(***************************************************************************)
(* An instance of RadiusAccounting for TLC: p1 and p2 carry the same event *)
(* (p2 with another delay time and identifier); p3 reuses the identifier   *)
(* of p1 for another event, which has no identity.                         *)
(***************************************************************************)
EXTENDS RadiusAccounting, TLC

CONSTANTS p1, p2, p3, a, b, s1, s2

MCEventOf == (p1 :> a) @@ (p2 :> a) @@ (p3 :> b)
MCSlotOf == (p1 :> s1) @@ (p2 :> s2) @@ (p3 :> s1)

=============================================================================
