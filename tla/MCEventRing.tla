----------------------------- MODULE MCEventRing -----------------------------
(***************************************************************************)
(* An instance of EventRing for TLC: a pager with the stdout sink, or a    *)
(* REST stream and a listen stream that compete for one admission.         *)
(***************************************************************************)
EXTENDS EventRing

CONSTANTS r1, m1, p1

RingPopulations == {{Sink, p1}, {r1, m1}}

=============================================================================
