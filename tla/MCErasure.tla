------------------------------ MODULE MCErasure ------------------------------
(* An opt-out and a DSAR for the profile of up to two scrapes.             *)
EXTENDS Erasure, TLC

CONSTANTS s1, s2, c1, c2

MCScrape2 == {s1, s2}
MCCalls == {c1, c2}
MCKinds == c1 :> {"opt_out"} @@ c2 :> {"deletion", "access"}
=============================================================================
