---------------------------- MODULE MCSuppression ----------------------------
(* Two opt-outs of one identifier and one of another, a request that names *)
(* both identifiers and one that names the first.                          *)
EXTENDS Suppression, TLC

CONSTANTS email, profile, h1, h2, h3, c1, c2

MCIdentifier == {email, profile}
MCHandler == {h1, h2, h3}
MCTarget == h1 :> email @@ h2 :> email @@ h3 :> profile
MCCheck == {c1, c2}
MCValues == c1 :> <<email, profile>> @@ c2 :> <<email>>
=============================================================================
