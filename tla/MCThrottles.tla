----------------------------- MODULE MCThrottles -----------------------------
(* Two GitRecon runs on workers, and the requests of one API client.       *)
EXTENDS Throttles, TLC

CONSTANTS g1, g2, a1, github, async

MCCallers == {g1, g2, a1}
MCScopes  == {github, async}
MCScopeOf == g1 :> github @@ g2 :> github @@ a1 :> async
MCGuarded == {github}
MCLimit   == github :> 1 @@ async :> 2
=============================================================================
