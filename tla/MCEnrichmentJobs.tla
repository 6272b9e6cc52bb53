-------------------------- MODULE MCEnrichmentJobs --------------------------
(* Small instances of EnrichmentJobs.                                      *)
EXTENDS EnrichmentJobs, TLC

CONSTANTS j1, j2, email, profile

MCJobs1 == {j1}
MCJobs2 == {j1, j2}
MCIdentifiers1 == {email}
MCIdentifiers2 == {email, profile}

(* Two requests that share an identifier, one of them naming both.         *)
MCOverlap == j1 :> {email, profile} @@ j2 :> {email}

(* One request naming the one identifier.                                  *)
MCAlone == j1 :> {email}
(* One request naming both identifiers.                                    *)
MCBoth == j1 :> {email, profile}

(* Nothing tells two identifiers of one request apart.                     *)
MCSymmetry == Permutations(MCIdentifiers2)
=============================================================================
