------------------------------ MODULE MCDossier ------------------------------
(* A few requests, with answers chosen so that finders meet on a platform, *)
(* addresses meet in two spellings and the cap leaves addresses out; one   *)
(* request names as the person's address a string without an "@".          *)
EXTENDS Dossier, TLC

MCRequest(has, tiers) == [has |-> has, tiers |-> tiers, email |-> "own"]

MCSubmitted ==
    {MCRequest({}, {"tier2"}),
     MCRequest({"company"}, {"tier2"}),
     MCRequest({"linkedin_url", "username", "email", "company", "job_search"}, {"tier1", "tier2"}),
     MCRequest({"username", "business"}, {}),
     MCRequest({"username"}, {"tier2", "tier3"}),
     [MCRequest({"username", "email"}, {"tier3"}) EXCEPT !.email = "noreply"],
     MCRequest({"email", "company", "job_search"}, {"tier3", "tier4"}),
     MCRequest({"linkedin_url", "job_search", "business"}, {"tier1", "tier4"})}

MCModes == {[smtp |-> FALSE, llm |-> FALSE, tier1 |-> FALSE],
            [smtp |-> TRUE, llm |-> TRUE, tier1 |-> TRUE]}

MCPlatforms == {"github", "x", "forum"}

\* Two hosts of one platform, and one of another.
MCPlatformOf == ("github.com" :> "github") @@ ("github.io" :> "github") @@ ("x.com" :> "x")
MCListings == {<<"x.com", "github.io", "x.com", "github.com">>}

MCRow(p, rate, good) == [platform |-> p, rate |-> rate, good |-> good]
MCRows == {<<MCRow("x", 40, TRUE), MCRow("x", 85, TRUE)>>,
           <<MCRow("forum", 40, TRUE), MCRow("x", 60, FALSE)>>}

MCEmail(addr, caps) == [addr |-> addr, caps |-> caps]
MCLeaks == {<<>>, <<MCEmail("noreply", FALSE), MCEmail("leaked", TRUE), MCEmail("leaked", FALSE)>>}
MCHarvests == {<<MCEmail("leaked", FALSE), MCEmail("own", FALSE), MCEmail("other", TRUE)>>}
MCPatterns == <<"guess">>
MCJunk == {"noreply"}

MCJob(key, detail) == [key |-> key, detail |-> detail]
MCPostings == {<<MCJob("dev", 1), MCJob("ops", 0), MCJob("dev", 3), MCJob("dev", 2)>>}

MCOpinions == {60, 70, 95}
=============================================================================
