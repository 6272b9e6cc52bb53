------------------------------ MODULE Dossier ------------------------------
(***************************************************************************)
(* How one enrichment request becomes a dossier: Pipeline._execute from    *)
(* the dispatch of the tiers to the final status.  The enrichers of a tier *)
(* run together (asyncio.gather) and answer in any order, fail, or find    *)
(* nothing; their fragments are folded in registry order; the addresses    *)
(* that tier 3 finds are verified one by one through a chain of services;  *)
(* the handles nobody is sure of go to the disambiguator.                  *)
(*                                                                         *)
(* Data are members of small sets.  An address is a model of its lower     *)
(* case form, an e-mail is an address with a spelling; a profile URL maps  *)
(* to the platform label of its host; a confidence is a percentage.  The   *)
(* person's own username is "subject", which is also what stands before    *)
(* the "@" of the person's own address.                                    *)
(***************************************************************************)
EXTENDS Integers, SequencesExt

CONSTANTS
    Submitted,      \* requests the API receives: [has, tiers, email]
    Modes,          \* settings of a deployment: [smtp, llm, tier1]
    Platforms,      \* the labels of platforms, "github" among them
    PlatformOf,     \* the platform label of each profile URL
    Listings,       \* the URLs a command-line finder may print, in order
    Rows,           \* the rows Social Analyzer may return
    Leaks,          \* the e-mails GitRecon may return
    Harvests,       \* the e-mails theHarvester and CrossLinked may print
    Patterns,       \* the addresses common_email_patterns guesses
    Junk,           \* strings given or found as e-mails that have no "@"
    Postings,       \* the job rows the boards may return
    Cap,            \* EMAIL_VERIFY_MAX_PER_JOB
    Threshold,      \* DISAMBIGUATION_THRESHOLD, as a percentage
    Opinions        \* confidences the language model may answer

Email == [addr : STRING, caps : BOOLEAN]

\* A request may name any string as the person's address, an "@" in it or not.
ASSUME DossierAssumption ==
    /\ Cap \in Nat /\ Threshold \in 0..100 /\ Opinions \subseteq 0..100
    /\ "github" \in Platforms
    /\ PlatformOf \in [DOMAIN PlatformOf -> Platforms] /\ Listings \subseteq Seq(DOMAIN PlatformOf)
    /\ Rows \subseteq Seq([platform : Platforms, rate : Int, good : BOOLEAN])
    /\ Leaks \subseteq Seq(Email) /\ Harvests \subseteq Seq(Email) /\ Patterns \in Seq(STRING)
    /\ \A r \in Submitted : r.email \in STRING
    /\ Postings \subseteq Seq([key : STRING, detail : Int])

VARIABLES
    setup,          \* the request, its path (sync or worker) and the settings
    pc,             \* what the pipeline does next
    answer,         \* what each enricher returned, or Pending
    candidates,     \* addresses to verify, in order
    tried,          \* how many of them the verifier has answered
    verified,       \* its results
    payloads,       \* the fragments collected so far, in order
    dossier,        \* the merged dossier
    kept, dropped,  \* the handles judged so far
    outcome         \* the status and the scores saved with the job

vars == <<setup, pc, answer, candidates, tried, verified, payloads, dossier, kept, dropped, outcome>>

-----------------------------------------------------------------------------
(* Requests and the registry of enrichers.                                 *)

Tiers == <<"tier1", "tier2", "tier3", "tier4">>

Asked(r) == IF r.tiers = {} THEN ToSet(Tiers) ELSE r.tiers

Valid(r) ==
    /\ r.has # {}
    /\ "tier1" \in Asked(r) => "linkedin_url" \in r.has
    /\ "tier2" \in Asked(r) => "username" \in r.has
    /\ "tier3" \in Asked(r) => r.has \cap {"username", "email", "company"} # {}
    /\ "tier4" \in Asked(r) => r.has \cap {"job_search", "business"} # {}

Registry ==
    [tier1 |-> <<"linkedin_photo">>,
     tier2 |-> <<"sherlock", "maigret", "social_analyzer">>,
     tier3 |-> <<"gitrecon", "theharvester", "email_discover", "crosslinked">>,
     tier4 |-> <<"jobspy", "local_business">>]

\* An enricher runs when the request has one of the identifiers it works from.
Needs ==
    [linkedin_photo |-> {"linkedin_url"},
     sherlock |-> {"username"}, maigret |-> {"username"}, social_analyzer |-> {"username"},
     gitrecon |-> {"username", "email"}, theharvester |-> {"company", "email"},
     email_discover |-> {"username", "company"}, crosslinked |-> {"company"},
     jobspy |-> {"job_search"}, local_business |-> {"business"}]

Enrichers == DOMAIN Needs
Pending == [pending |-> TRUE]

Wanted(e) ==
    /\ Needs[e] \cap setup.request.has # {}
    /\ e = "linkedin_photo" => setup.mode.tier1
    /\ e = "theharvester" /\ "company" \notin setup.request.has => setup.request.email \notin Junk

\* The synchronous endpoint never opens a browser.
Dispatched(t) ==
    /\ t \in Asked(setup.request)
    /\ ~(setup.sync /\ t = "tier1")

\* The first tier dispatched from the n-th on, then the merge.
StageFrom(n) ==
    LET left == {m \in n..4 : Dispatched(Tiers[m])}
    IN  IF left = {} THEN "merge" ELSE Tiers[Min(left)]

After == [tier1 |-> 2, tier2 |-> 3, verify |-> 4, tier4 |-> 5]

-----------------------------------------------------------------------------
(* Lists whose entries are one per key.                                    *)

\* The loops of merge_payloads: the entry of a new key is appended, one of a
\* key already listed replaces it in place when its rank is higher.  The
\* entries are given by their positions n.
Put(list, n, keys, ranks) ==
    LET same == {i \in DOMAIN list : keys[list[i]] = keys[n]}
    IN  IF same = {} THEN Append(list, n)
        ELSE IF ranks[n] > ranks[list[Min(same)]] THEN [list EXCEPT ![Min(same)] = n] ELSE list

\* listed[n] holds one list, that of the first n entries: TLC evaluates the
\* variable of a set once, and a definition as often as it is named.
Survivors(keys, ranks) ==
    LET listed[n \in 0..Len(keys)] ==
          IF n = 0 THEN {<<>>} ELSE {Put(list, n, keys, ranks) : list \in listed[n - 1]}
    IN  CHOOSE list \in listed[Len(keys)] : TRUE

Merged(s, keys, ranks) ==
    LET best == Survivors(keys, ranks) IN [i \in DOMAIN best |-> s[best[i]]]

Unranked(s) == [i \in DOMAIN s |-> 0]

\* extract_urls, extract_emails and _collect_emails: the first of equal entries
\* (t stands for the list, so that TLC evaluates it once).
Distinct(s) == CHOOSE d \in {Merged(t, t, Unranked(t)) : t \in {s}} : TRUE

\* The entries outside a set, in order.
Without(s, drop) == FlattenSeq([i \in DOMAIN s |-> IF s[i] \in drop THEN <<>> ELSE <<s[i]>>])

-----------------------------------------------------------------------------
(* What the enrichers return.                                              *)

Empty == [handles |-> <<>>, emails |-> <<>>, jobs |-> <<>>, found |-> {},
          verified |-> <<>>, sources |-> {}]

Handle(platform, user, conf, by) ==
    [platform |-> platform, user |-> user, conf |-> conf, by |-> by]

BaseConfidence == [sherlock |-> 75, maigret |-> 85, gitrecon |-> 90]

\* Two URLs whose hosts share their first label are two handles of one platform.
UrlsToHandles(e, urls) ==
    [i \in DOMAIN urls |-> Handle(PlatformOf[urls[i]], "subject", BaseConfidence[e], e)]

CliFragments(e) == {[Empty EXCEPT !.handles = UrlsToHandles(e, Distinct(out))] : out \in Listings}

AnalyzerFragment(rows) ==
    LET good == Without(rows, {row \in ToSet(rows) : ~row.good})
    IN  [Empty EXCEPT !.handles =
            [i \in DOMAIN good |-> Handle(good[i].platform, "subject", good[i].rate, "social_analyzer")]]

GitReconFragment(login, emails) ==
    [Empty EXCEPT !.handles = <<Handle("github", login, BaseConfidence["gitrecon"], "gitrecon")>>,
                  !.found = {"github"}, !.emails = emails]

Lower(emails) == [i \in DOMAIN emails |-> [addr |-> emails[i].addr, caps |-> FALSE]]

\* The names of the coworkers are read off their addresses.
CrossLinkedFragment(emails) ==
    [Empty EXCEPT !.emails = emails, !.found = IF emails = <<>> THEN {} ELSE {"coworkers"}]

Plain(addrs) == [i \in DOMAIN addrs |-> [addr |-> addrs[i], caps |-> FALSE]]

\* email-sleuth's own list, or the guesses when it is absent or finds nothing.
DiscoverFragment(emails) ==
    [Empty EXCEPT !.emails = IF emails = <<>> THEN Plain(Patterns) ELSE emails]

Fragments(e) ==
    CASE e = "linkedin_photo" -> {[Empty EXCEPT !.found = {"photo"}]}
      [] e \in {"sherlock", "maigret"} -> CliFragments(e)
      [] e = "social_analyzer" -> {AnalyzerFragment(rows) : rows \in Rows}
      [] e = "gitrecon" -> {GitReconFragment(login, l) : login \in {"subject", "renamed"}, l \in Leaks}
      [] e = "theharvester" -> {[Empty EXCEPT !.emails = Distinct(Lower(l))] : l \in Harvests}
      [] e = "email_discover" -> {DiscoverFragment(l) : l \in Leaks}
      [] e = "crosslinked" -> {CrossLinkedFragment(Distinct(Lower(l))) : l \in Harvests}
      [] e = "jobspy" -> {[Empty EXCEPT !.jobs = rows] : rows \in Postings}
      [] e = "local_business" -> {[Empty EXCEPT !.found = {"business"}]}

\* Mutant: the source replaces the fragment.
TaggedOnly(e, fragment) == [sources |-> {e}]

\* Enricher.run: a fragment with something in it carries its source.
Tagged(e, fragment) == IF fragment = Empty THEN Empty ELSE [fragment EXCEPT !.sources = {e}]

-----------------------------------------------------------------------------
(* E-mail candidates and the verification chain.                           *)

Join(list, field) == FlattenSeq([i \in DOMAIN list |-> list[i][field]])

Addresses(emails) == [i \in DOMAIN emails |-> emails[i].addr]

MaxCandidates == IF Cap < 1 THEN 1 ELSE Cap

\* Mutant: the person's own address comes last, where the cap may cut it.
CollectOwnLast(discovered) ==
    LET r     == setup.request
        own   == IF "email" \in r.has THEN <<r.email>> ELSE <<>>
        found == Addresses(Join(discovered, "emails"))
        all   == Distinct(Without(found \o own, Junk))
    IN  SubSeq(all, 1, Min({Len(all), MaxCandidates}))

\* The person's own address first, then what the discoverers found, then,
\* only when there is nothing, the guesses; no address twice.  A string
\* without an "@" is passed over, the person's own as well.
CollectCandidates(discovered) ==
    LET r     == setup.request
        own   == IF "email" \in r.has THEN <<r.email>> ELSE <<>>
        found == Without(own \o Addresses(Join(discovered, "emails")), Junk)
        list  == Distinct(IF found = <<>> /\ "username" \in r.has THEN Patterns ELSE found)
    IN  IF Len(list) > MaxCandidates THEN SubSeq(list, 1, MaxCandidates) ELSE list

Conclusive == {"verified", "risky", "undeliverable", "catch_all"}

\* What the services say of one address; "none" is a service that is not
\* configured, does not answer, or is not asked.
Said ==
    [mx : {"yes", "no", "none"},
     reacher : Conclusive \cup {"unknown", "none"},
     aftership : {"deliverable", "risky", "none"}]

ByMx == [yes |-> "deliverable", no |-> "undeliverable", none |-> "unknown"]

Result(addr, status, source, said) ==
    [addr |-> addr, status |-> status, source |-> source, reacher |-> said]

\* Mutant: the sidecar overrides a verdict Reacher was sure of.
VerdictOfLast(addr, said) ==
    LET reacher == IF setup.mode.smtp THEN said.reacher ELSE "none"
        of(status, source) == Result(addr, status, source, reacher)
    IN  IF said.aftership # "none" THEN of(said.aftership, "aftership")
        ELSE IF reacher # "none" THEN of(reacher, "reacher")
        ELSE of(ByMx[said.mx], IF said.mx = "none" THEN "syntax" ELSE "mx")

\* EmailVerifier.verify for an address that is well formed and not disposable.
Verdict(addr, said) ==
    LET reacher == IF setup.mode.smtp THEN said.reacher ELSE "none"
        of(status, source) == Result(addr, status, source, reacher)
    IN  IF reacher \in Conclusive THEN of(reacher, "reacher")
        ELSE IF said.aftership # "none" THEN of(said.aftership, "aftership")
        ELSE IF reacher # "none" THEN of(reacher, "reacher")
        ELSE of(ByMx[said.mx], IF said.mx = "none" THEN "syntax" ELSE "mx")

-----------------------------------------------------------------------------
(* The merge: one list per part of the dossier, in payload order.          *)

Key(h) == <<h.platform, h.user>>
Keys(handles) == [i \in DOMAIN handles |-> Key(handles[i])]

\* Mutant: the first finder of a profile wins, however unsure.
MergeHandlesFirst(offers) == Merged(offers, Keys(offers), Unranked(offers))

\* A profile found again by a finder more sure of it replaces the first.
MergeHandles(offers) ==
    Merged(offers, Keys(offers), [i \in DOMAIN offers |-> offers[i].conf])

MergeEmails(offers) == Merged(offers, Addresses(offers), Unranked(offers))

JobKeys(jobs) == [i \in DOMAIN jobs |-> jobs[i].key]

\* Mutant: the last of two spellings wins, however vague.
MergeJobsLast(offers) == Merged(offers, JobKeys(offers), [i \in DOMAIN offers |-> i])

\* Rows with one title, company and location are one job; a location
\* spelled with more detail replaces a vaguer spelling.
MergeJobs(offers) ==
    Merged(offers, JobKeys(offers), [i \in DOMAIN offers |-> offers[i].detail])

MergePayloads(handles, emails, jobs, verifications) ==
    [handles  |-> MergeHandles(handles),
     emails   |-> MergeEmails(emails),
     jobs     |-> MergeJobs(jobs),
     verified |-> MergeEmails(verifications),
     found    |-> UNION {payloads[i].found : i \in DOMAIN payloads},
     sources  |-> UNION {payloads[i].sources : i \in DOMAIN payloads}]

-----------------------------------------------------------------------------
Init ==
    /\ setup \in [request : Submitted, sync : BOOLEAN, mode : Modes]
    /\ pc = "submitted"
    /\ answer = [e \in Enrichers |-> Pending]
    /\ candidates = <<>> /\ tried = 0 /\ verified = <<>>
    /\ payloads = <<>> /\ dossier = Empty
    /\ kept = <<>> /\ dropped = 0
    /\ outcome = [status |-> "running"]

\* EnrichmentRequest.ensure_identifier, then _dispatch.
Accept ==
    /\ pc = "submitted"
    /\ pc' = IF Valid(setup.request) THEN StageFrom(1) ELSE "rejected"
    /\ UNCHANGED <<setup, answer, candidates, tried, verified, payloads, dossier, kept, dropped, outcome>>

\* Mutant: an enricher that does not apply never answers.
AnswerIfWanted(e) ==
    /\ pc \in DOMAIN Registry /\ e \in ToSet(Registry[pc])
    /\ answer[e] = Pending /\ Wanted(e)
    /\ \/ answer' = [answer EXCEPT ![e] = Empty]
       \/ \E f \in Fragments(e) : answer' = [answer EXCEPT ![e] = Tagged(e, f)]
    /\ UNCHANGED <<setup, pc, candidates, tried, verified, payloads, dossier, kept, dropped, outcome>>

\* _invoke_enricher: an enricher that does not apply, that fails at any
\* point, or that finds nothing answers an empty fragment.
Answer(e) ==
    /\ pc \in DOMAIN Registry /\ e \in ToSet(Registry[pc])
    /\ answer[e] = Pending
    /\ \/ answer' = [answer EXCEPT ![e] = Empty]
       \/ /\ Wanted(e)
          /\ \E f \in Fragments(e) : answer' = [answer EXCEPT ![e] = Tagged(e, f)]
    /\ UNCHANGED <<setup, pc, candidates, tried, verified, payloads, dossier, kept, dropped, outcome>>

Collected(t) == [i \in DOMAIN Registry[t] |-> answer[Registry[t][i]]]

\* The gather returns when all have answered, in the order they were given.
EndTier ==
    /\ pc \in DOMAIN Registry
    /\ \A e \in ToSet(Registry[pc]) : answer[e] # Pending
    /\ payloads' = payloads \o Collected(pc)
    /\ IF pc = "tier3"
       THEN /\ candidates' = CollectCandidates(Collected("tier3"))
            /\ pc' = "verify"
       ELSE /\ pc' = StageFrom(After[pc])
            /\ UNCHANGED candidates
    /\ UNCHANGED <<setup, answer, tried, verified, dossier, kept, dropped, outcome>>

\* EmailVerifyEnricher.verify_emails, one address: it may be unusable.
Verify ==
    /\ pc = "verify" /\ tried < Len(candidates)
    /\ tried' = tried + 1
    /\ LET addr == candidates[tried + 1]
       IN  \/ UNCHANGED verified
           \/ verified' = Append(verified, Result(addr, "disposable", "mailchecker", "none"))
           \/ \E said \in Said : verified' = Append(verified, Verdict(addr, said))
    /\ UNCHANGED <<setup, pc, answer, candidates, payloads, dossier, kept, dropped, outcome>>

\* The verifier is called outside _invoke_enricher: a URL that httpx refuses
\* to build raises InvalidURL, which SidecarClient does not catch.
VerifierRaises ==
    /\ pc = "verify" /\ tried < Len(candidates)
    /\ pc' = "failed"
    /\ UNCHANGED <<setup, answer, candidates, tried, verified, payloads, dossier, kept, dropped, outcome>>

EndVerify ==
    /\ pc = "verify" /\ tried = Len(candidates)
    /\ payloads' = IF verified = <<>> THEN payloads
                   ELSE Append(payloads, [Empty EXCEPT !.verified = verified,
                                                       !.sources = {"email_verify"}])
    /\ pc' = StageFrom(After["verify"])
    /\ UNCHANGED <<setup, answer, candidates, tried, verified, dossier, kept, dropped, outcome>>

Merge ==
    /\ pc = "merge"
    /\ \E handles \in {Join(payloads, "handles")}, emails \in {Join(payloads, "emails")},
          jobs \in {Join(payloads, "jobs")}, verifications \in {Join(payloads, "verified")} :
          dossier' = MergePayloads(handles, emails, jobs, verifications)
    /\ pc' = "judge"
    /\ UNCHANGED <<setup, answer, candidates, tried, verified, payloads, kept, dropped, outcome>>

\* heuristic_compare: all but GitRecon label a profile with the username asked for.
Heuristic(h) ==
    IF h.user = "subject" THEN [same |-> TRUE, conf |-> 91] ELSE [same |-> FALSE, conf |-> 24]

\* The backend's answer, or the heuristic when it cannot be reached or read.
Decisions(h) ==
    {Heuristic(h)} \cup
    IF setup.mode.llm THEN [same : BOOLEAN, conf : Opinions] ELSE {}

Judged == Len(kept) + dropped

\* Mutant: a handle the disambiguator recognises is kept at any confidence.
JudgeBySameness ==
    /\ pc = "judge" /\ Judged < Len(dossier.handles)
    /\ LET h == dossier.handles[Judged + 1]
       IN  IF h.conf >= Threshold
           THEN kept' = Append(kept, h) /\ UNCHANGED dropped
           ELSE \E d \in Decisions(h) :
                  IF d.same
                  THEN /\ kept' = Append(kept, [h EXCEPT !.conf = IF d.conf > h.conf THEN d.conf ELSE h.conf])
                       /\ UNCHANGED dropped
                  ELSE dropped' = dropped + 1 /\ UNCHANGED kept
    /\ UNCHANGED <<setup, pc, answer, candidates, tried, verified, payloads, dossier, outcome>>

\* disambiguate_handles, one handle.
Judge ==
    /\ pc = "judge" /\ Judged < Len(dossier.handles)
    /\ LET h == dossier.handles[Judged + 1]
       IN  IF h.conf >= Threshold
           THEN kept' = Append(kept, h) /\ UNCHANGED dropped
           ELSE \E d \in Decisions(h) :
                  IF d.same /\ d.conf >= Threshold
                  THEN /\ kept' = Append(kept, [h EXCEPT !.conf = IF d.conf > h.conf THEN d.conf ELSE h.conf])
                       /\ UNCHANGED dropped
                  ELSE dropped' = dropped + 1 /\ UNCHANGED kept
    /\ UNCHANGED <<setup, pc, answer, candidates, tried, verified, payloads, dossier, outcome>>

\* A completion whose content is null: _parse_decision raises AttributeError,
\* which neither it nor the backends' handlers catch.
JudgeRaises ==
    /\ pc = "judge" /\ Judged < Len(dossier.handles)
    /\ setup.mode.llm
    /\ dossier.handles[Judged + 1].conf < Threshold
    /\ pc' = "failed"
    /\ UNCHANGED <<setup, answer, candidates, tried, verified, payloads, dossier, kept, dropped, outcome>>

\* Mutant: the sources are not asked.
HasListedData(d) ==
    \/ "photo" \in d.found \/ "business" \in d.found
    \/ d.handles # <<>> \/ d.emails # <<>> \/ d.verified # <<>>

\* Pipeline._execute: something in one of the listed parts is data.
HasData(d) ==
    \/ "photo" \in d.found \/ "business" \in d.found
    \/ d.handles # <<>> \/ d.emails # <<>> \/ d.verified # <<>>
    \/ d.sources # {}

Scores(d) ==
    [identity |-> IF \E i \in DOMAIN d.handles : d.handles[i].user = "subject" THEN 91
                  ELSE IF d.handles # <<>> THEN 72 ELSE 44,
     email    |-> IF \E i \in DOMAIN d.verified : d.verified[i].status # "disposable" THEN 89 ELSE 22,
     coverage |-> IF Cardinality(d.sources) > 8 THEN 100 ELSE 20 + 10 * Cardinality(d.sources)]

Finish ==
    /\ pc = "judge" /\ Judged = Len(dossier.handles)
    /\ LET d == [dossier EXCEPT !.handles = kept]
       IN  /\ dossier' = d
           /\ outcome' = [status |-> IF HasData(d) THEN "completed" ELSE "completed_no_data",
                          scores |-> Scores(d)]
    /\ pc' = "done"
    /\ UNCHANGED <<setup, answer, candidates, tried, verified, payloads, kept, dropped>>

Next ==
    \/ Accept
    \/ \E e \in Enrichers : Answer(e)
    \/ EndTier
    \/ Verify \/ VerifierRaises \/ EndVerify
    \/ Merge
    \/ Judge \/ JudgeRaises
    \/ Finish

\* Every tool, sidecar and model call has a timeout and nothing is retried
\* without a bound, so the pipeline goes on.
Spec == Init /\ [][Next]_vars /\ WF_vars(Next)

-----------------------------------------------------------------------------
(* Properties.                                                             *)

Stages == {"submitted", "rejected", "verify", "merge", "judge", "done", "failed"} \cup ToSet(Tiers)

HandleRecord == [platform : Platforms, user : {"subject", "renamed"}, conf : Int, by : Enrichers]
JobRecord == [key : STRING, detail : Int]
Verification ==
    [addr : STRING, status : Conclusive \cup {"unknown", "deliverable", "disposable"},
     source : {"reacher", "aftership", "mx", "syntax", "mailchecker"},
     reacher : Conclusive \cup {"unknown", "none"}]

Fragment ==
    [handles : Seq(HandleRecord), emails : Seq(Email), jobs : Seq(JobRecord),
     found : SUBSET {"photo", "github", "coworkers", "business"},
     verified : Seq(Verification), sources : SUBSET (Enrichers \cup {"email_verify"})]

\* Every variable holds a value of its kind; no more addresses are tried than
\* there are, and no more handles judged.
TypeOK ==
    /\ setup \in [request : Submitted, sync : BOOLEAN, mode : Modes]
    /\ pc \in Stages
    /\ answer \in [Enrichers -> Fragment \cup {Pending}]
    /\ candidates \in Seq(STRING) /\ tried \in 0..Len(candidates)
    /\ verified \in Seq(Verification) /\ Len(verified) <= tried
    /\ payloads \in Seq(Fragment) /\ dossier \in Fragment
    /\ kept \in Seq(HandleRecord) /\ dropped \in Nat
    /\ Judged <= Len(dossier.handles) \/ pc = "done"

\* What the enrichers returned, in the order of the registry, whatever the
\* order they answered in.
Given(e, field) == IF answer[e] = Pending THEN <<>> ELSE answer[e][field]

Offered(field) ==
    FlattenSeq([t \in 1..4 |->
        FlattenSeq([i \in DOMAIN Registry[Tiers[t]] |-> Given(Registry[Tiers[t]][i], field)])])

\* Whatever the answers, the merged dossier holds each profile once, in the
\* version its most confident finder gave, the first of equals (merge.py's
\* in-place replacement keyed by platform and username; a test covers two
\* payloads with one handle each).
BestHandleKept ==
    pc = "judge" =>
        LET offers == Offered("handles")
            merged == dossier.handles
        IN  /\ \A i, j \in DOMAIN merged : Key(merged[i]) = Key(merged[j]) => i = j
            /\ \A h \in ToSet(offers) : \E i \in DOMAIN merged : Key(merged[i]) = Key(h)
            /\ \A i \in DOMAIN merged : \E o \in DOMAIN offers :
                  /\ offers[o] = merged[i]
                  /\ \A p \in DOMAIN offers : Key(offers[p]) = Key(merged[i]) =>
                        /\ offers[p].conf <= merged[i].conf
                        /\ p < o => offers[p].conf < merged[i].conf

\* One enricher that fails or finds nothing costs the dossier nothing of what
\* the others found: every address is there, once and as first spelled,
\* every job with its most detailed location, and every source is named.
FindsMerged ==
    pc = "judge" =>
        LET emails == Offered("emails")
            jobs   == Offered("jobs")
        IN  /\ Len(dossier.emails) = Cardinality({emails[i].addr : i \in DOMAIN emails})
            /\ \A m \in ToSet(dossier.emails) : \E i \in DOMAIN emails :
                  emails[i] = m /\ \A j \in 1..(i - 1) : emails[j].addr # m.addr
            /\ Len(dossier.jobs) = Cardinality({jobs[i].key : i \in DOMAIN jobs})
            /\ \A b \in ToSet(dossier.jobs) : \E i \in DOMAIN jobs :
                  /\ jobs[i] = b
                  /\ \A j \in DOMAIN jobs : jobs[j].key = b.key =>
                        jobs[j].detail < b.detail \/ (jobs[j].detail = b.detail /\ i <= j)
            /\ \A e \in Enrichers : answer[e] # Pending =>
                  answer[e].sources \subseteq dossier.sources /\ answer[e].found \subseteq dossier.found

\* The verifier, the slowest step of tier 3, gets no more addresses than the
\* cap, each once; a usable address of tier 3 is left out only when the cap is
\* full, and the person's own, when it has an "@", is never the one left out
\* (_collect_email_candidates; the request accepts an address without one, and
\* the list then begins with another).
VerifiedWithinBudget ==
    /\ Len(candidates) <= MaxCandidates
    /\ \A i, j \in DOMAIN candidates : candidates[i] = candidates[j] => i = j
    /\ pc = "verify" =>
          /\ "email" \in setup.request.has /\ setup.request.email \notin Junk
                => candidates # <<>> /\ candidates[1] = setup.request.email
          /\ \A e \in ToSet(Registry["tier3"]) : \A i \in DOMAIN answer[e].emails :
                LET a == answer[e].emails[i].addr
                IN  a \in Junk \/ a \in ToSet(candidates) \/ Len(candidates) = MaxCandidates

\* A verdict Reacher is sure of reaches the dossier as it was given: an
\* address of a catch-all domain never shows as deliverable because a weaker
\* check said so (EmailVerifier.verify, and the merge of the results).
VerdictsHold ==
    \A list \in {verified, dossier.verified} : \A i \in DOMAIN list :
        /\ list[i].reacher \in Conclusive => list[i].status = list[i].reacher
        /\ list[i].status = "verified" => list[i].reacher = "verified"

\* Every handle of a finished dossier is vouched for at the threshold by its
\* finder or by the disambiguator, the others are counted as dropped, and no
\* handle its finder was sure of is dropped (disambiguate_handles).
Vouched ==
    LET best == Offered("handles")
        sure == {Key(best[i]) : i \in {j \in DOMAIN best : best[j].conf >= Threshold}}
    IN  pc = "done" =>
          /\ \A i \in DOMAIN kept : kept[i].conf >= Threshold
          /\ Len(kept) + dropped = Cardinality({Key(best[i]) : i \in DOMAIN best})
          /\ sure \subseteq {Key(kept[i]) : i \in DOMAIN kept}
          /\ dossier.handles = kept

\* A job ends as completed_no_data exactly when no enricher contributed and no
\* address was verified, though the test of _execute leaves out jobs,
\* coworkers and the GitHub profile, and runs after handles were dropped.
StatusTruthful ==
    pc = "done" =>
        (outcome.status = "completed_no_data"
            <=> \A e \in Enrichers : answer[e] \in {Pending, Empty}
                 /\ verified = <<>>)

\* Every request ends: rejected, finished or failed, whichever enrichers fail.
EveryDispatchEnds == <>(pc \in {"rejected", "done", "failed"})
=============================================================================
