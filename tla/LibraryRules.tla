---------------------------- MODULE LibraryRules ----------------------------
(***************************************************************************)
(* The rules of the global source library: what makes campaigns the same   *)
(* and which queries they plan (global_source_library.py), what a batch    *)
(* finds on the Web (global_web_discovery.py, web_page_extraction.py), and *)
(* which of the candidates an operator has validated and audited           *)
(* (operator_cli.py).                                                      *)
(***************************************************************************)
EXTENDS WebRules

CONSTANT Norm  \* [term -> the words of it in lower case], where they differ

Normal(term) == IF term \in DOMAIN Norm THEN Norm[term] ELSE term
Unique(s) == FoldLeft(LAMBDA seen, t : IF t \in ToSet(seen) THEN seen ELSE Append(seen, t), <<>>, s)
Normals(terms) == [i \in DOMAIN terms |-> Normal(terms[i])]
Cleaned(terms) == Unique(SelectSeq(Normals(terms), LAMBDA t : t # ""))
(* Terms in any order, but as often as they are named.                     *)
Counted(terms) == [t \in ToSet(terms) |-> Cardinality({i \in DOMAIN terms : terms[i] = t})]

-----------------------------------------------------------------------------
(* Campaigns                                                               *)

CampaignSpec(type, habitats, buyers, industries) ==
    [type |-> type, languages |-> <<"en", "ru">>, geo |-> <<>>, specialist |-> <<>>, buyers |-> buyers,
     habitats |-> habitats, industries |-> industries, from |-> "base_taxonomy", profile |-> None, gap |-> None]

(* campaign_key: campaigns for the gaps of a profile leave the profile out.*)
CampaignKey(spec) ==
    [type |-> spec.type, languages |-> ToSet(spec.languages), geo |-> ToSet(spec.geo),
     specialist |-> Counted(Normals(spec.specialist)), buyers |-> Counted(Normals(spec.buyers)),
     habitats |-> Counted(Normals(spec.habitats)), industries |-> Counted(Normals(spec.industries)),
     from |-> spec.from, gap |-> spec.gap,
     profile |-> IF spec.type = "profile_gap" THEN None ELSE spec.profile]

BootstrapSpecs(taxonomy) ==
    [i \in DOMAIN taxonomy |-> CampaignSpec("bootstrap", taxonomy[i].habitats, <<taxonomy[i].label>>, taxonomy[i].industries)]

GapSpec(profile, habitats, industries, specialist, languages, geo) ==
    [CampaignSpec("profile_gap", Cleaned(habitats), Cleaned(industries), Cleaned(industries))
        EXCEPT !.languages = Unique(languages), !.geo = Cleaned(geo), !.specialist = Cleaned(specialist),
               !.from = "search_profile", !.profile = profile,
               !.gap = Counted(Cleaned(habitats) \o Cleaned(industries))]

AreSeeds(ids) == ids # {} /\ \A id \in ids : id > 0
GraphSpec(ids) ==
    [CampaignSpec("source_graph_expansion", <<"approved Telegram communities">>, <<"approved Telegram source graph">>, <<"telegram">>)
        EXCEPT !.from = "approved_source", !.gap = ids]

AreTargets(unique, validated, approved) == 0 < approved /\ approved <= validated /\ validated <= unique

(* generate_campaign_queries; a text is a template with a topic.           *)
Templates(language) ==
    LET OneOf(of, own, other) == IF language = of THEN own ELSE other
    IN  <<[family |-> "direct", text |-> "Telegram chat .."], [family |-> "direct", text |-> "Telegram community .."],
          [family |-> "direct", text |-> OneOf("ru", "Telegram-chat ..", "Telegram group ..")],
          [family |-> "site", text |-> "site:t.me .."],
          [family |-> "directory", text |-> OneOf("en", "best communities for ..", "spisok chatov ..")],
          [family |-> "habitat", text |-> OneOf("en", ".. community", ".. soobshchestvo")],
          [family |-> "hub", text |-> OneOf("en", "list ..", "luchshie ..")]>>

PlannedQuery(spec, template, language, topic) ==
    [campaign |-> CampaignKey(spec), family |-> template.family, language |-> language, topic |-> topic,
     text |-> <<template.text, topic>>, key |-> <<template.text, Normal(topic)>>]

PlannedQueries(spec) ==
    LET topics == SelectSeq(Unique(spec.habitats \o spec.buyers \o spec.industries), LAMBDA t : t # "")
        InAll(among, templates) ==
          FlattenSeq([l \in DOMAIN spec.languages |-> FlattenSeq([t \in DOMAIN among |->
            [i \in DOMAIN templates[spec.languages[l]] |->
               PlannedQuery(spec, templates[spec.languages[l]][i], spec.languages[l], among[t])]])])
        gap == <<[family |-> "gap", text |-> ".. Telegram"]>>
    IN  InAll(topics, [l \in ToSet(spec.languages) |-> Templates(l)])
          \o IF spec.type = "profile_gap" THEN InAll(spec.habitats, [l \in ToSet(spec.languages) |-> gap]) ELSE <<>>

(* collapse_campaign_queries: the key of a query is its normalized text.   *)
SameQuery(q, p) == q.campaign = p.campaign /\ q.family = p.family /\ q.key = p.key
NearQuery(q, p) ==
    /\ q.campaign = p.campaign /\ q.family = p.family /\ q.language = p.language
    /\ Normal(q.topic) = Normal(p.topic) /\ Normal(q.topic) # "" /\ q.key = p.key
CampaignQueries(spec) ==
    FoldLeft(LAMBDA kept, q : IF \E i \in DOMAIN kept : SameQuery(q, kept[i]) \/ NearQuery(q, kept[i])
                              THEN kept ELSE Append(kept, q), <<>>, PlannedQueries(spec))

(* _query_dedup_report counts what is planned twice, by key or by text.    *)
PlannedTwice(rows, campaign) ==
    LET of == {r \in rows : r.campaign = campaign}
        More(f) == Cardinality(of) - Cardinality({r[f] : r \in of})
        exact == IF More("key") < More("text") THEN More("text") ELSE More("key")
    IN  [planned |-> Cardinality(of), exact |-> exact, executable |-> Cardinality(of) - exact]

-----------------------------------------------------------------------------
(* Pages: fetch follows redirects, each to a public address; a page that   *)
(* does not come in time is an error nobody expects, and ends the run.     *)

FetchFailure(class) == [class |-> class, links |-> <<>>, at |-> None]
Fetch(address, page, redirects) ==
    LET f[n \in 0..redirects, url \in DOMAIN page] ==
          LET p == page[url]
          IN  CASE ~p.isPublic -> FetchFailure("unsafe_page_url")
                [] p.isPublic /\ p.is = "redirect" ->
                     IF p.to = None THEN FetchFailure("redirect_invalid")
                     ELSE IF n = redirects THEN FetchFailure("redirect_limit") ELSE f[n + 1, p.to]
                [] p.isPublic /\ p.is = "failure" -> FetchFailure(p.class)  \* "timeout": TimeoutError
                [] p.isPublic /\ p.is = "page" ->
                     IF ~p.isText THEN FetchFailure("content_type")
                     ELSE IF p.isLarge THEN FetchFailure("response_too_large")
                     ELSE [class |-> None, links |-> p.links, at |-> url]
    IN  f[0, address]

(* extract_telegram_links: chats each once, and no more than there is room *)
(* for.                                                                    *)
LinksOf(fetched, most) ==
    FoldLeft(LAMBDA links, link :
        IF link = None \/ Len(links) >= most \/ \E i \in DOMAIN links : links[i].key = link.key
        THEN links ELSE Append(links, link), <<>>, fetched.links)

-----------------------------------------------------------------------------
(* What a batch finds (GlobalWebDiscoveryProvider)                         *)

Funnel == [raw |-> 0, valid |-> 0, rejected |-> 0, seen |-> <<>>]
MostSeen == 1000
WithSeen(f, entry) == IF Len(f.seen) < MostSeen THEN Append(f.seen, entry) ELSE f.seen
Entry(key, kind, bucket) == [key |-> key, kind |-> kind, count |-> 1, bucket |-> bucket]
Accepted(f, key, kind) ==
    LET at == {i \in DOMAIN f.seen : f.seen[i].key = key}
    IN  [f EXCEPT !.raw = @ + 1, !.valid = @ + 1,
                  !.seen = IF at # {} THEN [@ EXCEPT ![Min(at)].count = @ + 1] ELSE WithSeen(f, Entry(key, kind, None))]
Declined(f, url) ==
    [f EXCEPT !.raw = @ + 1, !.rejected = @ + 1,
              !.seen = WithSeen(f, Entry(<<"url", url>>, "direct_result", "INVALID_SOURCE_TYPE"))]
(* finalize_candidate_funnel                                               *)
Finalized(f, bucket) ==
    LET open == {i \in DOMAIN f.seen : f.seen[i].bucket = None}
        Of(i) == IF f.seen[i].key \in DOMAIN bucket THEN bucket[f.seen[i].key] ELSE "OTHER_REJECTION"
    IN  [b \in {Of(i) : i \in open} |->
            FoldLeft(LAMBDA n, i : IF i \in open /\ Of(i) = b THEN n + f.seen[i].count ELSE n,
                     0, [i \in DOMAIN f.seen |-> i])]

(* _observed_from_reference, _observed_from_extracted and _merge_observed: *)
(* a chat found again gives its domain, its page and its evidence to the   *)
(* first finding, evidence of one page once.                               *)
Evidence(ref, q, kind, domain, page) == [key |-> <<domain, page, ref.key>>, query |-> q.key, kind |-> kind]
Sighting(ref, q, kind, domain, page) ==
    [ref |-> ref, query |-> q.key, kind |-> kind, domains |-> {domain} \ {None}, pages |-> {page},
     evidence |-> <<Evidence(ref, q, kind, domain, page)>>]
Merged(observed, s) ==
    LET at == {i \in DOMAIN observed : observed[i].ref.key = s.ref.key}
        New(e) == ~\E i \in DOMAIN e : e[i].key = s.evidence[1].key
    IN  IF at = {} THEN Append(observed, s)
        ELSE [observed EXCEPT ![Min(at)].domains = @ \cup s.domains, ![Min(at)].pages = @ \cup s.pages,
                              ![Min(at)].evidence = IF New(@) THEN @ \o s.evidence ELSE @]

WithLinks(run, q, links, domain, at) ==
    FoldLeft(LAMBDA r, link :
        [r EXCEPT !.funnel = Accepted(@, link.key, "page_extracted"),
                  !.observed = Merged(@, Sighting(link, q, "page_extracted", domain, at))],
        run, links)

(* One result of a query.  Results beyond the last chat wanted are left.   *)
IsFull(run, settings) == Len(run.observed) >= settings.most
WithResult(run, q, result, pages, settings) ==
    LET fetched == Fetch(result.url, pages, settings.redirects)
        fetches == [run EXCEPT !.fetches = @ + 1]
    IN  IF run.raised \/ IsFull(run, settings) THEN run
        ELSE IF result.ref # None
        THEN [run EXCEPT !.funnel = Accepted(@, result.ref.key, "direct_result"),
                         !.observed = Merged(@, Sighting(result.ref, q, "direct_result", result.domain, result.url))]
        ELSE IF result.isTelegram THEN [run EXCEPT !.funnel = Declined(@, result.url)]
        ELSE IF run.fetches >= settings.pages THEN run
        ELSE IF fetched.class = "timeout" THEN [fetches EXCEPT !.raised = TRUE]
        ELSE IF fetched.class # None THEN [fetches EXCEPT !.failures = Append(@, fetched.class)]
        ELSE WithLinks(fetches, q, LinksOf(fetched, settings.most - Len(run.observed)), result.domain, fetched.at)

(* _search_with_fallback; the budget is asked before the governor is.      *)
WithFallback(run, q, backends, replies, settings) ==
    FoldLeft(LAMBDA r, b :
        LET s == Searched(r.world, b, <<q.text, q.language, settings.limit>>,
                          Ask(b, replies[<<b, q.text>>], settings.limit), settings.gap)
            Fails(x, class) == [x EXCEPT !.failures = Append(@, class),
                                         !.attempts = Append(@, [backend |-> b, class |-> class])]
        IN  IF r.answered THEN r
            ELSE IF <<b, q.key>> \notin settings.allowed THEN Fails(r, "budget_exceeded")
            ELSE IF IsFailure(s.answer) THEN Fails([r EXCEPT !.world = s.world], s.answer.class)
            ELSE [r EXCEPT !.world = s.world, !.answered = TRUE, !.results = s.answer.rows,
                           !.attempts = Append(@, [backend |-> b, class |-> None])],
        [run EXCEPT !.answered = FALSE, !.results = <<>>], backends)

(* discover: a query no backend answers, too, ends a batch with an error,  *)
(* and what it found is lost.                                              *)
Batch(world, queries, backends, replies, pages, settings) ==
    FoldLeft(LAMBDA run, q :
        LET r == WithFallback(run, q, backends, replies, settings)
        IN  IF run.raised \/ IsFull(run, settings) THEN run
            ELSE IF ~r.answered THEN [r EXCEPT !.raised = TRUE]
            ELSE FoldLeft(LAMBDA x, result : WithResult(x, q, result, pages, settings), r, r.results),
        [world |-> world, observed |-> <<>>, fetches |-> 0, funnel |-> Funnel, failures |-> <<>>,
         attempts |-> <<>>, answered |-> FALSE, results |-> <<>>, raised |-> FALSE], queries)

(* _record_provider_attempt, _success, _failure                            *)
Usage(run, b) ==
    LET Of(S) == Cardinality({i \in DOMAIN run.attempts : run.attempts[i].backend = b /\ run.attempts[i].class \in S})
        classes == {run.attempts[i].class : i \in DOMAIN run.attempts}
    IN  [attempted |-> Of(classes), successful |-> Of({None}), failures |-> Of(classes \ {None})]

-----------------------------------------------------------------------------
(* Priorities (prioritize_candidate, _candidate_priority_context)          *)

Score(c) ==
    LET If(holds, n) == IF holds THEN n ELSE 0
    IN  If(c.flags \cap {"normalized_reference", "telegram_reference"} # {}, 2)
          + If("direct_telegram_result" \in c.flags, 3) + If("source_graph_provenance" \in c.flags, 2)
          + Smaller(3, c.domains) + Smaller(2, c.gaps)
          - If(c.flags \cap {"bot_like", "contact_like", "spam_directory"} # {}, 5)
Priorities == <<"HIGH", "MEDIUM", "LOW", "INSUFFICIENT">>
Prioritized(c) ==
    CASE Score(c) >= 6 -> "HIGH" [] Score(c) \in 3..5 -> "MEDIUM" [] Score(c) \in 1..2 -> "LOW"
      [] Score(c) < 1 -> "INSUFFICIENT"

(* A batch names its gaps, and counts none of them.                        *)
BatchCandidates(run) ==
    [i \in DOMAIN run.observed |->
        LET o == run.observed[i]
        IN  [key |-> <<"global-web", o.ref.key>>, handle |-> o.ref.handle, seed |-> o.query,
             access |-> IF o.ref.isInvite THEN "private" ELSE "public",
             id |-> IF o.ref.handle = None THEN o.ref.key ELSE <<"username", o.ref.handle>>,
             priority |-> Prioritized([flags |-> {"telegram_reference"} \cup
                              IF o.kind = "direct_result" THEN {"direct_telegram_result"} ELSE {},
                              domains |-> Cardinality(o.domains), gaps |-> 0]),
             evidence |-> First(o.evidence, 50)]]

(* Of a source with its lineage, evidence and aliases.  A count of domains *)
(* without their names is made up from numbers, the same for every count.  *)
PriorityContext(lineage, source, evidence, aliases) ==
    LET WithItem(domains, item) ==
          domains \cup {<<"legacy", n>> : n \in 0..(item.independent - Cardinality(domains) - 1)}
                  \cup {<<"domain", d>> : d \in item.domains}
        domains == FoldLeft(WithItem, {}, lineage) \cup {<<"domain", e.domain>> : e \in {r \in evidence : r.domain # None}}
        gaps == {lineage[i].gaps : i \in DOMAIN lineage} \cup {e.gaps : e \in evidence}
        If(holds, flags) == IF holds THEN flags ELSE {}
    IN  [flags |-> UNION {lineage[i].flags : i \in DOMAIN lineage}
                     \cup If(source.isReference \/ aliases # {}, {"normalized_reference", "telegram_reference"})
                     \cup If(\E e \in evidence : e.kind = "direct_result", {"direct_telegram_result"})
                     \cup If(\E e \in evidence : e.kind = "source_graph" /\ e.isGraph, {"source_graph_provenance"}),
         domains |-> Cardinality(domains), gaps |-> Max(gaps \cup {0})]

(* _rerank_candidate_report: the signals of the candidates of a priority.  *)
Signals(c) ==
    (c.flags \cap {"normalized_reference", "direct_telegram_result", "source_graph_provenance"})
      \cup (IF c.domains > 0 THEN {"independent_domain"} ELSE {}) \cup (IF c.gaps > 0 THEN {"profile_gap"} ELSE {})
Reranked(contexts) ==
    [p \in ToSet(Priorities) |-> Counted(LET of == SelectSeq(contexts, LAMBDA c : Prioritized(c) = p)
                                         IN  [i \in DOMAIN of |-> Signals(of[i])])]

-----------------------------------------------------------------------------
(* The canary: some candidates are validated, some of those audited        *)

(* _select_candidate_canary                                                *)
Canary(candidates, limit) ==
    LET Of(p) == SelectSeq(candidates, LAMBDA c : c.priority = p)
        high == First(Of("HIGH"), IF 60 * limit < 100 THEN 1 ELSE (60 * limit) \div 100)
        chosen == high \o First(Of("MEDIUM"), (25 * limit) \div 100)
        explored == chosen \o First(Of("LOW") \o Of("INSUFFICIENT"), limit - Len(chosen))
        ids == {explored[i].id : i \in DOMAIN explored}
        rest == SelectSeq(candidates, LAMBDA c : c.id \notin ids)
    IN  First(explored \o rest, limit)

(* Validations, then audits of what was found accessible; a flood wait     *)
(* ends either, an error of another kind is counted and passed over.       *)
Stage(ids, outcome, done) ==
    FoldLeft(LAMBDA s, id :
        IF s.flooded THEN s
        ELSE [attempted |-> Append(s.attempted, id), flooded |-> outcome[id] = "flood",
              done |-> IF outcome[id] = done THEN Append(s.done, id) ELSE s.done],
        [attempted |-> <<>>, flooded |-> FALSE, done |-> <<>>], ids)
Validated(ids, outcome) == Stage(ids, outcome, "accessible")
Audited(accessible, auditLimit, hasProvider, outcome) ==
    Stage(IF hasProvider THEN First(accessible, auditLimit) ELSE <<>>, outcome, "audited")
CanaryRun(candidates, limit, auditLimit, validation, audit, hasProvider) ==
    LET chosen == Canary(candidates, limit)
        validated == Validated([i \in DOMAIN chosen |-> chosen[i].id], validation)
    IN  [validated |-> validated, audited |-> Audited(validated.done, auditLimit, hasProvider, audit)]
=============================================================================
