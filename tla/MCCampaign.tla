----------------------------- MODULE MCCampaign -----------------------------
(***************************************************************************)
(* An instance of Campaign for TLC: two processes run the batches of one   *)
(* query each.  The rules of WebRules, LibraryRules and EvidenceRules are  *)
(* evaluated over small histories of searches, plans, replies, pages,      *)
(* candidates, validations and evidence.                                   *)
(***************************************************************************)
EXTENDS Campaign, SequencesExt, TLC

CONSTANTS r1, r2

MCSymmetry == Permutations(Runners)
-----------------------------------------------------------------------------
(* The rules of the search on the Web.                                     *)
MCNorm == "Shops" :> "shops"
Web == INSTANCE EvidenceRules WITH BaseBackoff <- 2, MaxBackoff <- 6, Likeness <- <<>>, Norm <- MCNorm

Refused(h, at) == Web!Refusal(h, at)
Start(rows, at) == [governor |-> Web!Governor, rows |-> rows, at |-> at]
Replies == {Web!Found(<<1>>), Web!Failed("http_429", 3), Web!Failed("captcha", None)}
Steps == [reply : Replies, wait : {0, 1, 4}, restarts : BOOLEAN]
Stepped(w, step, n) ==
    LET later == [w EXCEPT !.at = @ + step.wait]
    IN  Web!Searched(IF step.restarts THEN Start(later.rows, later.at) ELSE later, "brave", n, step.reply, 1).world
Worlds(n) == {FoldLeft(LAMBDA w, i : Stepped(w, steps[i], i), Start({}, 0), [i \in 1..n |-> i]) : steps \in [1..n -> Steps]}

(* A restart neither forgets what a backend is refused for nor prolongs    *)
(* it, and a backend that failed three times in a row is not asked again.  *)
ASSUME RestartsKeepRefusals ==
    \A w \in Worlds(3), later \in 0..7 :
        LET at == w.at + later
            known == Web!HealthOf(w.governor.health, "brave")
            anew == Web!HealthOf(Web!Restore(Web!Governor, w.rows, at).health, "brave")
            asked == Web!Searched([w EXCEPT !.at = at], "brave", 0, Web!Found(<<>>), 1)
        IN  /\ w.governor.restored /\ Refused(anew, at) = Refused(known, at)
            /\ known.failures >= 3 => Refused(known, at) = "provider_unavailable"
            /\ Refused(known, at) # None => asked.world.governor = w.governor /\ Web!IsFailure(asked.answer)
            /\ \A i \in DOMAIN Web!Gaps(asked.world.governor.times) : Web!Gaps(asked.world.governor.times)[i] >= 1
            /\ Web!Aggregate(<<known, Web!Fresh>>).state = (IF known.state = "READY" THEN "READY" ELSE "DEGRADED")

(* Another process that has not read the row may set it back.              *)
ASSUME AnotherProcessMayRevive ==
    \E w \in Worlds(3) :
        LET other == Web!Searched(Start({}, 0), "brave", 9, Web!Found(<<1>>), 1).world
        IN  /\ Web!HealthOf(w.governor.health, "brave").state = "UNAVAILABLE"
            /\ Web!Listed(Web!Searched([other EXCEPT !.rows = w.rows, !.at = 9], "brave", 1, Web!Found(<<1>>), 1).world.rows)["brave"].state
                 = "READY"

Link(word, name) == [host |-> "telegram", words |-> <<[is |-> word, name |-> name]>>]
RowsOf == UNION {[1..n -> {None, Link("handle", 1), Link("handle", 2), Link("plus", 3)}] : n \in 0..3}
Bodies == [is : {"body"}, isLarge : BOOLEAN, rows : RowsOf, engines : {{}, {"429", "suspended"}}]
(* A backend finds no more than it is asked for, and SearXNG finds what    *)
(* the others miss when rows without an address come first.                *)
ASSUME AnswersAreBounded ==
    \A body \in Bodies, limit \in {1, 2, 21} :
        LET searxng == Web!Ask("searxng", body, limit)
            primary == Web!Ask("primary_json_search", body, limit)
        IN  /\ \A b \in {"brave", "primary_json_search", "searxng"} :
                   LET a == Web!Ask(b, body, limit)
                   IN  Len(a.rows) <= limit /\ None \notin ToSet(a.rows) /\ (Web!IsFailure(a) => a.rows = <<>>)
            /\ Len(primary.rows) <= Len(searxng.rows) /\ (body.isLarge => Web!IsFailure(primary))
            /\ ~Web!IsFailure(searxng) => Len(searxng.rows) = Web!Smaller(limit, Len(SelectSeq(body.rows, Web!IsAddressed)))
            /\ body.rows = <<>> /\ body.engines # {} => Web!IsFailure(searxng)
            /\ limit = 21 => Web!Ask("brave", body, limit).class = "backend_error"

Topic(words, angle) == [category |-> "c", language |-> "en", words |-> words, angle |-> angle]
TopicLists == UNION {[1..n -> {Topic({"n8n", "bot"}, "direct"), Topic({"n8n", "bots"}, "direct"), Topic({"sql"}, "adjacent")}] : n \in 1..3}
Seeds == {[phrase |-> "need", language |-> "en"], [phrase |-> "nuzhen", language |-> "ru"]}
(* Of queries that are alike the first is kept, and all are accounted for. *)
ASSUME QueriesAreCollapsed ==
    \A topics \in TopicLists :
        LET queries == Web!BuildQueries(topics, Seeds, None)
            texts == {queries[i].text : i \in DOMAIN queries}
            Alike == INSTANCE WebRules WITH BaseBackoff <- 2, MaxBackoff <- 6, Likeness <- [pair \in texts \X texts |-> 95]
        IN  \A c \in {Web!Collapsed(queries), Alike!Collapsed(queries)} :
              /\ Len(c.queries) + c.exact + c.near = Len(queries) /\ c.queries[1] = queries[1]
              /\ IsInjective([i \in DOMAIN c.queries |-> c.queries[i].text])
              /\ {c.queries[i].angle : i \in DOMAIN c.queries} = {queries[i].angle : i \in DOMAIN queries}

Plan == Web!BuildQueries(<<Topic({"n8n", "bot"}, "direct"), Topic({"sql"}, "adjacent")>>, {}, None)
Body(rows) == [is |-> "body", isLarge |-> FALSE, rows |-> rows, engines |-> {}]
SomeReplies == {Body(<<Link("handle", 1), Link("plus", 2), Link("handle", 1)>>), Body(<<Link("handle", 2), Link("handle", 3)>>),
                [is |-> "timeout"], [is |-> "refusal", status |-> "http_429", retryAfter |-> 3]}
(* A run ends at the first query that no backend answers; who is asked     *)
(* again in a later run is asked for what is not known yet.                *)
ASSUME RunsStopAtFailures ==
    \A replies \in [{"brave", "searxng"} \X {Plan[i].text : i \in DOMAIN Plan} -> SomeReplies], most \in {1, 5} :
        LET settings == [limit |-> 3, most |-> most, gap |-> 1]
            run == Web!Discovered(Start({}, 0), Plan, <<"brave", "searxng">>, replies, settings)
            again == Web!Discovered(run.world, Plan, <<"brave", "searxng">>, replies, settings)
            failed == {i \in DOMAIN run.attempts : run.attempts[i].class # None}
        IN  /\ Len(run.found) <= most /\ IsInjective([i \in DOMAIN run.found |-> run.found[i].handle])
            /\ Web!Outcome(run) = "RESULTS" => failed = {}
            /\ \A i \in failed : \/ run.attempts[i].state \in {"BACKOFF", "UNAVAILABLE"} /\ i < Len(run.attempts)
                                 \/ i = Len(run.attempts) /\ run.stopped
            /\ run.found # <<>> => Web!Handle([host |-> "telegram", words |-> <<[is |-> "s", name |-> 0], [is |-> "handle", name |-> run.found[1].handle]>>]) = run.found[1].handle
            /\ failed = {} => again.world.governor.times = run.world.governor.times /\ again.found = run.found

-----------------------------------------------------------------------------
(* The rules of the global source library.                                 *)
Terms == {"shops", "Shops", "hotels"}
TermLists == UNION {[1..n -> Terms] : n \in 0..2}
GapsOf(profile) == {Web!GapSpec(profile, h, i, <<>>, <<"en", "ru">>, <<>>) : h \in TermLists, i \in TermLists}
(* Profiles with the same gaps share one campaign, in whatever words and   *)
(* order they name them, and no campaign is of two kinds.                  *)
ASSUME GapCampaignsAreShared ==
    /\ \A g \in GapsOf(1), h \in GapsOf(2) :
         LET Of(terms) == {Web!Normal(terms[i]) : i \in DOMAIN terms}
         IN  Web!CampaignKey(g) = Web!CampaignKey(h) <=>
               Of(g.habitats) = Of(h.habitats) /\ Of(g.industries) = Of(h.industries)
    /\ \A g \in GapsOf(1), b \in ToSet(Web!BootstrapSpecs(<<[label |-> "shops", habitats |-> <<"Shops">>, industries |-> <<>>]>>)) :
         Web!CampaignKey(g).type # Web!CampaignKey(b).type
    /\ Web!AreSeeds({1}) /\ ~Web!AreSeeds({0, 1}) /\ Web!CampaignKey(Web!GraphSpec({1})) # Web!CampaignKey(Web!GraphSpec({1, 2}))
    /\ \A unique, validated, approved \in 0..2 : Web!AreTargets(unique, validated, approved) => unique >= approved /\ approved > 0

Specs == {g \in GapsOf(1) : Len(g.habitats) <= 1} \cup ToSet(Web!BootstrapSpecs(
            <<[label |-> "shops", habitats |-> <<"Shops", "hotels">>, industries |-> <<"shops", "">>]>>))
(* A plan has each text once, in the first language that has it, for every *)
(* topic in every family; what is near a planned query is that query.      *)
ASSUME PlansAreCollapsed ==
    \A spec \in Specs :
        LET all == Web!PlannedQueries(spec)
            plan == Web!CampaignQueries(spec)
            rows == {[campaign |-> 1, key |-> plan[i].key, text |-> plan[i].text, n |-> i] : i \in DOMAIN plan}
        IN  /\ IsInjective([i \in DOMAIN plan |-> plan[i].key]) /\ Web!PlannedTwice(rows, 1).exact = 0
            /\ \A i \in DOMAIN all : /\ \E j \in DOMAIN plan : Web!SameQuery(all[i], plan[j])
                                     /\ \A j \in DOMAIN all : Web!NearQuery(all[i], all[j]) => Web!SameQuery(all[i], all[j])
            /\ \A i \in DOMAIN plan : plan[i].family \in {"direct", "site"} /\ plan[i].language = "ru" =>
                 plan[i].text[1] = "Telegram-chat .."

Chat(n) == [key |-> <<"username", n>>, handle |-> n, isInvite |-> FALSE]
Result(url, ref) == [url |-> url, ref |-> ref, isTelegram |-> ref # None \/ url = "t.me/share", domain |-> url]
Page(links) == [isPublic |-> TRUE, is |-> "page", isText |-> TRUE, isLarge |-> FALSE, links |-> links]
Hop(to) == [isPublic |-> TRUE, is |-> "redirect", to |-> to]
PageSets ==
    {("list" :> p) @@ ("old" :> Hop("list")) @@ ("loop" :> Hop("loop")) @@ ("t.me/1" :> Page(<<>>)) @@ ("t.me/share" :> Page(<<>>)) :
        p \in {Page(<<None, Chat(2), Chat(2), Chat(1), Chat(3)>>), [Page(<<>>) EXCEPT !.isText = FALSE], [Page(<<>>) EXCEPT !.isPublic = FALSE],
               [isPublic |-> TRUE, is |-> "failure", class |-> "timeout"]}}
Rows(urls) == Body([i \in DOMAIN urls |-> Result(urls[i], IF urls[i] = "t.me/1" THEN Chat(1) ELSE None)])
Q(n) == [text |-> n, key |-> n, language |-> "en"]
BatchReplies == {Rows(<<"t.me/1", "list", "t.me/share", "t.me/1">>), Rows(<<"old", "loop", "list">>), [is |-> "timeout"]}
(* A batch keeps its bounds, accounts for every link to Telegram it read,  *)
(* keeps each chat and each page's evidence of it once, and asks no        *)
(* backend its budget does not allow.                                      *)
ASSUME BatchesAreAccountedFor ==
    \A replies \in [{"brave", "searxng"} \X {1, 2} -> BatchReplies], pages \in PageSets, most \in {1, 2, 9}, fetches \in {0, 1, 9} :
      \A allowed \in {{"searxng"} \X {1, 2}, {"brave", "searxng"} \X {1}} :
        LET settings == [limit |-> 4, most |-> most, pages |-> fetches, redirects |-> 2, gap |-> 1, allowed |-> allowed]
            run == Web!Batch(Start({}, 0), <<Q(1), Q(2)>>, <<"brave", "searxng">>, replies, pages, settings)
            total(f) == FoldLeft(LAMBDA n, b : n + f[b], 0, SetToSeq(DOMAIN f))
            bucket == [k \in {Chat(1).key} |-> "ALREADY_APPROVED_SOURCE"]
            timedOut == ~run.raised \/ ~run.answered \/ pages["list"] = [isPublic |-> TRUE, is |-> "failure", class |-> "timeout"]
        IN  /\ Len(run.observed) <= most /\ run.fetches <= fetches /\ timedOut /\ (run.answered \/ run.raised)
            /\ run.funnel.raw = run.funnel.valid + run.funnel.rejected
            /\ total(Web!Finalized(run.funnel, bucket)) = run.funnel.valid
            /\ IsInjective([i \in DOMAIN run.observed |-> run.observed[i].ref.key])
            /\ \A i \in DOMAIN run.observed :
                 LET e == run.observed[i].evidence IN IsInjective([j \in DOMAIN e |-> e[j].key])
            /\ Len(run.world.governor.times) <= Cardinality(allowed)
            /\ Web!Usage(run, "brave").attempted = Web!Usage(run, "brave").successful + Web!Usage(run, "brave").failures
            /\ \A i \in DOMAIN Web!BatchCandidates(run) : Web!BatchCandidates(run)[i].priority \in {"HIGH", "MEDIUM"}

Item(n, domains, gaps) == [flags |-> {}, independent |-> n, domains |-> domains, gaps |-> gaps]
Lineages == UNION {[1..k -> {Item(n, d, 0) : n \in 0..2, d \in {{}, {"a"}, {"a", "b"}}}] : k \in 0..2}
PlainSource == [isReference |-> FALSE]
(* Domains without names count as often as one item says at most, and may  *)
(* count too seldom; one that is counted and named as well counts twice.   *)
(* No sign that speaks for a chat lowers its priority.                     *)
ASSUME PrioritiesFollowSigns ==
    /\ \A lineage \in Lineages :
         LET c == Web!PriorityContext(lineage, PlainSource, {}, {})
             Most(f) == Max({0} \cup {lineage[i][f] : i \in DOMAIN lineage})
             named == UNION {lineage[i].domains : i \in DOMAIN lineage}
         IN  /\ Cardinality(named) <= c.domains /\ c.domains <= Most("independent") + Cardinality(named)
             /\ Web!Prioritized(c) # "HIGH"
    /\ Web!PriorityContext(<<Item(1, {"a"}, 0)>>, PlainSource, {}, {}).domains = 2
    /\ Web!PriorityContext(<<Item(1, {}, 0), Item(2, {}, 0)>>, PlainSource, {}, {}).domains = 1
    /\ \A flags \in SUBSET {"telegram_reference", "direct_telegram_result", "source_graph_provenance", "bot_like"},
          n \in 0..3, gaps \in 0..2, flag \in {"telegram_reference", "direct_telegram_result", "source_graph_provenance"} :
         LET c == [flags |-> flags, domains |-> n, gaps |-> gaps]
         IN  Web!Score(c) <= Web!Score([c EXCEPT !.flags = @ \cup {flag}])

Priority(n) == Web!Priorities[n]
CandidateLists == UNION {{[i \in 1..n |-> [id |-> i, priority |-> Priority(p[i])]] : p \in [1..n -> 1..4]} : n \in 0..5}
(* The canary has each candidate at most once and as many as it may, the   *)
(* high ones first; a flood wait is its last call of either kind.          *)
ASSUME CanariesAreBounded ==
    \A candidates \in CandidateLists, limit \in {1, 3, 30} :
        LET chosen == Web!Canary(candidates, limit)
            ids == [i \in DOMAIN chosen |-> chosen[i].id]
            has == {candidates[i].priority : i \in DOMAIN candidates}
            outcome == [id \in 1..5 |-> CASE id = 4 -> "flood" [] id = 2 -> "error" [] OTHER -> "accessible"]
            run == Web!CanaryRun(candidates, limit, 2, outcome, [id \in 1..5 |-> IF id = 3 THEN "flood" ELSE "audited"], TRUE)
        IN  /\ Len(chosen) = Web!Smaller(limit, Len(candidates)) /\ IsInjective(ids)
            /\ "HIGH" \in has => chosen[1].priority = "HIGH"
            /\ \A i \in DOMAIN run.validated.attempted : run.validated.attempted[i] = 4 => i = Len(run.validated.attempted)
            /\ Len(run.audited.attempted) <= 2 /\ ToSet(run.audited.attempted) \subseteq {1, 3, 5}
            /\ Web!Reranked(<<[flags |-> {}, domains |-> limit, gaps |-> 0]>>)["HIGH"] = <<>>
-----------------------------------------------------------------------------
(* The rules of what is known of a source.                                 *)
SourceWith(id, ref) == [id |-> id, url |-> ref, handle |-> None, name |-> None, isPublic |-> TRUE, permitted |-> {1, 2}]
Answer == {[is |-> "peer", peer |-> 9], [is |-> "failure", failure |-> "telegram_floodwait"], [is |-> "failure", failure |-> "timeout_error"]}
Calls == [source : {1, 2}, account : {1, 2}, reply : Answer, isPermitted : BOOLEAN]
Called(db, call, refs) ==
    LET source == SourceWith(call.source, refs[call.source])
    IN  Web!Validate(db, IF call.isPermitted THEN source ELSE [source EXCEPT !.permitted = {}], call.account, call.reply)
AfterCalls(calls, refs) ==
    FoldLeft(LAMBDA db, call : Called(db, call, refs).db, Web!Tables([s \in {1, 2} |-> "candidate"]), calls)
(* Two sources turn out to be one chat.  Where each has a reference of its *)
(* own one of them at most is accessible; what is final is kept, and       *)
(* Telegram not asked for it again, while its account has access; a source *)
(* is not rejected without the peer it is a duplicate of.                  *)
ASSUME ValidationsAreKept ==
    \A calls \in [1..3 -> Calls] :
        LET refs == <<"one", "two">>
            before == AfterCalls(SubSeq(calls, 1, 2), refs)
            last == Called(before, calls[3], refs)
            row == {v \in before.validations : v.source = calls[3].source /\ v.account = calls[3].account}
        IN  /\ Cardinality({v.source : v \in {w \in last.db.validations : w.state = "accessible"}}) <= 1
            /\ calls[3].isPermitted /\ (\E v \in row : Web!IsReusable(v)) => last = [asks |-> FALSE, db |-> before]
            /\ \A s \in {1, 2} : last.db.status[s] = "rejected" => \E v \in last.db.validations : v.source = s /\ v.peer = 9
(* What is final may be so too soon: a call that timed out, an access that *)
(* was not granted yet, a reference that a source nobody validated holds;  *)
(* and of two sources without references each is rejected for the other.   *)
ASSUME ValidationsMayBePremature ==
    LET Call(s, a, is, isPermitted) == [source |-> s, account |-> a, isPermitted |-> isPermitted, reply |->
                IF is = "peer" THEN [is |-> is, peer |-> 9] ELSE [is |-> "failure", failure |-> is]]
        own == <<"one", "two">>
        shared == [AfterCalls(<<>>, own) EXCEPT !.aliases = {[ref |-> "two", source |-> 1, kind |-> "source", peer |-> None]}]
        none == <<None, None>>
    IN  /\ ~Called(AfterCalls(<<Call(1, 1, "timeout_error", TRUE)>>, own), Call(1, 1, "peer", TRUE), own).asks
        /\ Called(AfterCalls(<<Call(1, 1, "telegram_floodwait", TRUE)>>, own), Call(1, 1, "peer", TRUE), own).asks
        /\ ~Called(AfterCalls(<<Call(1, 1, "peer", FALSE)>>, own), Call(1, 1, "peer", TRUE), own).asks
        /\ {v.failure : v \in Called(shared, Call(2, 1, "peer", TRUE), own).db.validations} = {"value_error"}
        /\ AfterCalls(<<Call(2, 1, "peer", TRUE), Call(1, 1, "peer", TRUE), Call(2, 2, "peer", TRUE)>>, none).status
             = [s \in {1, 2} |-> "rejected"]

Said(key, domain, kind) == [key |-> key, domain |-> domain, host |-> "h", kind |-> kind, gaps |-> 0]
SomeSaid == {Said(k, d, e) : k \in {None, "k"}, d \in {None, "d"}, e \in {None, "page_extracted"}}
Row(id, s, provider, n) == [id |-> id, source |-> s, provider |-> provider,
                            items |-> "matches" :> [i \in 1..n |-> Said(None, None, None)]]
LineageRows == UNION {[1..n -> {Row(id, s, p, 1) : id \in {1, 2}, s \in {1, 2}, p \in {"web_search", "repository_seed"}}] : n \in 0..2}
(* Evidence is stored once for each key and never rewritten, and a second  *)
(* backfill finds all that the first one stored.                           *)
ASSUME EvidenceIsStoredOnce ==
    /\ \A context \in SomeSaid, items \in {None} \cup {<<a, b>> : a \in SomeSaid, b \in SomeSaid}, isGraph \in BOOLEAN :
         LET found == Web!EvidenceOf(1, [context |-> context, items |-> items, result |-> "r"], isGraph)
             Store(db, from) == FoldLeft(LAMBDA d, e : Web!WithEvidence(d, e), db, from)
             db == Store(Web!Tables(<<>>), found)
         IN  /\ {e.key : e \in db.evidence} = {e.key : e \in ToSet(found)} /\ Store(db, found) = db
             /\ Cardinality(db.evidence) = Cardinality({e.key : e \in db.evidence}) /\ found[1] \in db.evidence
             /\ \A e \in db.evidence : e.key # None /\ e.kind # None
             /\ items # None /\ (\A i \in {1, 2} : items[i].key = None /\ items[i].domain = "d") => found[2].key = "d"
    /\ \A lineage \in LineageRows, status \in [1..3 -> {"candidate", "approved"}], limit \in {1, 3} :
         LET once == Web!Backfill(Web!Tables(status), lineage, limit)
             twice == Web!Backfill(once.db, lineage, limit)
         IN  /\ twice.created = 0 /\ twice.existing = once.created + once.existing /\ twice.db = once.db
             /\ Cardinality(once.db.evidence) = once.created /\ Len(once.categories) <= limit
             /\ \A e \in once.db.evidence : status[e.source] = "candidate" /\ e.domain = "h"
             /\ "LEGACY_EVIDENCE_RECOVERABLE" \notin ToSet(twice.categories)

SomeLinks == {None, [ref |-> "one", kind |-> "source"], [ref |-> "one", kind |-> "message"], [ref |-> "two", kind |-> "invite"]}
(* A candidate names a reference as often as it is of different kinds, and *)
(* a name is of one kind; a source keeps its account's last assignment.    *)
(* The low tiers have their fifth of the places while they have a turn,    *)
(* and no place is left empty that is wanted.                              *)
ASSUME TurnsAreFair ==
    /\ \A url, handle, reference \in SomeLinks :
         LET refs == Web!CandidateReferences([url |-> url, handle |-> handle, name |-> handle, reference |-> reference])
         IN  /\ IsInjective(refs) /\ Len(refs) <= 3
             /\ handle # None => [ref |-> handle.ref, kind |-> "username"] \in ToSet(refs)
    /\ \A tiers \in [1..6 -> {"A", "D"}], due \in [1..6 -> {0, 9}], limit \in {0, 1, 5, 9} :
         LET rows == {[source |-> s, tier |-> tiers[s], due |-> due[s], state |-> "ready"] : s \in 1..6}
             dueNow == {m \in rows : m.due = 0}
             chosen == Web!Chosen(rows, 0, limit)
             low == {m \in dueNow : m.tier = "D"}
         IN  /\ Len(chosen) = Web!Smaller(limit, Cardinality(dueNow)) /\ IsInjective(chosen) /\ ToSet(chosen) \subseteq dueNow
             /\ low # {} /\ limit >= 5 => low \cap ToSet(chosen) # {}
             /\ Cardinality(low \cap ToSet(chosen)) > limit \div 5 => dueNow \ low \subseteq ToSet(chosen)
             /\ Web!Monitoring(Web!Assigned([Web!Tables(<<>>) EXCEPT !.monitoring = rows],
                  [source |-> 1, tier |-> "B", due |-> 0, state |-> "paused"]).monitoring, 0).states = "ready" :> 6
    /\ \A jobs \in 0..5, n \in 1..3 : Web!Pressure(jobs, n) = "NORMAL" <=> jobs < n

Quality(n, bad) == [yield |-> n, buyers |-> n, sellers |-> bad, spam |-> bad, duplicates |-> bad]
TermSets == SUBSET [source : {1, 4}, dimension : {"language", "industry"}, key : {"shops", "en"}]
(* Each source is counted once for a label and has one tier; a dimension   *)
(* of the taxonomy that is no language counts as an industry.              *)
ASSUME SourcesAreCountedOnce ==
    \A terms \in TermSets, evidence \in SUBSET [source : {1, 2, 4}, campaign : {1, 2}] :
        LET all == Web!Coverage({1, 2}, evidence, 1 :> [language |-> {"en", ""}, habitat |-> {"Shops", "shops"}, industry |-> {}],
                                terms, 1 :> Quality(80, 0))
            counts(d) == {all[d][l] : l \in DOMAIN all[d]}
        IN  /\ \A d \in DOMAIN all : counts(d) \subseteq {1, 2} /\ "" \notin DOMAIN all[d]
            /\ all.tier = ("high" :> 1) @@ ("unmeasured" :> 1)
            /\ DOMAIN all.habitat \subseteq {"shops"}
            /\ \A t \in terms : t.source = 1 => t.key \in DOMAIN all[t.dimension]
ASSUME StatisticsAddUp ==
    /\ \A n \in {0, 39, 40, 69, 70, 100}, bad \in {0, 50, 100} :
         Web!QualityTier(Quality(n, bad)) = "high" <=> n * (100 - bad) >= 7000
    /\ \A calls \in [1..2 -> {c \in Calls : c.isPermitted}], costs \in SUBSET [stage : {"web"}, provider : {"brave"}, units : {1, 2}] :
         LET db == AfterCalls(calls, <<"one", "two">>)
             all == Web!Statistics(db, {[status |-> "pending", n |-> i] : i \in 1..2}, costs, 0)
             total(f) == FoldFunction(LAMBDA n, m : n + m, 0, f)
         IN  /\ total(all.lifecycle) = 2 /\ total(all.validations) = Cardinality(db.validations) /\ all.queries = "pending" :> 2
             /\ total(all.units) = FoldSet(LAMBDA c, n : n + c.units, 0, costs)
=============================================================================
