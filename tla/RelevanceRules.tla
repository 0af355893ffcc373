--------------------------- MODULE RelevanceRules --------------------------
(***************************************************************************)
(* The rules of profile discovery (profile_discovery.py): what is searched *)
(* for a profile, how relevant a source is to it by the evidence of its    *)
(* lineages, and how well the approved sources cover it.  A term is the    *)
(* set of its significant words, a text the set of its words, a score a    *)
(* number of hundredths.                                                   *)
(***************************************************************************)
EXTENDS Integers, SequencesExt, FiniteSetsExt

Smaller(n, m) == IF n <= m THEN n ELSE m
Larger(n, m) == IF n <= m THEN m ELSE n
First(s, n) == SubSeq(s, 1, Smaller(Len(s), n))

(* _unique; terms are equal if they are after casefold.                    *)
Unique(s) == FoldLeft(LAMBDA seen, t : IF t \in ToSet(seen) THEN seen ELSE Append(seen, t), <<>>, s)

-----------------------------------------------------------------------------
(* Intents                                                                 *)

Adding(words, terms) == [i \in DOMAIN terms |-> words \cup terms[i]]
OrElse(s, t) == IF s = <<>> THEN t ELSE s

HabitatsOfEveryone ==
    <<{"founder", "operator", "communities"}, {"agency", "overflow", "communities"},
      {"tool", "user", "implementation", "communities"}, {"vendor", "recommendation", "discussions"}>>
BuyersOfEveryone ==
    <<{"founders", "operators"}, {"product", "delivery", "teams"}, {"marketing", "growth", "teams"},
      {"agencies", "studios"}, {"hiring", "procurement", "teams"}>>

Intent(profile) ==
    LET roles == Unique(profile.roles)
        services == Unique(OrElse(profile.services, profile.roles))
        industries == Unique(OrElse(profile.industries, profile.services))
        literal == Unique(roles \o services \o Unique(profile.skills) \o industries)
        Around(term) == Adding(term, <<{"hiring"}, {"agency"}, {"implementation"}>>)
    IN  [profile |-> profile.id, revision |-> profile.revision,
         roles |-> roles, services |-> services, skills |-> Unique(profile.skills),
         industries |-> industries, languages |-> Unique(profile.languages),
         literal |-> First(literal, 32),
         adjacent |-> First(Unique(FlattenSeq([i \in DOMAIN First(literal, 8) |-> Around(literal[i])])), 24),
         buyers |-> First(Unique(Adding({"teams", "hiring"}, First(roles, 3))
                                   \o Adding({"buyers"}, First(services, 3)) \o BuyersOfEveryone), 16),
         habitats |-> First(Unique(Adding({"hiring", "communities"}, First(roles, 3))
                                     \o Adding({"operator", "communities"}, First(services, 3))
                                     \o Adding({"buyer", "discussions"}, First(industries, 3))
                                     \o HabitatsOfEveryone), 16)]

(* web_strategy_for_intent                                                 *)
Topics(intent) ==
    LET languages == OrElse(First(intent.languages, 2), <<"en">>)
        Of(terms, angle) ==
            FlattenSeq([i \in DOMAIN terms |-> [j \in DOMAIN languages |->
                [term |-> terms[i], language |-> languages[j], angle |-> angle]]])
    IN  Unique(Of(First(intent.literal, 4), "direct") \o Of(First(intent.habitats, 3), "buyer_habitat")
                 \o Of(First(intent.adjacent, 2), "adjacent"))

(* ProfileDiscoveryIntentRepository.ensure: intents are stored once for    *)
(* each profile and revision, and never rewritten.                         *)
StoredIntents(table, intent) ==
    {i \in table : i.profile = intent.profile /\ i.revision = intent.revision}
Ensured(table, intent) == IF StoredIntents(table, intent) = {} THEN table \cup {intent} ELSE table
Conflicts(table, intent) == \E i \in StoredIntents(table, intent) : i # intent

-----------------------------------------------------------------------------
(* Evidence                                                                *)

(* _strict_phrase_match and _phrase_match                                  *)
StrictlyIn(term, text) == term # {} /\ term \subseteq text
In(term, text) == term # {} /\ 2 * Cardinality(term \cap text) >= Cardinality(term)

Hits(terms, text) == Cardinality({t \in terms : In(t, text)})
StrictHits(terms, text) == Cardinality({t \in terms : StrictlyIn(t, text)})

(* _lineages_for_intent: only the evidence of Web search is kept apart by  *)
(* the intent it was found for.                                            *)
LineagesFor(intent, lineages) ==
    {l \in lineages : l.provider = "web_search" => l.profile = intent.profile
                                                   /\ l.revision = intent.revision}

(* _relevance_corpora: seeds tell of tags and reason, discoveries of their *)
(* matches.                                                                *)
MatchesOf(lineages) == UNION {l.matches : l \in {k \in lineages : k.provider # "repository_seed"}}

Results(lineages) == UNION {m.title \cup m.snippet : m \in MatchesOf(lineages)}
Seeded(lineages) == UNION {l.tags : l \in {k \in lineages : k.provider = "repository_seed"}}

Corpora(source, lineages) ==
    [source |-> source.name \cup Results(lineages) \cup Seeded(lineages),
     buyer |-> UNION {m.topic : m \in MatchesOf(lineages)},
     signals |-> Cardinality({<<m.angle, m.kind, m.topic>> : m \in MatchesOf(lineages)})]

(* _buyer_term_is_specific                                                 *)
IsSpecific(term, intent) ==
    \E t \in UNION {ToSet(intent.roles), ToSet(intent.services), ToSet(intent.skills),
                    ToSet(intent.industries)} : In(t, term)

HitsOf(intent, source, lineages) ==
    LET text == Corpora(source, lineages)
        buying == ToSet(intent.habitats) \cup ToSet(intent.buyers)
        specific == {t \in buying : IsSpecific(t, intent)}
    IN  [profession |-> StrictHits(ToSet(intent.roles), text.source),
         service |-> StrictHits(ToSet(intent.services), text.source),
         supporting |-> Hits(ToSet(intent.skills) \cup ToSet(intent.industries), text.source),
         adjacent |-> Hits(ToSet(intent.adjacent), text.source),
         buyer |-> StrictHits(specific, text.buyer),
         generic |-> StrictHits(buying \ specific, text.buyer),
         signals |-> text.signals]

-----------------------------------------------------------------------------
(* Scores                                                                  *)

IsDirect(h) == h.profession > 0 \/ h.service > 0
Rising(start, n, step, limit) == IF n = 0 THEN 0 ELSE start + Smaller(limit, (n - 1) * step)

(* The measures of which only the best counts.                             *)
Primary(h) ==
    Larger(Larger(Rising(76, h.profession, 4, 12), Rising(74, h.service, 4, 12)),
            Larger(Larger(Rising(28, h.buyer, 4, 12), IF h.generic > 0 THEN 4 ELSE 0),
                    Larger(Smaller(12, 4 * h.supporting), Smaller(12, 4 * h.adjacent))))

Bonus(h) ==
    (IF IsDirect(h) /\ h.supporting > 0 THEN 6 ELSE 0)
      + (IF IsDirect(h) /\ h.buyer > 0 THEN 8 ELSE 0)
      + (IF h.buyer > 0 /\ h.supporting > 0 THEN 8 ELSE 0)
      + (IF h.signals >= 2 /\ (IsDirect(h) \/ h.supporting > 0 \/ h.buyer > 0) THEN 3 ELSE 0)

(* _score_components                                                       *)
Score(h) == Smaller(100, 3 + Primary(h) + Bonus(h))

Class(score) == IF score >= 75 THEN "strong" ELSE IF score >= 45 THEN "adequate" ELSE "weak"

Category(h) ==
    IF IsDirect(h) THEN "direct_specialist"
    ELSE IF h.buyer > 0 THEN "buyer_habitat"
    ELSE IF h.supporting > 0 \/ h.adjacent > 0 THEN "supporting_or_adjacent"
    ELSE IF h.generic > 0 THEN "generic_business" ELSE "unrelated_or_unknown"

Label(h) ==
    IF IsDirect(h) /\ Class(Score(h)) = "strong" THEN "CLEARLY_RELEVANT"
    ELSE IF h.buyer > 0 /\ (h.supporting > 0 \/ h.adjacent > 0) /\ Class(Score(h)) # "weak"
         THEN "PLAUSIBLY_RELEVANT"
    ELSE IF h.generic > 0 \/ h.supporting > 0 \/ h.adjacent > 0 THEN "WEAK" ELSE "CLEARLY_IRRELEVANT"

Families == <<"profession", "service", "buyer", "supporting", "adjacent", "generic">>
FamiliesFound(h) == SelectSeq(Families, LAMBDA f : h[f] > 0)
PrimaryFamily(h) == IF FamiliesFound(h) = <<>> THEN "none" ELSE FamiliesFound(h)[1]

Priority(h) ==
    CASE Class(Score(h)) = "strong" -> "HIGH"
      [] Class(Score(h)) = "adequate" -> "MEDIUM"
      [] Class(Score(h)) = "weak" -> IF FamiliesFound(h) = <<>> THEN "INSUFFICIENT" ELSE "LOW"

Evidence(h) ==
    {e \in {"direct_concept", "buyer_habitat"} :
       IF e = "direct_concept" THEN IsDirect(h) ELSE h.buyer > 0}

Evaluation(intent, source, lineages) ==
    LET h == HitsOf(intent, source, lineages)
    IN  [source |-> source.id, profile |-> intent.profile, revision |-> intent.revision,
         score |-> Score(h), class |-> Class(Score(h)), evidence |-> Evidence(h),
         category |-> Category(h), label |-> Label(h), family |-> PrimaryFamily(h),
         priority |-> Priority(h)]

(* evaluate_source_relevance_legacy                                        *)
LegacyScore(direct, buyer, adjacent, queries) ==
    LET best == Larger(Larger(5, Rising(55, direct, 8, 20)),
                        Larger(Rising(45, buyer, 5, 15), Rising(30, adjacent, 4, 10)))
    IN  Smaller(100, best + (IF direct > 0 /\ buyer > 0 THEN 15 ELSE 0) + (IF queries >= 2 THEN 5 ELSE 0))

-----------------------------------------------------------------------------
(* Coverage                                                                *)

Of(evaluations, class) == Cardinality({e \in evaluations : e.class = class})

Coverage(evaluations) ==
    LET relevant == Cardinality({e \in evaluations : e.class # "weak"})
        direct == Cardinality({e \in evaluations : "direct_concept" \in e.evidence})
    IN  [relevant |-> relevant, direct |-> direct, weak |-> Of(evaluations, "weak"),
         adequate |-> Of(evaluations, "adequate"), strong |-> Of(evaluations, "strong"),
         buyer |-> Cardinality({e \in evaluations : "buyer_habitat" \in e.evidence}),
         priority |-> IF relevant = 0 \/ direct = 0 THEN "high"
                      ELSE IF relevant < 3 \/ Of(evaluations, "weak") > relevant THEN "medium"
                      ELSE "low"]

(* coverage_for_profile: a gap is left to a campaign of the profile.       *)
NeedsCampaign(coverage) == coverage.priority \in {"high", "medium"}

(* _evaluate_sources and SourceProfileRelevanceRepository.upsert: the last *)
(* evaluation of a source for an intent replaces the one before.           *)
SameKey(e, f) == e.source = f.source /\ e.profile = f.profile /\ e.revision = f.revision
Upserted(table, evaluations) ==
    {e \in table : \A f \in evaluations : ~SameKey(e, f)} \cup evaluations

(* list_for_profile: by score, then by source.                             *)
ListedBefore(e, f) == e.score > f.score \/ (e.score = f.score /\ e.source < f.source)

(* _discover and discover_telegram_profile: what a run reports.            *)
Execution(results, evaluations, previous) ==
    [unique |-> Cardinality({r.source : r \in results}),
     known |-> Cardinality({r \in results : r.outcome = "existing"}),
     new |-> Cardinality({r \in results : r.outcome = "created"}),
     overlap |-> Cardinality({r.source : r \in results} \cap previous),
     priorities |-> [class \in {"strong", "adequate", "weak"} |-> Of(evaluations, class)]]
=============================================================================
