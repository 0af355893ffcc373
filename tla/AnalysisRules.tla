--------------------------- MODULE AnalysisRules ---------------------------
(***************************************************************************)
(* The rules of opportunity analyses (opportunity_analysis.py): which      *)
(* answers a model may give, which contacts it may name, which provider,   *)
(* route and cache entry serve a job, and what is reported of the calls    *)
(* (persistence/ai_telemetry.py).  A text is known by the identities that  *)
(* occur in it, a version by its parts.                                    *)
(***************************************************************************)
EXTENDS Integers, SequencesExt

CONSTANTS
    None,          \* NULL, None
    Fold(_),       \* str.casefold of a name
    Usernames,     \* the names Telegram allows
    Version,       \* analyzer, prompt and schema version of the program
    DefaultModel   \* DEFAULT_OPPORTUNITY_ANALYSIS_MODEL

-----------------------------------------------------------------------------
(* The contract of an answer                                               *)

BudgetIsConsistent(b) ==
    LET amounts == {b.min, b.max} \ {None}
    IN  /\ \A amount \in amounts : amount >= 0
        /\ {b.min, b.max} = amounts => b.min <= b.max
        /\ b.known => amounts # {} /\ b.explicit
        /\ ~b.known => amounts = {} /\ {b.currency, b.period} = {None}

ClassificationIsConsistent(a) ==
    /\ a.is_opportunity => a.direction = "buyer_to_specialist" /\ a.intent # "none"
    /\ a.direction = "specialist_to_buyer" => a.intent = "none"

LabelsAreDistinct(labels) ==
    /\ Len(labels) <= 64 /\ "" \notin ToSet(labels)
    /\ IsInjective([i \in DOMAIN labels |-> Fold(labels[i])])

IsContract(a) ==
    /\ BudgetIsConsistent(a.budget) /\ ClassificationIsConsistent(a)
    /\ LabelsAreDistinct(a.skills) /\ LabelsAreDistinct(a.red_flags)

-----------------------------------------------------------------------------
(* Grounding: a contact, and what a text mentions, is a handle @name, an   *)
(* address, or a link with its scheme, host, path and query; a scheme is   *)
(* None if there is none, a host if urlsplit finds none.                   *)

TelegramHosts == {"t.me", "telegram.me", "www.t.me", "www.telegram.me"}
Schemes == {"http", "https"}

(* _telegram_identities: a text names a chat by any link below it, too.    *)
TelegramMention(c) ==
    IF c.kind = "handle" THEN Fold(c.name)
    ELSE IF /\ c.kind = "link" /\ c.scheme \in Schemes \cup {None}
            /\ c.host \in TelegramHosts /\ c.path # <<>> /\ c.path[1] \in Usernames
         THEN Fold(c.path[1]) ELSE None

(* _telegram_identity: an answer has to name the chat itself.              *)
TelegramIdentity(c) ==
    IF c.kind = "link" /\ Len(c.path) > 1 THEN None ELSE TelegramMention(c)

EmailIdentity(c) == IF c.kind = "address" THEN Fold(c.name) ELSE None

(* _url_identity: the path keeps its case.                                 *)
UrlIdentity(c) ==
    IF c.kind = "link" /\ c.scheme \in Schemes /\ c.host # None
    THEN <<c.scheme, Fold(c.host), c.path, c.query>> ELSE None

IdentityOf(field, c) ==
    CASE field = "telegram" -> TelegramIdentity(c)
      [] field = "email" -> EmailIdentity(c)
      [] field = "url" -> UrlIdentity(c)

(* validate_opportunity_analysis_grounding: candidate holds the current    *)
(* text and the direct parent, if there is one.                            *)
Supplied(candidate, field) ==
    LET mentions == candidate.current \cup candidate.parent
    IN  {IF field = "telegram" THEN TelegramMention(c) ELSE IdentityOf(field, c) : c \in mentions}
            \ {None}

IsGrounded(a, candidate) ==
    \A field \in DOMAIN a.contact : IdentityOf(field, a.contact[field]) \in Supplied(candidate, field)

-----------------------------------------------------------------------------
(* The request and its answer                                              *)

Payload(route, candidate) ==
    [model |-> route.model,
     format |-> IF route.provider = "openai" THEN "json_schema" ELSE "json_object",
     prompt_has_schema |-> route.provider # "openai",
     texts |-> <<candidate.current, candidate.parent>>]

(* _request: a failure is an HTTP status, or None without an answer.       *)
IsRetryable(failure) == failure = None \/ failure = 429 \/ failure >= 500
ErrorCode(failure) ==
    IF IsRetryable(failure) THEN "provider_request_failed" ELSE "provider_invalid_request"

(* _parse_response: usage holds three counts, or is None.                  *)
IsUsable(response, candidate) ==
    /\ response.model # None /\ response.usage # None /\ response.analysis # None
    /\ IsContract(response.analysis) /\ IsGrounded(response.analysis, candidate)

(* _safe_response_metadata: what an unusable answer is charged by.         *)
SafeMetadata(response) ==
    IF response.model # None /\ response.usage # None
    THEN <<response.model, response.usage>> ELSE <<None, None>>

-----------------------------------------------------------------------------
(* Providers and routes; key says which providers have a key configured.   *)

Providers == {"openai", "deepseek", "tokenrouter"}

Resolved(config, provider) ==
    IF provider \notin Providers THEN "unsupported_provider"
    ELSE IF ~config.key[provider] THEN "provider_key_unconfigured"
    ELSE provider

IsAvailable(config, provider) == Resolved(config, provider) \in Providers

Route(provider, model) == [provider |-> provider, model |-> model, version |-> Version]

(* _configured_analyzer: no analyzer without the primary provider,   *)
(* and no start with a fallback that is enabled and cannot be used.        *)
CannotStart(config) ==
    \/ config.primary[1] \notin Providers
    \/ /\ IsAvailable(config, config.primary[1])
       /\ config.fallback # None /\ ~IsAvailable(config, config.fallback[1])

Analyzer(config) ==
    IF ~IsAvailable(config, config.primary[1]) THEN None
    ELSE [primary |-> Route(config.primary[1], config.primary[2]),
          fallback |-> IF config.fallback = None THEN None
                       ELSE Route(config.fallback[1], config.fallback[2]),
          threshold |-> config.threshold, routing |-> config.routing]

RoutesOf(z) == {z.primary, z.fallback} \ {None}

(* RoutedOpportunityAnalyzer.analyze: second is the fallback's call, or    *)
(* None if the spend guard refuses it.                                     *)
Answer(z, first, second) ==
    LET with(call, reason) == [call EXCEPT !.routing = z.routing, !.reason = reason]
    IN  IF z.fallback = None \/ first.confidence >= z.threshold
        THEN with(first, "primary_confident")
        ELSE IF second = None THEN with(first, "fallback_budget_exhausted")
        ELSE with(second, "low_confidence_fallback")

-----------------------------------------------------------------------------
(* Cache versions: the digest is taken to be injective.                    *)

CacheVersion(z) == <<Version, z>>
PrimaryCacheVersion(z) == <<Version, z.primary>>

IsLegacyDefault(z) ==
    z.primary = Route("openai", DefaultModel)

(* _require_compatible_job                                                 *)
SupportedVersions(z) ==
    {CacheVersion(z), PrimaryCacheVersion(z)}
        \cup (IF IsLegacyDefault(z) THEN {<<Version>>} ELSE {})

JobIsCompatible(z, version) == version \in SupportedVersions(z)

AcceptsMetadata(z, call) == call.route \in RoutesOf(z) /\ call.routing = z.routing

Envelope(call, version) ==
    [route |-> call.route, routing |-> call.routing, reason |-> call.reason, version |-> version]

(* _require_compatible_envelope and _result_from_cache: an entry of the    *)
(* primary route is accepted whatever its routing version was.             *)
EnvelopeIsCompatible(z, e, version) ==
    /\ AcceptsMetadata(z, e) \/ e.route = z.primary
    /\ e.version = version

-----------------------------------------------------------------------------
(* Cost reports: calls are a set of records with an id, the instant they   *)
(* began, status, stage, and cost.                                         *)

Total(calls) == FoldSet(LAMBDA c, sum : c.cost + sum, 0, calls)

Figures(calls) ==
    [calls |-> Cardinality(calls), cost |-> Total(calls),
     succeeded |-> Cardinality({c \in calls : c.status = "succeeded"})]

InWindow(calls, from, to) == {c \in calls : from <= c.at /\ c.at < to}

(* daily_costs                                                             *)
Daily(calls, from, to, dayOf) ==
    LET window == InWindow(calls, from, to)
    IN  [key \in {<<dayOf[c.at], c.stage>> : c \in window} |->
           Figures({c \in window : <<dayOf[c.at], c.stage>> = key})]

(* cost_report; the rate is the fraction, before it is rounded.            *)
CostReport(calls, from, to, dayOf) ==
    LET window == InWindow(calls, from, to)
        fallbacks == Cardinality({c \in window : c.stage = "fallback"})
    IN  [whole |-> Figures(window),
         failed |-> Cardinality({c \in window : c.status # "succeeded"}),
         fallbacks |-> fallbacks,
         fallback_rate |-> IF window = {} THEN None ELSE <<fallbacks, Cardinality(window)>>,
         daily |-> Daily(calls, from, to, dayOf),
         stages |-> [s \in {c.stage : c \in window} |-> Figures({c \in window : c.stage = s})]]
=============================================================================
