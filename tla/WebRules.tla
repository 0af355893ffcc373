------------------------------ MODULE WebRules ------------------------------
(***************************************************************************)
(* The rules of the search for chats on the Web: the health a governor     *)
(* keeps of each search backend (WebDiscoveryGovernor of web_discovery.py, *)
(* persistence/web_provider_health.py), the answers of the backends        *)
(* (web_provider_chain.py), and the queries, results and candidates of a   *)
(* run of WebDiscoveryProvider.  Searches of a governor are one at a time  *)
(* (its max_concurrency is 1); a time is a number of seconds.              *)
(***************************************************************************)
EXTENDS Integers, SequencesExt, FiniteSetsExt, TLC

CONSTANTS
    None,                     \* no value
    BaseBackoff, MaxBackoff,  \* base_backoff_seconds, max_backoff_seconds
    Likeness                  \* [<<text, text>> -> 0..100], SequenceMatcher.ratio

Smaller(n, m) == IF n <= m THEN n ELSE m
First(s, n) == SubSeq(s, 1, Smaller(Len(s), n))
With(f, x, v) == [y \in DOMAIN f \cup {x} |-> IF y = x THEN v ELSE f[y]]

-----------------------------------------------------------------------------
(* The health of a backend                                                 *)

States == {"READY", "DEGRADED", "BACKOFF", "UNAVAILABLE"}
Fresh == [state |-> "READY", successes |-> 0, http_403 |-> 0, http_429 |-> 0, captcha |-> 0,
          failures |-> 0, category |-> None, failedAt |-> None, until |-> None, succeededAt |-> None]
HealthOf(health, b) == IF b \in DOMAIN health THEN health[b] ELSE Fresh

(* _record_success                                                         *)
AfterSuccess(h, now) ==
    [h EXCEPT !.state = "READY", !.successes = @ + 1, !.failures = 0, !.until = None,
              !.succeededAt = now]

(* _record_failure: the third failure in a row is the last.                *)
AfterFailure(h, error, now) ==
    LET n == h.failures + 1
        wait == IF error.retryAfter = None THEN BaseBackoff * 2^(n - 1) ELSE error.retryAfter
        Counted(classes) == IF error.class \in classes THEN 1 ELSE 0
    IN  [h EXCEPT !.state = IF n >= 3 THEN "UNAVAILABLE" ELSE "BACKOFF",
                  !.http_403 = @ + Counted({"http_403"}), !.http_429 = @ + Counted({"http_429"}),
                  !.captcha = @ + Counted({"captcha", "suspension"}),
                  !.failures = n, !.category = error.class, !.failedAt = now,
                  !.until = now + Smaller(MaxBackoff, wait)]

(* A backoff that is over, as the next search and the next start see it.   *)
Cooled(h, now) ==
    IF h.until # None /\ h.until <= now THEN [h EXCEPT !.state = "DEGRADED", !.until = None] ELSE h
Restored(h, now) ==
    LET state == IF h.state = "BACKOFF" /\ h.until # None /\ h.until <= now THEN "DEGRADED" ELSE h.state
    IN  [h EXCEPT !.state = state, !.until = IF state = "BACKOFF" THEN @ ELSE None]

(* Why a backend is not asked.                                             *)
Refusal(h, now) ==
    IF h.state = "UNAVAILABLE" THEN "provider_unavailable"
    ELSE IF h.until # None /\ now < h.until THEN "provider_backoff" ELSE None

(* The table all processes share: the last to write a row wins.            *)
Row(backend, h) == [backend |-> backend, health |-> h]
Overwritten(rows, row) == {r \in rows : r.backend # row.backend} \cup {row}
Listed(rows) == [b \in {r.backend : r \in rows} |-> (CHOOSE r \in rows : r.backend = b).health]

(* _aggregate_health, of the backends in the order they came to be known.  *)
Aggregate(values) ==
    LET states == {values[i].state : i \in DOMAIN values}
        Sum(f) == FoldLeft(LAMBDA n, h : n + h[f], 0, values)
        Latest(f) == LET times == {values[i][f] : i \in DOMAIN values} \ {None}
                     IN  IF times = {} THEN None ELSE Max(times)
        named == SelectSeq(values, LAMBDA h : h.category # None)
    IN  IF values = <<>> THEN Fresh
        ELSE [state |-> IF states = {"UNAVAILABLE"} THEN "UNAVAILABLE"
                        ELSE IF states = {"READY"} THEN "READY" ELSE "DEGRADED",
              successes |-> Sum("successes"), http_403 |-> Sum("http_403"),
              http_429 |-> Sum("http_429"), captcha |-> Sum("captcha"),
              failures |-> Max({values[i].failures : i \in DOMAIN values}),
              category |-> IF named = <<>> THEN None ELSE Last(named).category,
              failedAt |-> Latest("failedAt"), until |-> Latest("until"),
              succeededAt |-> Latest("succeededAt")]
Overall(values) == IF Len(values) = 1 THEN values[1] ELSE Aggregate(values)

-----------------------------------------------------------------------------
(* The governor                                                            *)

Governor == [restored |-> FALSE, health |-> <<>>, cache |-> <<>>, reused |-> 0, times |-> <<>>]

Restore(g, rows, now) ==
    IF g.restored THEN g
    ELSE [g EXCEPT !.restored = TRUE,
                   !.health = [b \in DOMAIN @ \cup DOMAIN Listed(rows) |->
                               IF b \in DOMAIN Listed(rows) THEN Restored(Listed(rows)[b], now) ELSE @[b]]]

(* Requests keep a gap, drawn anew for each one.                           *)
SentAt(times, now, gap) ==
    IF times = <<>> \/ Last(times) + gap <= now THEN now ELSE Last(times) + gap
Gaps(times) == [i \in 1..(Len(times) - 1) |-> times[i + 1] - times[i]]

Found(rows) == [rows |-> rows, class |-> None, retryAfter |-> None]
Failed(class, retryAfter) == [rows |-> <<>>, class |-> class, retryAfter |-> retryAfter]
IsFailure(answer) == answer.class # None

(* search: of a world of the governor, the table and the time.  What was   *)
(* found once is answered from memory, whatever the health has become; a   *)
(* refusal leaves the health as it is.                                     *)
Searched(w, backend, key, answer, gap) ==
    LET g == Restore(w.governor, w.rows, w.at)
        h == HealthOf(g.health, backend)
        sent == SentAt(g.times, w.at, gap)
        after == IF IsFailure(answer) THEN AfterFailure(Cooled(h, w.at), answer, sent)
                 ELSE AfterSuccess(Cooled(h, w.at), sent)
        asked == [g EXCEPT !.health = With(@, backend, after), !.times = Append(@, sent),
                           !.cache = IF IsFailure(answer) THEN @ ELSE With(@, <<backend, key>>, answer.rows)]
    IN  IF <<backend, key>> \in DOMAIN g.cache
        THEN [world |-> [w EXCEPT !.governor = [g EXCEPT !.reused = @ + 1]],
              answer |-> Found(g.cache[<<backend, key>>])]
        ELSE IF Refusal(h, w.at) # None
        THEN [world |-> [w EXCEPT !.governor = g], answer |-> Failed(Refusal(h, w.at), None)]
        ELSE [world |-> [governor |-> asked, rows |-> Overwritten(w.rows, Row(backend, after)), at |-> sent],
              answer |-> answer]

(* observability                                                           *)
Observed(g, order) ==
    LET gaps == ToSet(Gaps(g.times))
    IN  [overall |-> Overall([i \in DOMAIN order |-> g.health[order[i]]]), health |-> g.health,
         reused |-> g.reused,
         least |-> IF gaps = {} THEN 0 ELSE Min(gaps), most |-> IF gaps = {} THEN 0 ELSE Max(gaps)]

-----------------------------------------------------------------------------
(* What the backends make of a reply: the refusal of the server, no reply, *)
(* or a body with rows (None: not a list of them), of which some have no   *)
(* address.                                                                *)

IsAddressed(row) == row # None
ServerErrors == {"http_500", "http_502", "http_503", "http_504"}
Status(reply, classes) == IF reply.status \in classes THEN reply.status ELSE "http_error"

(* The words of the engines that did not respond to SearXNG.               *)
EngineFailure(words) ==
    CASE words \cap {"captcha", "unusual traffic"} # {} -> "captcha"
      [] words \cap {"captcha", "unusual traffic"} = {} /\ "suspended" \in words -> "suspension"
      [] words \cap {"captcha", "unusual traffic", "suspended"} = {} ->
           IF words \cap {"429", "rate limit", "too many requests"} # {} THEN "http_429"
           ELSE IF words \cap {"403", "forbidden"} # {} THEN "http_403" ELSE None

Searxng(reply, limit) ==
    CASE reply.is = "refusal" -> Failed(Status(reply, {"http_403", "http_429"}), reply.retryAfter)
      [] reply.is = "unreachable" -> Failed("network_error", None)
      [] reply.is = "timeout" -> Failed("timeout", None)
      [] reply.is = "body" ->
           IF reply.isLarge \/ reply.rows = None THEN Failed("invalid_response", None)
           ELSE IF reply.rows = <<>> /\ EngineFailure(reply.engines) # None
           THEN Failed(EngineFailure(reply.engines), None)
           ELSE Found(First(SelectSeq(reply.rows, IsAddressed), limit))

(* It does not read how long it is to wait, and takes rows before it drops *)
(* those without an address; so does Brave.                                *)
PrimaryJson(reply, limit) ==
    CASE reply.is = "refusal" -> Failed(Status(reply, {"http_403", "http_429"}), None)
      [] reply.is \in {"unreachable", "timeout"} -> Failed("network_error", None)
      [] reply.is = "body" ->
           IF reply.isLarge \/ reply.rows = None THEN Failed("invalid_response", None)
           ELSE Found(SelectSeq(First(reply.rows, limit), IsAddressed))

(* A limit it does not know is an error like any other to the governor.    *)
Brave(reply, limit) ==
    CASE limit > 20 -> Failed("backend_error", None)
      [] limit <= 20 /\ reply.is = "refusal" ->
           Failed(IF reply.status \in ServerErrors THEN "http_5xx"
                  ELSE Status(reply, {"http_401", "http_403", "http_422", "http_429"}), reply.retryAfter)
      [] limit <= 20 /\ reply.is = "unreachable" -> Failed("network_error", None)
      [] limit <= 20 /\ reply.is = "timeout" -> Failed("timeout", None)
      [] limit <= 20 /\ reply.is = "body" ->
           IF reply.isLarge THEN Failed("invalid_response", None)
           ELSE IF reply.rows = None THEN Failed("malformed_json", None)
           ELSE Found(SelectSeq(First(reply.rows, limit), IsAddressed))

(* Whatever else is raised the governor counts as an error of the backend. *)
Ask(backend, reply, limit) ==
    CASE reply.is = "error" -> Failed("backend_error", None)
      [] reply.is # "error" /\ backend = "brave" -> Brave(reply, limit)
      [] reply.is # "error" /\ backend = "primary_json_search" -> PrimaryJson(reply, limit)
      [] reply.is # "error" /\ backend = "searxng" -> Searxng(reply, limit)

Backends(configured) == SelectSeq(<<"brave", "primary_json_search", "searxng">>, LAMBDA b : b \in configured)
Readiness(configured) ==
    IF configured \cap {"brave", "primary_json_search"} # {} THEN "READY"
    ELSE IF "searxng" \in configured THEN "WEB_DISCOVERY_DEGRADED" ELSE "UNAVAILABLE"

-----------------------------------------------------------------------------
(* The queries of a run (build_queries, collapse_near_duplicate_queries)   *)

(* A topic has its words; seeds are what buyers say in each language.      *)
QueriesOf(topic, seeds, place) ==
    LET Query(kind, said) ==
          [kind |-> kind, category |-> topic.category, language |-> topic.language, words |-> topic.words,
           angle |-> topic.angle, seeds |-> said, text |-> <<kind, topic.words, said, place>>]
        said == {s.phrase : s \in {t \in seeds : t.language = topic.language}}
    IN  <<Query("community", {})>> \o IF said = {} THEN <<>> ELSE <<Query("buyer_intent", said)>>
BuildQueries(topics, seeds, place) ==
    FlattenSeq([i \in DOMAIN topics |-> QueriesOf(topics[i], seeds, place)])

Family(q) == <<q.angle, q.kind, q.category, q.language, q.seeds>>
AlikeTexts(q, p) == IF <<q.text, p.text>> \in DOMAIN Likeness THEN Likeness[<<q.text, p.text>>] ELSE 0
(* Buyers must have all words in common but one at most.                   *)
NearDuplicate(q, p) ==
    LET both == Cardinality(q.words \cap p.words)
        either == Cardinality(q.words \cup p.words)
    IN  /\ Family(q) = Family(p) /\ q.words # {} /\ p.words # {}
        /\ q.kind = "buyer_intent" => 100 * both >= 88 * either /\ either - both <= 1
        /\ q.kind # "buyer_intent" => both >= 2
        /\ AlikeTexts(q, p) >= (IF q.kind = "buyer_intent" THEN 94 ELSE 92)

(* A query is dropped that equals one seen, or is near one that is kept.   *)
Collapsed(queries) ==
    FoldLeft(LAMBDA c, q :
        CASE <<Family(q), q.text>> \in c.seen -> [c EXCEPT !.exact = @ + 1]
          [] <<Family(q), q.text>> \notin c.seen /\ (\E i \in DOMAIN c.queries : NearDuplicate(q, c.queries[i])) ->
               [c EXCEPT !.near = @ + 1, !.seen = @ \cup {<<Family(q), q.text>>}]
          [] OTHER -> [c EXCEPT !.queries = Append(@, q), !.seen = @ \cup {<<Family(q), q.text>>}],
        [queries |-> <<>>, seen |-> {}, exact |-> 0, near |-> 0], queries)

-----------------------------------------------------------------------------
(* A run of WebDiscoveryProvider                                           *)

(* _telegram_identity: the name a link to Telegram begins with; invites,   *)
(* numbers and what Telegram reserves are none.                            *)
Handle(link) ==
    LET words == IF link.words # <<>> /\ Head(link.words).is = "s" THEN Tail(link.words) ELSE link.words
    IN  IF link.host = "telegram" /\ words # <<>> /\ Head(words).is = "handle" THEN Head(words).name ELSE None

(* _append_query_attempt                                                   *)
Attempt(g, b, class) == [backend |-> b, class |-> class, state |-> HealthOf(g.health, b).state]

(* Backends are asked in turn until one answers.                           *)
Answered(run, q, backends, replies, settings) ==
    FoldLeft(LAMBDA r, b :
        IF r.answered THEN r
        ELSE LET s == Searched(r.world, b, <<q.text, q.language, settings.limit>>,
                               Ask(b, replies[<<b, q.text>>], settings.limit), settings.gap)
             IN  [r EXCEPT !.world = s.world, !.results = s.answer.rows, !.answered = ~IsFailure(s.answer),
                           !.attempts = Append(@, Attempt(s.world.governor, b, s.answer.class))],
        [run EXCEPT !.answered = FALSE, !.results = <<>>], backends)

WithMatch(found, q, results, rank, most) ==
    LET handle == Handle(results[rank])
        match == [query |-> q.text, rank |-> rank]
    IN  IF handle = None \/ Len(found) >= most THEN found
        ELSE IF \E i \in DOMAIN found : found[i].handle = handle
        THEN [i \in DOMAIN found |-> IF found[i].handle = handle
                                     THEN [found[i] EXCEPT !.matches = Append(@, match)] ELSE found[i]]
        ELSE Append(found, [handle |-> handle, seed |-> q.text, matches |-> <<match>>])

(* The first query no backend answers is the last of the run.              *)
Discovered(world, queries, backends, replies, settings) ==
    FoldLeft(LAMBDA run, q :
        IF run.stopped THEN run
        ELSE LET r == Answered(run, q, backends, replies, settings)
                 found == FoldLeft(LAMBDA f, rank : WithMatch(f, q, r.results, rank, settings.most),
                                   r.found, [i \in DOMAIN r.results |-> i])
             IN  [r EXCEPT !.found = found, !.stopped = ~r.answered \/ Len(found) >= settings.most],
        [world |-> world, found |-> <<>>, attempts |-> <<>>, answered |-> FALSE, results |-> <<>>,
         stopped |-> FALSE], Collapsed(queries).queries)

CandidatesOf(found, intent) ==
    [i \in DOMAIN found |-> [key |-> <<"web", found[i].handle>>, id |-> <<"username", found[i].handle>>,
                             seed |-> found[i].seed, matches |-> found[i].matches, intent |-> intent]]
Outcome(run) ==
    IF \E i \in DOMAIN run.attempts : run.attempts[i].class # None THEN "SEARCH_BACKEND_DEGRADED"
    ELSE IF run.found = <<>> THEN "NO_RESULTS" ELSE "RESULTS"
=============================================================================
