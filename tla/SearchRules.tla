---------------------------- MODULE SearchRules ----------------------------
(***************************************************************************)
(* The rules of the two providers that find chats inside Telegram: the     *)
(* global search for a profile (telegram_profile_discovery.py) with its    *)
(* plan of queries, pages, hits and candidates, and the graph of links     *)
(* between chats (source_graph_discovery.py, telegram_references.py).      *)
(* A text is a template with a term, a chat or a link a record.            *)
(***************************************************************************)
EXTENDS Integers, SequencesExt, FiniteSetsExt

CONSTANTS
    None,           \* no value
    Fold(_),        \* casefold
    KeyRank(_),     \* the place of a key among all keys
    ShortTemplates, \* [language -> Seq(template)]
    LongTemplates   \* [group -> [language -> Seq([text, family])]]

Smaller(n, m) == IF n <= m THEN n ELSE m
First(s, n) == SubSeq(s, 1, Smaller(Len(s), n))
OrElse(s, t) == IF s = <<>> THEN t ELSE s
Unique(s) == FoldLeft(LAMBDA seen, t : IF t \in ToSet(seen) THEN seen ELSE Append(seen, t), <<>>, s)

-----------------------------------------------------------------------------
(* The plan of queries (build_telegram_profile_search_queries)             *)

(* _language_order                                                         *)
LanguageOrder(profile) == OrElse(Unique(profile.languages), <<"en", "ru">>)

(* _term_languages: by the script of the term.                             *)
TermLanguages(term, languages) ==
    CASE term.script = "cyrillic" -> <<"ru">>
      [] term.script = "latin" /\ ToSet(languages) = {"ru", "en"} -> <<"en", "ru">>
      [] OTHER -> languages

GroupNames == <<"role", "service", "skill">>
Terms(profile, group) ==
    CASE group = "role" -> Unique(profile.roles)
      [] group = "service" -> Unique(OrElse(profile.services, profile.industries))
      [] group = "skill" -> Unique(profile.skills)

Query(template, term, language, tier, family) ==
    [text |-> <<template, term.text>>, language |-> language, tier |-> tier, family |-> family]

(* The terms themselves, one of each group in turn.                        *)
BroadQueries(profile) ==
    LET At(group, i) ==
          IF i > Len(Terms(profile, group)) THEN <<>>
          ELSE LET term == Terms(profile, group)[i]
               IN  <<Query("", term, TermLanguages(term, LanguageOrder(profile))[1], "broad", "TERM_BROAD")>>
        most == Max({Len(Terms(profile, group)) : group \in ToSet(GroupNames)})
    IN  FlattenSeq([i \in 1..most |-> FlattenSeq([g \in 1..3 |-> At(GroupNames[g], i)])])

(* Every template in turn, with each term in each of its languages.        *)
Wrapped(profile, group, Templates(_, _, _)) ==
    FlattenSeq([t \in DOMAIN Terms(profile, group) |->
        LET term == Terms(profile, group)[t]
            languages == TermLanguages(term, LanguageOrder(profile))
        IN  FlattenSeq([l \in DOMAIN languages |-> Templates(group, term, languages[l])])])

ShortQueries(profile) ==
    FlattenSeq([i \in 1..3 |->
      FlattenSeq([g \in 1..3 |-> Wrapped(profile, GroupNames[g], LAMBDA group, term, language :
        <<Query(ShortTemplates[language][i], term, language, "short_buyer", group)>>)])])

LongQueries(profile) ==
    LET most == Max({Len(LongTemplates["role"][l]) : l \in ToSet(LanguageOrder(profile))})
        At(group, term, language, i) ==
          LET templates == LongTemplates[group][language]
          IN  IF i > Len(templates) THEN <<>>
              ELSE <<Query(templates[i].text, term, language, "long_buyer", templates[i].family)>>
    IN  FlattenSeq([i \in 1..most |->
          FlattenSeq([g \in 1..3 |-> Wrapped(profile, GroupNames[g], LAMBDA group, term, language :
            At(group, term, language, i))])])

(* add_query: a text is searched once; a tier ends at its budget.          *)
Planned(plan, queries, budget) ==
    FoldLeft(LAMBDA p, q : IF Len(p) >= budget \/ q.text \in {p[i].text : i \in DOMAIN p}
                           THEN p ELSE Append(p, q), plan, queries)

SearchPlan(profile, most) ==
    LET broad == Planned(<<>>, BroadQueries(profile), IF most > 1 THEN Smaller(4, most - 1) ELSE 1)
        short == Planned(broad, ShortQueries(profile), Len(broad) + Smaller(8, most - Len(broad)))
    IN  Planned(short, LongQueries(profile), most)

Priority(tier) == CASE tier = "broad" -> 90 [] tier = "short_buyer" -> 80 [] tier = "long_buyer" -> 70

-----------------------------------------------------------------------------
(* Pages (TelegramGlobalSearchProvider.discover)                           *)

(* One round of the loop over pages: what Telegram returns beyond what was *)
(* asked for is cut off, a short page or a known cursor is the last one.   *)
WithPage(reading, page, settings, room) ==
    LET left == Smaller(settings.perQuery - Len(reading.messages), room - Len(reading.messages))
        values == First(page.messages, left)
    IN  IF reading.done \/ left <= 0 THEN reading
        ELSE [messages |-> reading.messages \o values,
              cursors |-> reading.cursors \cup {page.next},
              pages |-> reading.pages + 1,
              done |-> \/ values = <<>> \/ Len(values) < Smaller(settings.page, left)
                       \/ page.next = None \/ page.next \in reading.cursors]

Read(pages, settings, room) ==
    FoldLeft(LAMBDA reading, page : WithPage(reading, page, settings, room),
             [messages |-> <<>>, cursors |-> {}, pages |-> 0, done |-> FALSE], pages)

(* All hits of a run in order, each with its query and rank.               *)
Hits(queries, pages, settings) ==
    FoldLeft(LAMBDA hits, q :
               LET found == Read(pages[q], settings, settings.total - Len(hits)).messages
               IN  hits \o [i \in DOMAIN found |-> [query |-> q.text, rank |-> i, message |-> found[i]]],
             <<>>, queries)

(* TelegramGlobalSearchPageCache.get_or_fetch: failures are not kept, and  *)
(* the oldest page makes room.  Cycles ask one page at a time.             *)
Cached(cache, key, answer, most) ==
    IF answer = None \/ \E i \in DOMAIN cache : cache[i].key = key THEN cache
    ELSE LET grown == Append(cache, [key |-> key, value |-> answer])
         IN  IF Len(grown) > most THEN Tail(grown) ELSE grown

-----------------------------------------------------------------------------
(* Hits and candidates (_record_search_hit, _candidate_from_match)         *)

HasChat(hit) == hit.message.chat.kind \in {"channel", "group", "user"} /\ hit.message.chat.peer # None
IsSource(chat) == chat.kind \in {"channel", "group"}

(* _chat_is_known: by number or name, as the sources are listed.           *)
IsKnownChat(chat, known) == chat.peer \in known \/ (chat.name # None /\ Fold(chat.name) \in known)

(* search_hits: a message counts once, with every query that found it.     *)
Messages(hits, known) ==
    LET read == {i \in DOMAIN hits : HasChat(hits[i]) /\ hits[i].message.id > 0}
        Key(i) == [peer |-> hits[i].message.chat.peer, id |-> hits[i].message.id]
        Of(key) == {i \in read : Key(i) = key}
    IN  {[key |-> key, known |-> \E i \in Of(key) : IsKnownChat(hits[i].message.chat, known),
          queries |-> {hits[i].query : i \in Of(key)}] : key \in {Key(i) : i \in read}}

Matched(hits, known) ==
    {i \in DOMAIN hits : /\ HasChat(hits[i]) /\ IsSource(hits[i].message.chat)
                         /\ ~IsKnownChat(hits[i].message.chat, known)}

(* A chat as its first hit shows it, with the measures of all its hits.    *)
Match(hits, known, peer) ==
    LET of == {i \in Matched(hits, known) : hits[i].message.chat.peer = peer}
    IN  [peer |-> peer, chat |-> hits[Min(of)].message.chat, hits |-> Cardinality(of),
         queries |-> {hits[i].query : i \in of}, rank |-> Min({hits[i].rank : i \in of})]

Before(m, n) ==
    LET a == <<-Cardinality(m.queries), -m.hits, m.rank, KeyRank(m.peer)>>
        b == <<-Cardinality(n.queries), -n.hits, n.rank, KeyRank(n.peer)>>
    IN  \E k \in 1..4 : a[k] < b[k] /\ \A j \in 1..(k - 1) : a[j] = b[j]

CandidateOf(match) ==
    [id |-> match.peer, access |-> IF match.chat.name # None THEN "public" ELSE "private",
     handle |-> IF match.chat.name # None THEN Fold(match.chat.name) ELSE None,
     hits |-> match.hits, queries |-> Cardinality(match.queries), rank |-> match.rank]

Candidates(hits, known, most) ==
    LET matches == {Match(hits, known, hits[i].message.chat.peer) : i \in Matched(hits, known)}
        ordered == First(SetToSortSeq(matches, Before), most)
    IN  [i \in DOMAIN ordered |-> CandidateOf(ordered[i])]

-----------------------------------------------------------------------------
(* Links (normalize_telegram_reference).  A link has a host, the words of  *)
(* its path, each with the form it has ("peer" is the number of a channel  *)
(* with its prefix), and nothing else or "extra".                          *)

Words(link) == IF link.words # <<>> /\ link.words[1].is = "s" THEN Tail(link.words) ELSE link.words
Channel(number) == <<"-100", number>>
Is(word, form) == word.is = form

IsLink(link) == link.host = "telegram" /\ Words(link) # <<>>

InviteToken(words) ==
    CASE Is(words[1], "plus") /\ Len(words) = 1 -> words[1].value
      [] Is(words[1], "joinchat") /\ Len(words) = 2 -> words[2].value
      [] OTHER -> None
MessageAt(words, i) ==
    IF Len(words) < i THEN [ok |-> TRUE, id |-> None]
    ELSE [ok |-> Len(words) = i /\ Is(words[i], "number"), id |-> words[i].value]

SourceKey(words) ==
    CASE Is(words[1], "c") /\ Len(words) >= 2 /\ Is(words[2], "number") -> <<"peer", Channel(words[2].value)>>
      [] Is(words[1], "peer") -> <<"peer", Channel(words[1].value)>>
      [] Is(words[1], "handle") -> <<"username", Fold(words[1].value)>>
      [] OTHER -> None

Reference(link) ==
    LET words == Words(link)
        token == InviteToken(words)
        message == MessageAt(words, IF Is(words[1], "c") THEN 3 ELSE 2)
    IN  IF ~IsLink(link) \/ link.extra THEN None
        ELSE IF Is(words[1], "plus") \/ Is(words[1], "joinchat")
             THEN IF token = None THEN None ELSE [kind |-> "invite", key |-> <<"invite", Fold(token)>>, message |-> None]
        ELSE IF SourceKey(words) = None \/ ~message.ok THEN None
        ELSE [kind |-> IF message.id = None THEN "source" ELSE "message",
              key |-> SourceKey(words), message |-> message.id]

(* _telegram_reference_parts and _normalize_reference: what the graph      *)
(* makes of a link; a name that is reserved for Telegram passes, mentions  *)
(* and the numbers of private chats do not.                                *)
GraphKey(link) ==
    LET words == Words(link)
        IsName == Is(words[1], "handle") \/ Is(words[1], "reserved")
    IN  IF ~IsLink(link) THEN None
        ELSE IF Is(words[1], "plus") THEN <<"invite", words[1].value>>
        ELSE IF Is(words[1], "joinchat") THEN IF Len(words) > 1 THEN <<"invite", words[2].value>> ELSE None
        ELSE IF IsName /\ \A i \in 2..Len(words) : Is(words[i], "number") THEN <<"username", Fold(words[1].value)>>
        ELSE None

-----------------------------------------------------------------------------
(* The graph of sources (TelethonSourceGraphBackend.scan).  A reference is *)
(* a kind, a key (None if it is no link to a chat), the chat that comes    *)
(* with a forward, and the message it is in.                               *)

(* _target_from_entity: chats are named by their name before their number. *)
Target(entity) ==
    IF entity = None \/ ~IsSource(entity) THEN None
    ELSE IF entity.name # None THEN <<"username", Fold(entity.name)>> ELSE <<"peer", entity.peer>>

(* _message_references and _normalize_reference: the links of the text,    *)
(* its mentions, the links behind its words, and where it is forwarded     *)
(* from: a chat, or the number of one, or of a user (None).                *)
MessageReferences(message) ==
    LET Of(kind, key, entity) == [kind |-> kind, key |-> key, entity |-> entity, message |-> message.id]
        Link(link) == Of(IF IsLink(link) /\ (Is(Words(link)[1], "plus") \/ Is(Words(link)[1], "joinchat"))
                         THEN "invite" ELSE "link", GraphKey(link), None)
        Each(F(_), s) == [i \in DOMAIN s |-> F(s[i])]
        forward == message.forward
    IN  Each(Link, message.links)
          \o Each(LAMBDA name : Of("mention", None, None), message.mentions)
          \o Each(Link, message.urls)
          \o (IF forward.entity # None THEN <<Of("forward", Target(forward.entity), forward.entity)>>
              ELSE IF forward.peer # None THEN <<Of("forward", <<"peer", forward.peer>>, None)>> ELSE <<>>)

(* _reference_priority                                                     *)
Urgency(reference) ==
    CASE reference.kind = "forward" /\ reference.entity # None -> 0
      [] reference.kind = "link" -> 1
      [] reference.kind = "invite" -> 2
      [] OTHER -> 3

(* The first reference of each key stands for all, known keys left out.    *)
Local(references, known) ==
    LET of == {i \in DOMAIN references : /\ references[i].kind # "mention"
                                         /\ references[i].key # None /\ references[i].key \notin known}
        Same(i) == {j \in of : references[j].key = references[i].key}
        firsts == {i \in of : i = Min(Same(i))}
        Sooner(i, j) ==
          LET a == Urgency(references[i])
              b == Urgency(references[j])
          IN  a < b \/ (a = b /\ KeyRank(references[i].key) < KeyRank(references[j].key))
        order == SetToSortSeq(firsts, Sooner)
    IN  [n \in DOMAIN order |-> [raw |-> references[order[n]],
                                 messages |-> {references[j].message : j \in Same(order[n])}]]

(* A key is resolved once in a run, failures included, while the budget    *)
(* lasts; a chat that comes with its reference costs nothing.              *)
Resolved(run, item, answers, budget) ==
    LET key == item.raw.key
        With(entity) == [k \in DOMAIN run.cache \cup {key} |-> IF k = key THEN entity ELSE run.cache[k]]
    IN  IF key \in DOMAIN run.cache THEN run
        ELSE IF item.raw.entity # None THEN [run EXCEPT !.cache = With(item.raw.entity)]
        ELSE IF run.used >= budget THEN run
        ELSE [run EXCEPT !.used = @ + 1, !.cache = With(answers[key])]

TargetOf(run, item) ==
    Target(IF item.raw.entity # None THEN item.raw.entity
           ELSE IF item.raw.key \in DOMAIN run.cache THEN run.cache[item.raw.key] ELSE None)

Scan(run, seed, references, known, answers, budget) ==
    FoldLeft(LAMBDA r, item :
               LET after == Resolved(r, item, answers, budget)
                   target == TargetOf(after, item)
               IN  IF target = None \/ target = seed THEN after
                   ELSE [after EXCEPT !.observed = @ \o SetToSeq(
                           {[seed |-> seed, target |-> target, kind |-> item.raw.kind, message |-> m] : m \in item.messages})],
             run, Local(references, known))

(* SourceGraphDiscoveryProvider.discover: candidates by target in the      *)
(* order of their first observation, up to the limits.                     *)
GraphCandidates(observed, mostCandidates, mostObservations) ==
    FoldLeft(LAMBDA targets, o : IF Len(targets) >= mostCandidates THEN targets ELSE Unique(Append(targets, o.target)),
             <<>>, First(observed, mostObservations))
=============================================================================
