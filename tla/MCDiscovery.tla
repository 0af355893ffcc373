---- MODULE MCDiscovery ----
(* A small instance of Discovery: three cycles, one chat known by two identities and one *)
(* reference, another chat seen with and without that reference.                         *)
EXTENDS Discovery, SequencesExt, TLC
CONSTANTS c1, c2, c3, web, graph, profile1, profile2, A, B, C, username

MCPlan == (c1 :> <<profile1, web>>) @@ (c2 :> <<profile2, graph>>) @@ (c3 :> <<web, graph>>)
MCRequested == (c1 :> 1) @@ (c2 :> 2) @@ (c3 :> 1)
(* A is "username:..", the identity by which Web and graph know the chat that   *)
(* Telegram's search names B, its number; the chat is private until it gets a name. *)
MCFound == (web :> {<<[id |-> A, refs |-> <<username>>], [id |-> C, refs |-> <<>>]>>})
        @@ (graph :> {<<[id |-> C, refs |-> <<>>], [id |-> A, refs |-> <<username>>]>>})
        @@ (profile1 :> {<<[id |-> B, refs |-> <<>>]>>, <<[id |-> B, refs |-> <<username>>]>>})
        @@ (profile2 :> {<<[id |-> B, refs |-> <<>>]>>, <<[id |-> B, refs |-> <<username>>]>>})

-------------------------------------------------------------------------------
(* The rules of profile discovery over small profiles and all small counts of evidence.  *)
Relevance == INSTANCE RelevanceRules

Terms == {{"python"}, {"bot", "design"}, {"hiring"}}
Profiles ==
  [id : {"p", "q"}, revision : {1}, roles : {<<>>, <<{"python"}>>, <<{"python"}, {"bot", "design"}>>},
   services : {<<>>, <<{"bot", "design"}>>}, skills : {<<>>, <<{"hiring"}, {"hiring"}>>},
   industries : {<<>>, <<{"python"}>>}, languages : {<<>>, <<"en", "ru", "de">>}]

Bounded(terms, n) == Len(terms) <= n /\ IsInjective(terms)
(* Intents name every concept once and within its bound; each topic comes in two languages *)
(* at most.                                                                              *)
ASSUME IntentsAreBounded ==
  \A p \in Profiles :
    LET intent == Relevance!Intent(p)
        topics == Relevance!Topics(intent)
    IN  /\ Bounded(intent.literal, 32) /\ Bounded(intent.adjacent, 24)
        /\ Bounded(intent.buyers, 16) /\ Bounded(intent.habitats, 16) /\ Bounded(topics, 18)
        /\ \A t \in ToSet(Relevance!First(intent.literal, 4)) : \E i \in DOMAIN topics : topics[i].term = t

(* An intent is stored once and stays; another profile's never conflicts with it.        *)
ASSUME IntentsAreStoredOnce ==
  \A p, q \in Profiles :
    LET i == Relevance!Intent(p)
        j == Relevance!Intent(q)
        table == Relevance!Ensured(Relevance!Ensured({}, i), j)
    IN  /\ i \in table /\ Relevance!Ensured(table, j) = table
        /\ Relevance!Conflicts({i}, j) => p.id = q.id

Measures == [profession : 0..2, service : 0..2, supporting : 0..4, buyer : 0..3, generic : 0..1,
             adjacent : {0, 1, 4}, signals : 0..2]
More(h, f) == [h EXCEPT ![f] = @ + 1]

(* More evidence of any kind never lowers a score; buyers alone are adequate at best, and *)
(* what only surrounds a profession stays weak.                                          *)
ASSUME ScoresAreMonotone ==
  \A h \in Measures :
    /\ \A f \in DOMAIN h : Relevance!Score(h) <= Relevance!Score(More(h, f))
    /\ ~Relevance!IsDirect(h) => Relevance!Class(Relevance!Score(h)) # "strong"
    /\ ~Relevance!IsDirect(h) /\ h.buyer = 0 => Relevance!Priority(h) \in {"LOW", "INSUFFICIENT"}
    /\ Relevance!Priority(h) = "INSUFFICIENT" <=> Relevance!PrimaryFamily(h) = "none"

Searched(term) ==
  [provider |-> "telegram_global_search", profile |-> "q", revision |-> 1,
   matches |-> {[title |-> {"cats"}, snippet |-> {"looking", "for"} \cup term,
                 topic |-> {"looking", "for"} \cup term, angle |-> "direct", kind |-> "role_need"]}]
Cats == [id |-> 1, name |-> {"cats"}]

(* A chat about cats that a search for a role of any profile has found is clearly         *)
(* relevant to every profile with that role: the query is stored as the snippet.          *)
ASSUME QueriesCountAsMeaning ==
  \A p \in Profiles : \A t \in ToSet(p.roles) :
    LET intent == Relevance!Intent(p)
        found == Relevance!LineagesFor(intent, {Searched(t)})
    IN  /\ Relevance!Evaluation(intent, Cats, found).label = "CLEARLY_RELEVANT"
        /\ Relevance!Evaluation(intent, Cats, {}).label = "CLEARLY_IRRELEVANT"
        /\ ~Relevance!NeedsCampaign(Relevance!Coverage(
              {[Relevance!Evaluation(intent, [Cats EXCEPT !.id = n], found) EXCEPT !.source = n] : n \in 1..3}))

-------------------------------------------------------------------------------
(* The rules of the two searches inside Telegram.  Names are numbers, the capital letters *)
(* of a name add ten; the numbers of chats are negative.                                 *)
Small(name) == IF name = None THEN None ELSE name % 10
RankOfNumber(key) == key
RankOfKey(key) == CASE key[1] = "peer" -> 100 + key[2][2] [] key[1] = "username" -> 200 + key[2]
                    [] key[1] = "invite" -> 300 + key[2]
MCShort == [language \in {"ru", "en"} |-> <<"look", "need", "hire">>]
MCLong == [group \in {"role", "service", "skill"} |->
             [ru |-> <<[text |-> "need", family |-> "d"], [text |-> "job", family |-> "v"]>>,
              en |-> <<[text |-> "look", family |-> "d"], [text |-> "a", family |-> "d"], [text |-> "job", family |-> "v"]>>]]
Search == INSTANCE SearchRules WITH Fold <- Small, KeyRank <- RankOfNumber,
                                    ShortTemplates <- MCShort, LongTemplates <- MCLong
Links == INSTANCE SearchRules WITH Fold <- Small, KeyRank <- RankOfKey,
                                   ShortTemplates <- MCShort, LongTemplates <- MCLong

T1 == [text |-> "python", script |-> "latin"]
T2 == [text |-> "sql", script |-> "latin"]
T3 == [text |-> "duwave", script |-> "cyrillic"]
T4 == [text |-> "1c", script |-> "digits"]
Searchers ==
  [roles : {<<>>, <<T1, T2, T1>>}, services : {<<>>, <<T2, T3>>},
   industries : {<<T4>>}, skills : {<<>>, <<T2, T4>>}, languages : {<<"en">>, <<"ru", "en">>}]
Ranked(plan) == \A i, j \in DOMAIN plan : i <= j => Search!Priority(plan[i].tier) >= Search!Priority(plan[j].tier)

(* A plan keeps its bound and repeats no text, its broad queries come first and leave     *)
(* room for a buyer's query whenever the bound does.                                     *)
ASSUME PlansLeaveRoomForBuyers ==
  \A p \in Searchers, most \in {1, 2, 5, 16} :
    LET plan == Search!SearchPlan(p, most)
        broad == {i \in DOMAIN plan : plan[i].tier = "broad"}
    IN  /\ Len(plan) <= most /\ IsInjective([i \in DOMAIN plan |-> plan[i].text]) /\ Ranked(plan)
        /\ Cardinality(broad) <= 4
        /\ plan # <<>> /\ most > 1 => \E i \in DOMAIN plan : plan[i].tier = "short_buyer"
        /\ (most >= 5 /\ \A g \in ToSet(Search!GroupNames) : Search!Terms(p, g) # <<>>) =>
             \A g \in ToSet(Search!GroupNames) : \E i \in broad : plan[i].text[2] = Search!Terms(p, g)[1].text

PageOf(n, next) == [messages |-> [i \in 1..n |-> <<n, i>>], next |-> next]
PagesOf == UNION {[1..k -> {PageOf(n, next) : n \in 0..3, next \in {None, 1, 2}}] : k \in 0..3}
(* No query and no run takes more hits than its cap, even of a server that answers with   *)
(* more than it was asked for, and a server that repeats itself is left.                 *)
ASSUME ReadingEnds ==
  \A pages \in PagesOf, perQuery \in {1, 3, 5}, page \in {1, 2}, room \in {0, 2, 9} :
    LET read == Search!Read(pages, [perQuery |-> perQuery, page |-> page], room)
    IN  /\ Len(read.messages) <= perQuery /\ Len(read.messages) <= room
        /\ (\A i \in DOMAIN pages : pages[i] = pages[1]) => read.pages <= 2
        /\ LET q == [text |-> 1, pages |-> pages]
               hits == Search!Hits(<<q, [q EXCEPT !.text = 2]>>, [k \in {q, [q EXCEPT !.text = 2]} |-> k.pages],
                                   [perQuery |-> perQuery, page |-> page, total |-> room])
           IN  Len(hits) <= room /\ (2 * perQuery <= room => Len(hits) = 2 * Len(read.messages))

Chats == {[peer |-> -1, name |-> None, kind |-> "channel"], [peer |-> -2, name |-> 12, kind |-> "group"],
          [peer |-> 3, name |-> 3, kind |-> "user"], [peer |-> -4, name |-> 4, kind |-> "group"]}
HitsOf == [1..3 -> [query : {1, 2}, rank : {1}, message : [chat : Chats, id : {1}]]]
(* Candidates are chats of hits, each once and none that is known by number or name,      *)
(* those found by most queries first; messages of known chats are kept beside them.      *)
ASSUME CandidatesAreNewChats ==
  \A hits \in HitsOf, known \in {{}, {-1}, {2}, {-2, 4}} :
    LET found == Search!Candidates(hits, known, 2)
        messages == Search!Messages(hits, known)
    IN  /\ Len(found) <= 2 /\ IsInjective([i \in DOMAIN found |-> found[i].id])
        /\ \A i \in DOMAIN found : /\ found[i].id \notin known /\ found[i].handle \notin known
                                   /\ found[i].id < 0 /\ found[i].hits >= found[i].queries
        /\ \A i, j \in DOMAIN found : i < j => found[i].queries >= found[j].queries
        /\ \A m \in messages : \/ m.known \/ m.key.peer > 0 \/ Len(found) = 2
                               \/ \E i \in DOMAIN found : found[i].id = m.key.peer
        /\ Cardinality({m.key : m \in messages}) = Cardinality(messages)

Word(form, value) == [is |-> form, value |-> value]
PathsOf == {<<Word("handle", 5)>>, <<Word("handle", 15)>>, <<Word("plus", 17)>>, <<Word("plus", 7)>>,
            <<Word("joinchat", 0), Word("handle", 7)>>, <<Word("c", 0), Word("number", 9)>>,
            <<Word("peer", 9)>>, <<Word("reserved", 6)>>}
Longer(path) == {path, path \o <<Word("number", 3)>>, <<Word("s", 0)>> \o path}
LinksOf == [host : {"telegram", "other"}, words : UNION {Longer(path) : path \in PathsOf} \cup {<<>>}, extra : BOOLEAN]
(* The links to a chat and to its messages have one key, also in the graph; only invites  *)
(* that differ in the case of their letters are one invite to all but the graph.         *)
ASSUME LinksOfAChatHaveOneKey ==
  /\ \A path \in PathsOf : \A words \in Longer(path) :
       LET Of(w) == Links!Reference([host |-> "telegram", words |-> w, extra |-> FALSE])
       IN  Of(words) # None => Of(words).key = Of(path).key
  /\ \A link \in LinksOf : (Links!Reference(link) # None /\ Links!GraphKey(link) # None) =>
       LET key == Links!Reference(link).key
           graphKey == Links!GraphKey(link)
       IN  key = graphKey \/ (key[1] = "invite" /\ graphKey[1] = "invite" /\ key[2] = Small(graphKey[2]))

Telegram(words) == [host |-> "telegram", words |-> words, extra |-> FALSE]
Text(links, mentions, forward) ==
  [id |-> 1, links |-> links, mentions |-> mentions, urls |-> <<>>, forward |-> forward]
NoForward == [entity |-> None, peer |-> None]
MessagesOf ==
  {Text(<<Telegram(<<Word("handle", 11)>>), Telegram(<<Word("plus", 3)>>)>>, <<4>>, NoForward),
   Text(<<Telegram(<<Word("handle", 2), Word("number", 8)>>)>>, <<>>, NoForward),
   Text(<<>>, <<1>>, [entity |-> [peer |-> <<"-100", 5>>, name |-> None, kind |-> "channel"], peer |-> None]),
   Text(<<Telegram(<<Word("handle", 1)>>)>>, <<>>, [entity |-> None, peer |-> <<"-100", 6>>])}
SeenIn(n) == {FlattenSeq([i \in 1..n |-> Links!MessageReferences([m[i] EXCEPT !.id = i])]) : m \in [1..n -> MessagesOf]}
Answers ==
  [key \in {<<"username", n>> : n \in 1..4} \cup {<<"invite", 3>>, <<"peer", <<"-100", 6>>>>} |->
     CASE key = <<"username", 1>> -> [peer |-> <<"-100", 1>>, name |-> 1, kind |-> "group"]
       [] key = <<"invite", 3>> -> [peer |-> <<"-100", 5>>, name |-> None, kind |-> "channel"]
       [] key[1] = "peer" -> [peer |-> <<"-100", 6>>, name |-> 12, kind |-> "group"]
       [] OTHER -> None]
NoScan == [cache |-> <<>>, used |-> 0, observed |-> <<>>]
(* Over the seeds of a run Telegram is asked at most as often as the budget allows, once   *)
(* for a key, never for a known one and never for a mention.                              *)
ASSUME ScansKeepTheirBudget ==
  \A first \in SeenIn(2), second \in SeenIn(2), budget \in {1, 2, 5}, known \in {{}, {<<"username", 1>>}} :
    LET one == Links!Scan(NoScan, <<"username", 9>>, first, known, Answers, budget)
        run == Links!Scan(one, <<"username", 1>>, second, known, Answers, budget)
        asked == {first[i] : i \in DOMAIN first} \cup {second[i] : i \in DOMAIN second}
        keys == {r.key : r \in {q \in asked : q.key # None /\ q.entity = None}} \ known
    IN  /\ run.used <= budget /\ run.used <= Cardinality(keys)
        /\ run.used < budget => keys \subseteq DOMAIN run.cache
        /\ DOMAIN run.cache \cap known = {} /\ <<"username", 4>> \notin DOMAIN run.cache
        /\ \A i \in DOMAIN run.observed : run.observed[i].target # run.observed[i].seed
        /\ Len(Links!GraphCandidates(run.observed, 2, 3)) <= 2
====
