------------------------- MODULE OpportunityRules --------------------------
(***************************************************************************)
(* The rules of canonical opportunities: when two texts are near, when two *)
(* analyses tell of one task (opportunity_dedup.py), which opportunity is  *)
(* the duplicate that is taken, how an opportunity may change its status,  *)
(* which of its messages is preferred, and what is listed for matching     *)
(* (persistence/opportunities.py).  A text is a sequence of tokens, a      *)
(* similarity a fraction <<n, d>>, a threshold a number of hundredths.     *)
(***************************************************************************)
EXTENDS Integers, SequencesExt

CONSTANTS
    Null,          \* NULL in a column, None in an analysis
    Numeric,       \* the tokens with a digit
    Matched(_, _)  \* length of the matching blocks difflib.SequenceMatcher finds

-----------------------------------------------------------------------------
(* Similarity                                                              *)

Lower(f, g) == f[1] * g[2] < g[1] * f[2]
AtLeast(f, threshold) == 100 * f[1] >= threshold * f[2]

Count(s, t) == Cardinality({i \in DOMAIN s : s[i] = t})
Shorter(l, r) == IF Len(l) <= Len(r) THEN Len(l) ELSE Len(r)
Longer(l, r) == IF Len(l) <= Len(r) THEN Len(r) ELSE Len(l)

(* The sum of Counter(l) & Counter(r).                                     *)
Overlap(l, r) ==
    Cardinality({c \in ToSet(l) \X (1..Len(l)) : c[2] <= Count(l, c[1]) /\ c[2] <= Count(r, c[1])})

(* _token_similarity: the lesser of two measures, one of them blind to the *)
(* order of the tokens.                                                    *)
Similarity(l, r) ==
    LET bags == <<Overlap(l, r), Longer(l, r)>>
        order == <<2 * Matched(l, r), Len(l) + Len(r)>>
    IN  IF Lower(order, bags) THEN order ELSE bags

SameNumbers(l, r) == \A t \in Numeric : Count(l, t) = Count(r, t)

(* _near_text_similarity against the threshold.                            *)
IsNear(l, r, p) ==
    /\ Shorter(l, r) >= p.near_tokens /\ SameNumbers(l, r)
    /\ AtLeast(Similarity(l, r), p.near)

-----------------------------------------------------------------------------
(* Two analyses of one task; contact is a function of the fields an        *)
(* analysis has, task and role are sequences of tokens, empty if not known.*)

DedupPolicy ==
    {p \in [near : 50..99, near_tokens : Nat, window : Nat \ {0}, candidates : 1..2000,
            contact : 1..100, budget : 1..100, semantic : 1..100,
            tokens : Nat, semantic_tokens : Nat] :
        /\ 3 <= p.near_tokens /\ 3 <= p.tokens /\ p.tokens <= p.semantic_tokens
        /\ p.contact <= p.budget /\ p.budget <= p.semantic}

TypesCompatible(a, b) == a.type = b.type \/ "unknown" \in {a.type, b.type}

RolesCompatible(l, r) == l = <<>> \/ r = <<>> \/ AtLeast(Similarity(l, r), 50)

SharedContacts(a, b) ==
    {f \in DOMAIN a.contact \cap DOMAIN b.contact : a.contact[f] = b.contact[f]}
ConflictingContacts(a, b) == (DOMAIN a.contact \cap DOMAIN b.contact) \ SharedContacts(a, b)

Differ(x, y) == x # Null /\ y # Null /\ x # y

(* _budget_bounds; a known budget has at least one of them.                *)
LowerBound(b) == IF b.min = Null THEN b.max ELSE b.min
UpperBound(b) == IF b.max = Null THEN b.min ELSE b.max

BudgetRelation(b, c) ==
    CASE ~b.known /\ ~c.known -> "both_unknown"
      [] b.known # c.known -> "one_unknown"
      [] b.known /\ c.known /\ (\/ Differ(b.currency, c.currency) \/ Differ(b.period, c.period)
                                \/ UpperBound(b) < LowerBound(c)
                                \/ UpperBound(c) < LowerBound(b)) -> "conflict"
      [] OTHER -> IF LowerBound(b) = LowerBound(c) /\ UpperBound(b) = UpperBound(c)
                  THEN "exact" ELSE "overlap"

MayBeOne(a, b, p) ==
    /\ a.is_opportunity /\ b.is_opportunity
    /\ TypesCompatible(a, b) /\ RolesCompatible(a.role, b.role)
    /\ Shorter(a.task, b.task) >= p.tokens
    /\ ConflictingContacts(a, b) = {}
    /\ BudgetRelation(a.budget, b.budget) # "conflict"

(* evaluate_structured_duplicate: the rule that makes b a duplicate of a,  *)
(* or Null.                                                                *)
DecisionRule(a, b, p) ==
    LET alike == Similarity(a.task, b.task)
    IN  IF ~MayBeOne(a, b, p) THEN Null
        ELSE IF SharedContacts(a, b) # {} /\ AtLeast(alike, p.contact)
             THEN "shared_contact_and_task"
        ELSE IF /\ BudgetRelation(a.budget, b.budget) \in {"exact", "overlap"}
                /\ AtLeast(alike, p.budget)
             THEN "compatible_budget_and_task"
        ELSE IF Shorter(a.task, b.task) >= p.semantic_tokens /\ AtLeast(alike, p.semantic)
             THEN "analysis_semantic_task"
        ELSE Null

-----------------------------------------------------------------------------
(* _find_duplicate: entries are the linked cache entries with their text   *)
(* and analysis, and the dates of their opportunities; new is an entry     *)
(* that is not linked.                                                     *)

InDedupWindow(e, new, p) ==
    new.first_seen - p.window <= e.first_seen /\ e.first_seen <= new.last_seen + p.window

Reachable(entries, new, p) ==
    {e \in entries : e.cache # new.cache /\ InDedupWindow(e, new, p)}

ComesFirst(e, f) ==
    \/ e.first_seen < f.first_seen
    \/ e.first_seen = f.first_seen /\ e.linked_at < f.linked_at
    \/ e.first_seen = f.first_seen /\ e.linked_at = f.linked_at /\ e.cache < f.cache

IsRecent(e, f) ==
    \/ e.last_seen > f.last_seen
    \/ e.last_seen = f.last_seen /\ e.linked_at > f.linked_at
    \/ e.last_seen = f.last_seen /\ e.linked_at = f.linked_at /\ e.cache < f.cache

Candidates(entries, new, p) ==
    LET within == Reachable(entries, new, p)
    IN  {e \in within : Cardinality({f \in within : IsRecent(f, e)}) < p.candidates}

(* The candidate with the highest similarity, of several the one whose     *)
(* opportunity was seen first.                                             *)
IsBest(e, candidates, similarity) ==
    /\ e \in candidates
    /\ \A f \in candidates :
         \/ e = f
         \/ Lower(similarity[f], similarity[e])
         \/ /\ ~Lower(similarity[e], similarity[f])
            /\ e.first_seen < f.first_seen \/ (e.first_seen = f.first_seen /\ e.cache < f.cache)

Match(relation, S, similarity) ==
    {[relation |-> relation, opportunity |-> e.opportunity, matched |-> e.cache] :
        e \in {x \in S : IsBest(x, S, similarity)}}

(* The match, or none: the same text comes before a near one, and a near   *)
(* text before a task told in other words.                                 *)
DuplicateOf(entries, new, p) ==
    LET same == {e \in Reachable(entries, new, p) : e.text = new.text}
        first == {e \in same : \A f \in same : f = e \/ ComesFirst(e, f)}
        among == Candidates(entries, new, p)
        near == {e \in among : IsNear(new.text, e.text, p)}
        told == {e \in among : DecisionRule(new.analysis, e.analysis, p) # Null}
    IN  IF same # {} THEN Match("exact_duplicate", first, [e \in first |-> <<1, 1>>])
        ELSE IF near # {}
             THEN Match("near_duplicate", near, [e \in near |-> Similarity(new.text, e.text)])
        ELSE Match("semantic_duplicate", told,
                   [e \in told |-> Similarity(new.analysis.task, e.analysis.task)])

-----------------------------------------------------------------------------
(* The lifecycle of an opportunity: its status and the events, oldest      *)
(* first; linked are its messages.                                         *)

LifecycleStatus == {"active", "stale", "closed", "retracted", "suppressed"}

ValidNext ==
    [active |-> LifecycleStatus \ {"active"}, stale |-> LifecycleStatus \ {"stale"},
     closed |-> {"active", "retracted", "suppressed"}, retracted |-> {"active", "suppressed"},
     suppressed |-> {"active"}]

LifecycleEvent(from, to, evidence, actor) ==
    [from |-> from, to |-> to, evidence |-> evidence, actor |-> actor]

Moved(o, to, evidence, actor) ==
    [status |-> to, events |-> Append(o.events, LifecycleEvent(o.status, to, evidence, actor))]

(* ensure_from_analysis records the creation with the message seen first.  *)
CreatedLifecycle(evidence) ==
    [status |-> "active", events |-> <<LifecycleEvent(Null, "active", evidence, "system")>>]

(* _transition_lifecycle, by the system or as an operator's override;      *)
(* a transition that is refused raises.                                    *)
IsRefused(o, to, evidence, linked, actor) ==
    /\ o.status # to
    /\ \/ actor = "system" /\ to \notin ValidNext[o.status]
       \/ evidence # Null /\ evidence \notin linked

Transitioned(o, to, evidence, linked, actor) ==
    IF o.status = to \/ IsRefused(o, to, evidence, linked, actor) THEN o
    ELSE Moved(o, to, evidence, actor)

(* _reactivate_stale_for_new_observation                                   *)
Reactivated(o, evidence) ==
    IF o.status = "stale" THEN Moved(o, "active", evidence, "system") ELSE o

-----------------------------------------------------------------------------
(* The messages of an opportunity and its place in the lists               *)

(* The policy of the preferred source: the earliest message.               *)
IsPreferredTo(m, n) ==
    \/ m.date < n.date
    \/ m.date = n.date /\ m.observed < n.observed
    \/ m.date = n.date /\ m.observed = n.observed /\ m.source < n.source
    \/ m.date = n.date /\ m.observed = n.observed /\ m.source = n.source /\ m.id < n.id

(* _refresh_preferred_source                                               *)
Preferred(messages, current) ==
    IF messages = {} THEN current
    ELSE CHOOSE m \in messages : \A n \in messages : n = m \/ IsPreferredTo(m, n)

(* _record_with_links, alternate_sources: the sources of an opportunity in *)
(* the order of the policy, and all but the preferred one.                 *)
Observations(messages) == SetToSortSeq(messages, IsPreferredTo)
AlternateSources(messages, preferred) ==
    SelectSeq(Observations(messages), LAMBDA m : m # preferred)

(* list_recent, list_observed_since and list_recent_for_matching.          *)
IsListedBefore(q, o) ==
    q.last_seen > o.last_seen \/ (q.last_seen = o.last_seen /\ q.id < o.id)
MostRecent(rows, limit) ==
    {o \in rows : Cardinality({q \in rows : IsListedBefore(q, o)}) < limit}
ObservedSince(rows, since, limit) == MostRecent({o \in rows : since <= o.last_seen}, limit)
RecentForMatching(rows, as_of, maximum_age, limit) ==
    MostRecent({o \in rows : /\ as_of - maximum_age <= o.last_seen /\ o.last_seen <= as_of
                             /\ o.status \notin {"closed", "retracted", "suppressed"}}, limit)
=============================================================================
