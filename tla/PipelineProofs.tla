--------------------------- MODULE PipelineProofs ---------------------------
(***************************************************************************)
(* The pipeline from a message to a canonical opportunity keeps what it    *)
(* promises however handlers are retried and overtake each other.  Before  *)
(* it, what the rules of canonical opportunities, of their analyses and of *)
(* matching promise, for every analysis, set of entries, opportunity,      *)
(* profile and policy.                                                     *)
(***************************************************************************)
EXTENDS Pipeline, OpportunityRules, RelevanceRules, MatchRules, FiniteSetTheorems,
        WellFoundedInduction, TLAPS

CONSTANTS Fold(_), Usernames, Version, DefaultModel
Analysis == INSTANCE AnalysisRules WITH None <- Null

(* Numbers of a policy and lengths of texts.                               *)
LEMMA PolicyNumbers ==
  ASSUME NEW p \in DedupPolicy
  PROVE  /\ p.contact \in Int /\ p.budget \in Int /\ p.semantic \in Int /\ p.window \in Int
         /\ p.contact <= p.budget /\ p.budget <= p.semantic /\ 0 < p.contact
BY DEF DedupPolicy

LEMMA ThresholdsAreOrdered ==
  ASSUME NEW f \in Nat \X Nat, NEW low \in Nat, NEW high \in Nat, low <= high, AtLeast(f, high)
  PROVE  AtLeast(f, low)
<1> DEFINE d == f[2]
<1>1. d \in Nat /\ f[1] \in Nat
  OBVIOUS
<1>2. low * d <= high * d /\ low * d \in Int /\ high * d \in Int
  BY <1>1
<1> QED
  BY <1>1, <1>2 DEF AtLeast

(* Whatever rule makes two analyses one task, both are opportunities whose *)
(* contacts and budgets do not contradict each other, and their tasks are  *)
(* as similar as the lowest threshold asks (evaluate_structured_duplicate).*)
THEOREM StructuredDuplicatesAgree ==
  ASSUME NEW a, NEW b, NEW p \in DedupPolicy,
         Similarity(a.task, b.task) \in Nat \X Nat,
         DecisionRule(a, b, p) # Null
  PROVE  /\ a.is_opportunity /\ b.is_opportunity
         /\ \A f \in DOMAIN a.contact \cap DOMAIN b.contact : a.contact[f] = b.contact[f]
         /\ BudgetRelation(a.budget, b.budget) # "conflict"
         /\ AtLeast(Similarity(a.task, b.task), p.contact)
<1>1. MayBeOne(a, b, p)
  BY DEF DecisionRule
<1>2. p.contact \in Nat /\ p.budget \in Nat /\ p.semantic \in Nat
  BY PolicyNumbers DEF DedupPolicy
<1>3. \/ AtLeast(Similarity(a.task, b.task), p.contact)
      \/ AtLeast(Similarity(a.task, b.task), p.budget)
      \/ AtLeast(Similarity(a.task, b.task), p.semantic)
  BY DEF DecisionRule
<1>4. AtLeast(Similarity(a.task, b.task), p.contact)
  BY <1>2, <1>3, PolicyNumbers, ThresholdsAreOrdered
<1> QED
  BY <1>1, <1>4 DEF MayBeOne, ConflictingContacts, SharedContacts

(* Two budgets are in the same relation whichever of them came first       *)
(* (_budget_relation).                                                     *)
THEOREM BudgetRelationIsMutual ==
  ASSUME NEW b, NEW c, b.known \in BOOLEAN, c.known \in BOOLEAN,
         b.known => LowerBound(b) \in Int /\ UpperBound(b) \in Int,
         c.known => LowerBound(c) \in Int /\ UpperBound(c) \in Int
  PROVE  BudgetRelation(b, c) = BudgetRelation(c, b)
<1> DEFINE contradict(x, y) == \/ Differ(x.currency, y.currency) \/ Differ(x.period, y.period)
                               \/ UpperBound(x) < LowerBound(y) \/ UpperBound(y) < LowerBound(x)
           equal(x, y) == LowerBound(x) = LowerBound(y) /\ UpperBound(x) = UpperBound(y)
<1>1. contradict(b, c) <=> contradict(c, b)
  BY DEF Differ
<1>2. equal(b, c) <=> equal(c, b)
  OBVIOUS
<1>3. ASSUME NEW x, NEW y, x.known \in BOOLEAN, y.known \in BOOLEAN
      PROVE  BudgetRelation(x, y) =
               IF ~x.known /\ ~y.known THEN "both_unknown"
               ELSE IF x.known # y.known THEN "one_unknown"
               ELSE IF contradict(x, y) THEN "conflict"
               ELSE IF equal(x, y) THEN "exact" ELSE "overlap"
  BY <1>3 DEF BudgetRelation
<1> HIDE DEF contradict, equal
<1> QED
  BY <1>1, <1>2, <1>3

-----------------------------------------------------------------------------
(* The duplicate that is taken                                             *)

Entries(S) == \A e \in S : e.cache \in Nat /\ e.first_seen \in Int /\ e.linked_at \in Int
Distinct(S) == \A e, f \in S : e.cache = f.cache => e = f

LEMMA BestIsUnique ==
  ASSUME NEW S, Entries(S), Distinct(S), NEW sim \in [S -> Nat \X Nat],
         NEW e \in S, NEW f \in S, IsBest(e, S, sim), IsBest(f, S, sim)
  PROVE  e = f
<1>1. SUFFICES ASSUME e # f  PROVE FALSE
  OBVIOUS
<1> DEFINE before(x, y) == x.first_seen < y.first_seen
                           \/ (x.first_seen = y.first_seen /\ x.cache < y.cache)
<1>2. ~(before(e, f) /\ before(f, e))
  BY DEF Entries
<1>3. ~(Lower(sim[e], sim[f]) /\ Lower(sim[f], sim[e]))
  <2>1. sim[e] \in Nat \X Nat /\ sim[f] \in Nat \X Nat
    OBVIOUS
  <2>2. sim[e][1] * sim[f][2] \in Int /\ sim[f][1] * sim[e][2] \in Int
    BY <2>1
  <2> QED
    BY <2>2 DEF Lower
<1>4. \/ Lower(sim[f], sim[e])
      \/ ~Lower(sim[e], sim[f]) /\ before(e, f)
  BY <1>1 DEF IsBest
<1>5. \/ Lower(sim[e], sim[f])
      \/ ~Lower(sim[f], sim[e]) /\ before(f, e)
  BY <1>1 DEF IsBest
<1> QED
  BY <1>2, <1>3, <1>4, <1>5

LEMMA MatchIsUnique ==
  ASSUME NEW S, Entries(S), Distinct(S), NEW sim \in [S -> Nat \X Nat], NEW relation,
         NEW m \in Match(relation, S, sim), NEW n \in Match(relation, S, sim)
  PROVE  m = n
<1>1. PICK e \in S : IsBest(e, S, sim)
                     /\ m = [relation |-> relation, opportunity |-> e.opportunity, matched |-> e.cache]
  BY DEF Match
<1>2. PICK f \in S : IsBest(f, S, sim)
                     /\ n = [relation |-> relation, opportunity |-> f.opportunity, matched |-> f.cache]
  BY DEF Match
<1>3. e = f
  BY <1>1, <1>2, BestIsUnique
<1> QED
  BY <1>1, <1>2, <1>3

LEMMA MatchIsMember ==
  ASSUME NEW S, NEW sim, NEW relation, NEW m \in Match(relation, S, sim)
  PROVE  \E e \in S : m.opportunity = e.opportunity /\ m.matched = e.cache
BY DEF Match

(* A new analysis is a duplicate of one opportunity at most, whatever the  *)
(* order in which the database lists the candidates, and of one inside the *)
(* window by an entry other than its own (_find_duplicate).                *)
THEOREM AtMostOneDuplicate ==
  ASSUME NEW entries, Entries(entries), Distinct(entries), NEW new, NEW p \in DedupPolicy,
         \A e \in entries : /\ Similarity(new.text, e.text) \in Nat \X Nat
                             /\ Similarity(new.analysis.task, e.analysis.task) \in Nat \X Nat
  PROVE  /\ \A m, n \in DuplicateOf(entries, new, p) : m = n
         /\ \A m \in DuplicateOf(entries, new, p) : \E e \in entries :
              /\ m.opportunity = e.opportunity /\ m.matched = e.cache
              /\ e.cache # new.cache /\ InDedupWindow(e, new, p)
<1> DEFINE same == {e \in Reachable(entries, new, p) : e.text = new.text}
           first == {e \in same : \A f \in same : f = e \/ ComesFirst(e, f)}
           among == Candidates(entries, new, p)
           near == {e \in among : IsNear(new.text, e.text, p)}
           told == {e \in among : DecisionRule(new.analysis, e.analysis, p) # Null}
           one == [e \in first |-> <<1, 1>>]
           bytext == [e \in near |-> Similarity(new.text, e.text)]
           bytask == [e \in told |-> Similarity(new.analysis.task, e.analysis.task)]
<1>1. first \subseteq Reachable(entries, new, p) /\ near \subseteq Reachable(entries, new, p)
      /\ told \subseteq Reachable(entries, new, p)
  BY DEF Candidates
<1>2. Reachable(entries, new, p) \subseteq entries
  BY DEF Reachable
<1>3. /\ Entries(first) /\ Entries(near) /\ Entries(told)
      /\ Distinct(first) /\ Distinct(near) /\ Distinct(told)
  BY <1>1, <1>2 DEF Entries, Distinct
<1>4. /\ one \in [first -> Nat \X Nat] /\ bytext \in [near -> Nat \X Nat]
      /\ bytask \in [told -> Nat \X Nat]
  BY <1>1, <1>2
<1>5. DuplicateOf(entries, new, p) =
        IF same # {} THEN Match("exact_duplicate", first, one)
        ELSE IF near # {} THEN Match("near_duplicate", near, bytext)
        ELSE Match("semantic_duplicate", told, bytask)
  BY DEF DuplicateOf
<1> HIDE DEF same, first, among, near, told, one, bytext, bytask
<1>6. \A m, n \in DuplicateOf(entries, new, p) : m = n
  BY <1>3, <1>4, <1>5, MatchIsUnique
<1>7. ASSUME NEW m \in DuplicateOf(entries, new, p)
      PROVE  \E e \in Reachable(entries, new, p) : m.opportunity = e.opportunity /\ m.matched = e.cache
  BY <1>1, <1>5, MatchIsMember
<1> QED
  BY <1>6, <1>7 DEF Reachable

-----------------------------------------------------------------------------
(* The lifecycle and the preferred source                                  *)

Event(messages) ==
    [from : LifecycleStatus \cup {Null}, to : LifecycleStatus,
     evidence : messages \cup {Null}, actor : {"system", "operator"}]

(* The events tell the whole story: the first one is the creation, each    *)
(* starts where the one before ended and changes the status, and the last  *)
(* one ended where the opportunity is.                                     *)
IsChain(o, messages) ==
    /\ o.events \in Seq(Event(messages)) /\ Len(o.events) > 0
    /\ o.events[1].from = Null /\ o.events[Len(o.events)].to = o.status
    /\ \A i \in 2..Len(o.events) : /\ o.events[i].from = o.events[i - 1].to
                                   /\ o.events[i].from # o.events[i].to

LEMMA MovesExtendTheChain ==
  ASSUME NEW o, NEW messages, IsChain(o, messages), NEW to \in LifecycleStatus, to # o.status,
         NEW evidence \in messages \cup {Null}, NEW actor \in {"system", "operator"}
  PROVE  IsChain(Moved(o, to, evidence, actor), messages)
<1> DEFINE e == LifecycleEvent(o.status, to, evidence, actor)
           s == o.events
           t == Append(s, e)
           n == Len(s)
<1>1. s \in Seq(Event(messages)) /\ n \in Nat /\ n > 0
  BY DEF IsChain
<1>2. s[n].to = o.status /\ s[n] \in Event(messages)
  BY <1>1 DEF IsChain
<1>3. o.status \in LifecycleStatus
  BY <1>2 DEF Event
<1>4. e \in Event(messages) /\ e.from = o.status /\ e.to = to
  BY <1>3 DEF Event, LifecycleEvent
<1>5. Moved(o, to, evidence, actor) = [status |-> to, events |-> t]
  BY DEF Moved
<1> HIDE DEF e
<1>6. /\ t \in Seq(Event(messages)) /\ Len(t) = n + 1 /\ t[n + 1] = e
      /\ \A i \in 1..n : t[i] = s[i]
  BY <1>1, <1>4
<1>7. \A i \in 2..n : s[i].from = s[i - 1].to /\ s[i].from # s[i].to
  BY DEF IsChain
<1>8. s[1].from = Null
  BY DEF IsChain
<1> HIDE DEF s, t, n
<1>9. ASSUME NEW i \in 2..Len(t)
      PROVE  t[i].from = t[i - 1].to /\ t[i].from # t[i].to
  <2>1. CASE i = n + 1
    <3>1. t[i] = e /\ t[i - 1] = s[n]
      BY <1>1, <1>6, <2>1
    <3> QED
      BY <1>2, <1>4, <3>1 DEF s, n
  <2>2. CASE i # n + 1
    <3>1. i \in 2..n /\ t[i] = s[i] /\ t[i - 1] = s[i - 1]
      BY <1>1, <1>6, <2>2
    <3> QED
      BY <1>7, <3>1
  <2> QED
    BY <2>1, <2>2
<1>10. t[1] = s[1]
  BY <1>1, <1>6
<1> QED
  BY <1>1, <1>4, <1>5, <1>6, <1>8, <1>9, <1>10 DEF IsChain

(* Whatever the system, an operator or a new observation does to an        *)
(* opportunity, its events remain the whole story of its status            *)
(* (_transition_lifecycle, _reactivate_stale_for_new_observation).         *)
THEOREM EventsTellTheStatus ==
  ASSUME NEW messages, NEW linked \in SUBSET messages
  PROVE  /\ \A m \in messages : IsChain(CreatedLifecycle(m), messages)
         /\ \A o : IsChain(o, messages) =>
              /\ \A m \in linked : IsChain(Reactivated(o, m), messages)
              /\ \A to \in LifecycleStatus, m \in messages \cup {Null}, actor \in {"system", "operator"} :
                   IsChain(Transitioned(o, to, m, linked, actor), messages)
<1>1. ASSUME NEW m \in messages  PROVE IsChain(CreatedLifecycle(m), messages)
  <2> DEFINE e == LifecycleEvent(Null, "active", m, "system")
  <2>1. e \in Event(messages) /\ e.from = Null /\ e.to = "active"
    BY DEF Event, LifecycleEvent, LifecycleStatus
  <2>2. CreatedLifecycle(m) = [status |-> "active", events |-> <<e>>]
    BY DEF CreatedLifecycle
  <2> HIDE DEF e
  <2>3. <<e>> \in Seq(Event(messages)) /\ Len(<<e>>) = 1 /\ <<e>>[1] = e
    BY <2>1
  <2>4. 2..1 = {}
    OBVIOUS
  <2> QED
    BY <2>1, <2>2, <2>3, <2>4 DEF IsChain
<1>2. ASSUME NEW o, IsChain(o, messages), NEW m \in linked
      PROVE  IsChain(Reactivated(o, m), messages)
  <2>1. "active" \in LifecycleStatus /\ "active" # "stale" /\ m \in messages \cup {Null}
    BY DEF LifecycleStatus
  <2> QED
    BY <1>2, <2>1, MovesExtendTheChain DEF Reactivated
<1>3. ASSUME NEW o, IsChain(o, messages), NEW to \in LifecycleStatus,
             NEW m \in messages \cup {Null}, NEW actor \in {"system", "operator"}
      PROVE  IsChain(Transitioned(o, to, m, linked, actor), messages)
  BY <1>3, MovesExtendTheChain DEF Transitioned
<1> QED
  BY <1>1, <1>2, <1>3

Dated(S) == \A m \in S : {m.date, m.observed, m.source, m.id} \subseteq Int
Apart(S) == \A m, n \in S : m.id = n.id => m = n

(* The preferred message of an opportunity does not depend on the order in *)
(* which its messages were linked: with a new one it is the new one or the *)
(* one it was, as the policy orders these two (_refresh_preferred_source). *)
THEOREM PreferenceIgnoresTheOrder ==
  ASSUME NEW S, NEW m, Dated(S \cup {m}), Apart(S \cup {m}), m \notin S, NEW p \in S,
         \A n \in S : n = p \/ IsPreferredTo(p, n), NEW current
  PROVE  Preferred(S \cup {m}, current) = IF IsPreferredTo(m, p) THEN m ELSE p
<1> DEFINE T == S \cup {m}
           best(x) == \A n \in T : n = x \/ IsPreferredTo(x, n)
           q == IF IsPreferredTo(m, p) THEN m ELSE p
<1>1. \A x \in T : x.date \in Int /\ x.observed \in Int /\ x.source \in Int /\ x.id \in Int
  BY DEF Dated
<1>2. \A x, y \in T : ~(IsPreferredTo(x, y) /\ IsPreferredTo(y, x))
  BY <1>1 DEF IsPreferredTo
<1>3. \A x, y \in T : x = y \/ IsPreferredTo(x, y) \/ IsPreferredTo(y, x)
  <2>1. \A x, y \in T : x # y => x.id # y.id
    BY DEF Apart
  <2> QED
    BY <1>1, <2>1 DEF IsPreferredTo
<1>4. \A x, y, z \in T : IsPreferredTo(x, y) /\ IsPreferredTo(y, z) => IsPreferredTo(x, z)
  BY <1>1 DEF IsPreferredTo
<1>5. q \in T /\ best(q)
  <2>1. CASE IsPreferredTo(m, p)
    BY <1>4, <2>1
  <2>2. CASE ~IsPreferredTo(m, p)
    BY <1>3, <2>2
  <2> QED
    BY <2>1, <2>2
<1>6. \A x \in T : best(x) => x = q
  BY <1>2, <1>5
<1>7. Preferred(T, current) = CHOOSE x \in T : best(x)
  BY DEF Preferred
<1> HIDE DEF T, best, q
<1>8. (CHOOSE x \in T : best(x)) = q
  BY <1>5, <1>6
<1> QED
  BY <1>7, <1>8 DEF T, q

-----------------------------------------------------------------------------
(* Analyses                                                                *)

(* The contract of an answer gives the comparison of budgets what it       *)
(* needs: a budget that is known has an ordered pair of bounds             *)
(* (OpportunityBudget, _budget_bounds).                                    *)
THEOREM ContractBudgetsHaveBounds ==
  ASSUME NEW b, b.known \in BOOLEAN, Null \notin Int,
         b.min \in Int \cup {Null}, b.max \in Int \cup {Null},
         Analysis!BudgetIsConsistent(b), b.known
  PROVE  LowerBound(b) \in Nat /\ UpperBound(b) \in Nat /\ LowerBound(b) <= UpperBound(b)
<1>1. b.min # Null \/ b.max # Null
  BY DEF Analysis!BudgetIsConsistent
<1>2. /\ b.min # Null => b.min \in Nat
      /\ b.max # Null => b.max \in Nat
  BY DEF Analysis!BudgetIsConsistent
<1>3. b.min # Null /\ b.max # Null => b.min <= b.max
  BY DEF Analysis!BudgetIsConsistent
<1> QED
  BY <1>1, <1>2, <1>3 DEF LowerBound, UpperBound

(* What an analyzer answers and stores for a job it takes, it accepts when *)
(* the job is delivered again (RoutedOpportunityAnalyzer.analyze,          *)
(* _require_compatible_envelope).                                          *)
THEOREM OwnAnswersAreReadBack ==
  ASSUME NEW z, NEW first, NEW second, NEW version,
         first = [route |-> first.route, routing |-> first.routing,
                  reason |-> first.reason, confidence |-> first.confidence],
         second = Null \/ second = [route |-> second.route, routing |-> second.routing,
                                    reason |-> second.reason, confidence |-> second.confidence],
         z.primary # Null, first.route = z.primary,
         second # Null => second.route = z.fallback
  PROVE  LET call == Analysis!Answer(z, first, second)
         IN  /\ Analysis!AcceptsMetadata(z, call)
             /\ Analysis!EnvelopeIsCompatible(z, Analysis!Envelope(call, version), version)
<1> DEFINE call == Analysis!Answer(z, first, second)
<1>1. call.routing = z.routing /\ call.route \in Analysis!RoutesOf(z)
  <2>1. CASE z.fallback = Null \/ first.confidence >= z.threshold
    BY <2>1 DEF Analysis!Answer, Analysis!RoutesOf
  <2>2. CASE ~(z.fallback = Null \/ first.confidence >= z.threshold) /\ second = Null
    BY <2>2 DEF Analysis!Answer, Analysis!RoutesOf
  <2>3. CASE ~(z.fallback = Null \/ first.confidence >= z.threshold) /\ second # Null
    BY <2>3 DEF Analysis!Answer, Analysis!RoutesOf
  <2> QED
    BY <2>1, <2>2, <2>3
<1>2. Analysis!Envelope(call, version).route = call.route
      /\ Analysis!Envelope(call, version).routing = call.routing
      /\ Analysis!Envelope(call, version).version = version
  BY DEF Analysis!Envelope
<1> QED
  BY <1>1, <1>2 DEF Analysis!AcceptsMetadata, Analysis!EnvelopeIsCompatible

(* A change of a model, the fallback, the threshold or the routing version *)
(* leaves every queued analysis to a program that refuses it               *)
(* (_require_compatible_job, opportunity_analysis_cache_version).          *)
THEOREM ChangedRoutesRefuseQueuedJobs ==
  ASSUME NEW Routing,
         NEW y \in [primary : Routing, fallback : Routing, threshold : Int, routing : Routing],
         NEW z \in [primary : Routing, fallback : Routing, threshold : Int, routing : Routing],
         y.primary = Analysis!Route(y.primary.provider, y.primary.model),
         y # z
  PROVE  ~Analysis!JobIsCompatible(y, Analysis!CacheVersion(z))
<1>1. Analysis!CacheVersion(z) # Analysis!CacheVersion(y)
  BY DEF Analysis!CacheVersion
<1>2. z # y.primary
  <2>1. DOMAIN z = {"primary", "fallback", "threshold", "routing"}
    OBVIOUS
  <2>2. DOMAIN y.primary = {"provider", "model", "version"}
    BY DEF Analysis!Route
  <2> QED
    BY <2>1, <2>2
<1>3. Analysis!CacheVersion(z) # Analysis!PrimaryCacheVersion(y)
  BY <1>2 DEF Analysis!CacheVersion, Analysis!PrimaryCacheVersion
<1>4. Analysis!CacheVersion(z) # <<Version>>
  BY DEF Analysis!CacheVersion
<1> QED
  BY <1>1, <1>3, <1>4 DEF Analysis!JobIsCompatible, Analysis!SupportedVersions

-----------------------------------------------------------------------------
(* Relevance of sources                                                    *)

Counted(h) ==
  /\ h.profession \in Nat /\ h.service \in Nat /\ h.supporting \in Nat
  /\ h.adjacent \in Nat /\ h.buyer \in Nat /\ h.generic \in Nat

LEMMA PrimaryBounds ==
  ASSUME NEW h, Counted(h)
  PROVE  /\ Primary(h) \in 0..88
         /\ IsDirect(h) => Primary(h) >= 74
         /\ ~IsDirect(h) => Primary(h) <= 40
         /\ ~IsDirect(h) /\ h.buyer = 0 => Primary(h) <= 12
<1>1. ASSUME NEW n \in Nat, NEW start \in Nat
      PROVE  /\ Rising(start, n, 4, 12) \in Nat
             /\ n = 0 => Rising(start, n, 4, 12) = 0
             /\ n > 0 => start <= Rising(start, n, 4, 12) /\ Rising(start, n, 4, 12) <= start + 12
  BY DEF Rising, Smaller
<1>2. ASSUME NEW n \in Nat
      PROVE  Smaller(12, 4 * n) \in 0..12
  BY DEF Smaller
<1> DEFINE p == Rising(76, h.profession, 4, 12)
           s == Rising(74, h.service, 4, 12)
           b == Rising(28, h.buyer, 4, 12)
           g == IF h.generic > 0 THEN 4 ELSE 0
           c == Smaller(12, 4 * h.supporting)
           a == Smaller(12, 4 * h.adjacent)
<1>4. /\ p \in 0..88 /\ (h.profession > 0 => p >= 76) /\ (h.profession = 0 => p = 0)
      /\ s \in 0..86 /\ (h.service > 0 => s >= 74) /\ (h.service = 0 => s = 0)
      /\ b \in 0..40 /\ (h.buyer = 0 => b = 0)
      /\ g \in 0..4 /\ c \in 0..12 /\ a \in 0..12
  <2>1. p \in 0..88 /\ (h.profession > 0 => p >= 76) /\ (h.profession = 0 => p = 0)
    <3>1. h.profession \in Nat /\ 76 \in Nat
      BY DEF Counted
    <3>2. p \in Nat /\ (h.profession = 0 => p = 0) /\ (h.profession > 0 => 76 <= p /\ p <= 76 + 12)
      BY <1>1, <3>1
    <3> HIDE DEF p
    <3> QED
      BY <3>1, <3>2
  <2>2. s \in 0..86 /\ (h.service > 0 => s >= 74) /\ (h.service = 0 => s = 0)
    <3>1. h.service \in Nat /\ 74 \in Nat
      BY DEF Counted
    <3>2. s \in Nat /\ (h.service = 0 => s = 0) /\ (h.service > 0 => 74 <= s /\ s <= 74 + 12)
      BY <1>1, <3>1
    <3> HIDE DEF s
    <3> QED
      BY <3>1, <3>2
  <2>3. b \in 0..40 /\ (h.buyer = 0 => b = 0)
    <3>1. h.buyer \in Nat /\ 28 \in Nat
      BY DEF Counted
    <3>2. b \in Nat /\ (h.buyer = 0 => b = 0) /\ (h.buyer > 0 => 28 <= b /\ b <= 28 + 12)
      BY <1>1, <3>1
    <3> HIDE DEF b
    <3> QED
      BY <3>1, <3>2
  <2>4. g \in 0..4 /\ c \in 0..12 /\ a \in 0..12
    BY <1>2 DEF Counted
  <2> QED
    BY <2>1, <2>2, <2>3, <2>4
<1>5. Primary(h) = Larger(Larger(p, s), Larger(Larger(b, g), Larger(c, a)))
  BY DEF Primary
<1>6. /\ IsDirect(h) => p >= 76 \/ s >= 74
      /\ ~IsDirect(h) => p = 0 /\ s = 0
  BY <1>4 DEF IsDirect, Counted
<1> DEFINE direct == Larger(p, s)
           around == Larger(Larger(b, g), Larger(c, a))
<1> HIDE DEF p, s, b, g, c, a
<1>7. /\ direct \in 0..88
      /\ IsDirect(h) => direct >= 74
      /\ ~IsDirect(h) => direct = 0
  BY <1>4, <1>6 DEF Larger
<1>8. /\ Larger(b, g) \in 0..40 /\ (h.buyer = 0 => Larger(b, g) \in 0..4)
      /\ Larger(c, a) \in 0..12
  BY <1>4 DEF Larger
<1>9. around \in 0..40 /\ (h.buyer = 0 => around \in 0..12)
  BY <1>8 DEF Larger
<1>10. Primary(h) = Larger(direct, around)
  BY <1>5
<1> HIDE DEF direct, around
<1> QED
  BY <1>7, <1>9, <1>10 DEF Larger

LEMMA BonusBounds ==
  ASSUME NEW h
  PROVE  /\ Bonus(h) \in 0..25
         /\ ~IsDirect(h) => Bonus(h) <= 11
         /\ ~IsDirect(h) /\ ~(h.buyer > 0) => Bonus(h) <= 3
BY DEF Bonus

(* A score is a fraction of a hundred; a source is strong exactly when it  *)
(* names a role or a service, and only a buyer habitat or one of these     *)
(* makes it more than weak (evaluate_source_relevance, _score_components). *)
THEOREM StrongMeansDirect ==
  ASSUME NEW h, Counted(h)
  PROVE  /\ Score(h) \in 3..100
         /\ Class(Score(h)) = "strong" <=> IsDirect(h)
         /\ Class(Score(h)) # "weak" => IsDirect(h) \/ h.buyer > 0
<1> DEFINE primary == Primary(h)
           bonus == Bonus(h)
<1>1. /\ primary \in 0..88 /\ bonus \in 0..25
      /\ IsDirect(h) => primary >= 74
      /\ ~IsDirect(h) => primary <= 40 /\ bonus <= 11
      /\ ~IsDirect(h) /\ h.buyer = 0 => primary <= 12 /\ bonus <= 3
  BY PrimaryBounds, BonusBounds DEF Counted
<1>2. Score(h) = Smaller(100, 3 + primary + bonus)
  BY DEF Score
<1> HIDE DEF primary, bonus
<1>3. h.buyer \in Nat
  BY DEF Counted
<1>4. /\ Score(h) \in 3..100
      /\ IsDirect(h) => Score(h) >= 75
      /\ ~IsDirect(h) => Score(h) < 75
      /\ ~IsDirect(h) /\ h.buyer = 0 => Score(h) < 45
  BY <1>1, <1>2, <1>3 DEF Smaller
<1> QED
  BY <1>3, <1>4 DEF Class

LEMMA CountsAreNumbers ==
  ASSUME NEW S, IsFiniteSet(S), NEW text
  PROVE  /\ Hits(S, text) \in Nat
         /\ StrictHits(S, text) \in Nat
         /\ \A t \in S : StrictlyIn(t, text) => StrictHits(S, text) > 0
<1>1. ASSUME NEW T \in SUBSET S
      PROVE  Cardinality(T) \in Nat /\ (T # {} => Cardinality(T) > 0)
  BY FS_Subset, FS_CardinalityType, FS_EmptySet
<1>2. {t \in S : In(t, text)} \in SUBSET S /\ {t \in S : StrictlyIn(t, text)} \in SUBSET S
  OBVIOUS
<1> QED
  BY <1>1, <1>2 DEF Hits, StrictHits

(* A source that Telegram's search has found for a query with a role of    *)
(* the profile, whoever searched, is strong for the profile whatever the   *)
(* source is about: the text of the query is stored as the snippet of the  *)
(* result (_record_search_hit), and snippets count as meaning              *)
(* (_relevance_corpora, against its comment).                              *)
THEOREM QueriesCountAsMeaning ==
  ASSUME NEW intent, NEW found, NEW lineages, NEW l \in lineages, NEW m \in l.matches,
         NEW role \in ToSet(intent.roles), role # {}, role \subseteq m.snippet,
         l.provider = "telegram_global_search",
         \A terms \in {intent.roles, intent.services, intent.skills, intent.industries,
                       intent.adjacent, intent.buyers, intent.habitats} : IsFiniteSet(ToSet(terms))
  PROVE  LET kept == LineagesFor(intent, lineages)
         IN  Evaluation(intent, found, kept).class = "strong"
<1> DEFINE kept == LineagesFor(intent, lineages)
           text == Corpora(found, kept)
           h == HitsOf(intent, found, kept)
           buying == ToSet(intent.habitats) \cup ToSet(intent.buyers)
           specific == {t \in buying : IsSpecific(t, intent)}
<1>1. l \in kept
  BY DEF LineagesFor
<1>2. m \in MatchesOf(kept)
  BY <1>1 DEF MatchesOf
<1>3. role \subseteq text.source
  <2>1. m.title \cup m.snippet \in {k.title \cup k.snippet : k \in MatchesOf(kept)}
    BY <1>2
  <2>2. m.snippet \subseteq Results(kept)
    BY <2>1 DEF Results
  <2>3. text.source = found.name \cup Results(kept) \cup Seeded(kept)
    BY DEF Corpora
  <2> HIDE DEF text, kept
  <2> QED
    BY <2>2, <2>3
<1>4. /\ h.profession = StrictHits(ToSet(intent.roles), text.source)
      /\ h.service = StrictHits(ToSet(intent.services), text.source)
      /\ h.supporting = Hits(ToSet(intent.skills) \cup ToSet(intent.industries), text.source)
      /\ h.adjacent = Hits(ToSet(intent.adjacent), text.source)
      /\ h.buyer = StrictHits(specific, text.buyer)
      /\ h.generic = StrictHits(buying \ specific, text.buyer)
  BY DEF HitsOf
<1>5. IsFiniteSet(buying) /\ IsFiniteSet(ToSet(intent.skills) \cup ToSet(intent.industries))
  BY FS_Union
<1>6. IsFiniteSet(specific) /\ IsFiniteSet(buying \ specific)
  BY <1>5, FS_Subset
<1> HIDE DEF kept, text, buying, specific
<1>7. Counted(h) /\ h.profession > 0
  BY <1>3, <1>4, <1>5, <1>6, CountsAreNumbers DEF Counted, StrictlyIn
<1>8. Evaluation(intent, found, kept).class = Class(Score(h))
  BY DEF Evaluation
<1> HIDE DEF h
<1> QED
  BY <1>7, <1>8, StrongMeansDirect DEF IsDirect, kept

-----------------------------------------------------------------------------
(* Matching: the two passes                                                *)

LEMMA FirstReason ==
  ASSUME NEW o, NEW p, Excluding(o, p) # {}
  PROVE  Exclusion(o, p) \in Excluding(o, p)
<1>1. Excluding(o, p) \subseteq {"work_type", "language", "geography", "no_target_overlap"}
  BY DEF Excluding, Dimension
<1>2. \E c \in Excluding(o, p) : \A d \in Excluding(o, p) : Dimension[c] <= Dimension[d]
  <2>1. CASE "work_type" \in Excluding(o, p)
    BY <1>1, <2>1 DEF Dimension
  <2>2. CASE "work_type" \notin Excluding(o, p) /\ "language" \in Excluding(o, p)
    BY <1>1, <2>2 DEF Dimension
  <2>3. CASE /\ "work_type" \notin Excluding(o, p) /\ "language" \notin Excluding(o, p)
             /\ "geography" \in Excluding(o, p)
    BY <1>1, <2>3 DEF Dimension
  <2>4. CASE Excluding(o, p) = {"no_target_overlap"}
    BY <2>4 DEF Dimension
  <2> QED
    BY <1>1, <2>1, <2>2, <2>3, <2>4
<1> QED
  BY <1>2 DEF Exclusion

LEMMA OnlyAdmittedTerms ==
  ASSUME NEW o, NEW p, Failures(o, p) = {}
  PROVE  /\ TermFailures(o, p) = {} /\ BudgetFailures(o, p) = {}
         /\ o.status = "active" /\ p.is_active /\ p.confirmed
  BY DEF Failures

(* Narrowing and filtering are one test: an active profile is scored       *)
(* exactly when no hard filter fails and its targets meet those of the     *)
(* opportunity, so that what narrowing drops for its type, language or     *)
(* place would have failed the filter of that name                         *)
(* (narrow_and_filter_candidates).                                         *)
THEOREM NarrowingIsConservative ==
  ASSUME NEW o, NEW profiles, NEW p \in profiles, p.is_active, p.confirmed
  PROVE  p \in Eligible(o, profiles) <=> Failures(o, p) = {} /\ ~Disjoint(o, p)
<1>1. ASSUME Failures(o, p) = {}
      PROVE  Exclusion(o, p) = "none" <=> ~Disjoint(o, p)
  <2>1. Excluding(o, p) = IF Disjoint(o, p) THEN {"no_target_overlap"} ELSE {}
    BY <1>1, OnlyAdmittedTerms DEF Excluding
  <2>2. CASE Disjoint(o, p)
    <3>1. Exclusion(o, p) = "no_target_overlap"
      BY <2>1, <2>2, FirstReason
    <3> QED
      BY <2>2, <3>1
  <2>3. CASE ~Disjoint(o, p)
    BY <2>1, <2>3 DEF Exclusion
  <2> QED
    BY <2>2, <2>3
<1>2. ASSUME Failures(o, p) = {}
      PROVE  o.status = "active"
  BY <1>2, OnlyAdmittedTerms
<1> QED
  BY <1>1, <1>2 DEF Eligible, Narrowed

-----------------------------------------------------------------------------
(* Rounding                                                                *)

LEMMA Units ==
  /\ One \in Nat \ {0} /\ Percent \in Nat /\ One = 100 * Percent
  BY DEF One, Percent

LEMMA Parts == 5000 \in Fraction /\ 6000 \in Fraction /\ 7500 \in Fraction
<1>1. 5000 = 50 * Percent /\ 6000 = 60 * Percent /\ 7500 = 75 * Percent
  BY DEF Percent
<1> QED
  BY <1>1, Units DEF Fraction

LEMMA Division ==
  ASSUME NEW n \in Nat, NEW d \in Nat \ {0}
  PROVE  /\ n \div d \in Nat /\ n % d \in 0..(d - 1)
         /\ n = d * (n \div d) + (n % d)
  OBVIOUS

LEMMA RoundedBound ==
  ASSUME NEW n \in Nat, NEW d \in Nat \ {0}, NEW m \in Nat, n <= m * d
  PROVE  Rounded(n, d) \in 0..m
<1> DEFINE q == n \div d
           r == n % d
<1>1. q \in Nat /\ r \in 0..(d - 1) /\ n = d * q + r
  BY Division
<1>2. q <= m
  <2>1. SUFFICES ASSUME q >= m + 1 PROVE FALSE
    BY <1>1
  <2>2. d * q >= d * (m + 1)
    BY <1>1, <2>1
  <2>3. d * (m + 1) = m * d + d
    OBVIOUS
  <2> QED
    BY <1>1, <2>2, <2>3
<1>3. q = m => r = 0
  <2>1. q = m => d * q = m * d
    OBVIOUS
  <2> QED
    BY <1>1, <2>1
<1>4. CASE q = m
  <2>1. 2 * r < d
    BY <1>3, <1>4
  <2> QED
    BY <1>4, <2>1 DEF Rounded
<1>5. CASE q # m
  <2>1. Rounded(n, d) \in {q, q + 1}
    BY DEF Rounded
  <2> QED
    BY <1>1, <1>2, <1>5, <2>1
<1> QED
  BY <1>4, <1>5

LEMMA RoundedExact ==
  ASSUME NEW m \in Nat, NEW d \in Nat \ {0}
  PROVE  Rounded(m * d, d) = m
<1> DEFINE n == m * d
           q == n \div d
           r == n % d
<1>0. n \in Nat
  OBVIOUS
<1>1. q \in Nat /\ r \in 0..(d - 1) /\ n = d * q + r
  BY <1>0, Division
<1>2. q = m
  <2>1. q >= m
    <3>1. SUFFICES ASSUME q + 1 <= m PROVE FALSE
      BY <1>1
    <3>2. d * (q + 1) <= d * m
      BY <1>1, <3>1
    <3>3. d * (q + 1) = d * q + d /\ d * m = n
      BY <1>1
    <3> QED
      BY <1>0, <1>1, <3>2, <3>3
  <2>2. q <= m
    <3>1. SUFFICES ASSUME q >= m + 1 PROVE FALSE
      BY <1>1
    <3>2. d * q >= d * (m + 1)
      BY <1>1, <3>1
    <3>3. d * (m + 1) = n + d
      OBVIOUS
    <3> QED
      BY <1>0, <1>1, <3>2, <3>3
  <2> QED
    BY <1>1, <2>1, <2>2
<1>3. r = 0
  <2>1. d * q = n
    BY <1>2
  <2> QED
    BY <1>0, <1>1, <2>1
<1> QED
  BY <1>2, <1>3 DEF Rounded

-----------------------------------------------------------------------------
(* The components of an eligible match                                     *)

LEMMA FiniteTerms ==
  ASSUME NEW S \in SUBSET {"language", "geography", "work_mode"}
  PROVE  IsFiniteSet(S) /\ Cardinality(S) \in Nat /\ (S # {} => Cardinality(S) # 0)
<1>1. IsFiniteSet({"language", "geography", "work_mode"})
  <2>1. IsFiniteSet({"language"})
    BY FS_Singleton
  <2>2. IsFiniteSet({"language"} \cup {"geography"})
    BY <2>1, FS_AddElement
  <2>3. IsFiniteSet(({"language"} \cup {"geography"}) \cup {"work_mode"})
    BY <2>2, FS_AddElement
  <2>4. ({"language"} \cup {"geography"}) \cup {"work_mode"} = {"language", "geography", "work_mode"}
    OBVIOUS
  <2> QED
    BY <2>3, <2>4
<1>2. IsFiniteSet(S)
  BY <1>1, FS_Subset
<1> QED
  BY <1>2, FS_CardinalityType, FS_EmptySet

(* A profile that passed the filters has nothing left to lose in three of  *)
(* the six components: its work type and preferences score full or are not *)
(* known, its budget scores full unless the opportunity names none.  Only  *)
(* role, skills and category tell eligible profiles apart by degrees       *)
(* (evaluate_hard_filters, _work_type_component, _preferences_component).  *)
THEOREM FiltersFixComponents ==
  ASSUME NEW o, NEW p, Failures(o, p) = {},
         IsComparable(o, p) => o.budget.amount \in Int /\ p.minimum \in Int
  PROVE  /\ WorkTypeScore(o, p) \in {Unknown, One}
         /\ PreferencesScore(o, p) \in {Unknown, One}
         /\ BudgetScore(o, p) \in {Unknown, 5000, 7500, One}
<1>1. /\ ~Blocks(o["work_type"], p["work_type"]) /\ ~Blocks(o["language"], p["language"])
      /\ ~Blocks(o["geography"], p["geography"]) /\ ~Blocks(o["work_mode"], p["work_mode"])
  BY OnlyAdmittedTerms DEF TermFailures
<1>2. WorkTypeScore(o, p) \in {Unknown, One}
  BY <1>1 DEF WorkTypeScore, Blocks
<1>3. PreferencesScore(o, p) \in {Unknown, One}
  <2> DEFINE asked == {c \in {"language", "geography", "work_mode"} :
                         o[c] # Unknown /\ p[c] # Unknown}
             met == {c \in asked : o[c] \in p[c]}
  <2>1. PreferencesScore(o, p) = IF asked = {} THEN Unknown
                                 ELSE Rounded(Cardinality(met) * One, Cardinality(asked))
    BY DEF PreferencesScore
  <2>2. met = asked
    BY <1>1 DEF Blocks
  <2>3. asked \in SUBSET {"language", "geography", "work_mode"}
    OBVIOUS
  <2> HIDE DEF met, asked
  <2>4. CASE asked # {}
    <3>1. Cardinality(asked) \in Nat \ {0}
      BY <2>3, <2>4, FiniteTerms
    <3>2. Rounded(One * Cardinality(asked), Cardinality(asked)) = One
      BY <3>1, RoundedExact, Units
    <3>3. Cardinality(met) * One = One * Cardinality(asked)
      BY <2>2, <3>1, Units
    <3> QED
      BY <2>1, <2>4, <3>2, <3>3
  <2> QED
    BY <2>1, <2>4
<1>4. BudgetScore(o, p) \in {Unknown, 5000, 7500, One}
  <2>1. ~(IsComparable(o, p) /\ o.budget.amount < p.minimum)
    BY OnlyAdmittedTerms DEF BudgetFailures
  <2>2. IsComparable(o, p) => o.budget.known
    BY DEF IsComparable
  <2>3. CASE ~o.budget.known /\ p.minimum # Unknown
    BY <2>2, <2>3 DEF BudgetScore
  <2>4. CASE IsComparable(o, p)
    <3>1. BudgetScore(o, p) = IF o.budget.amount >= p.minimum THEN One ELSE 0
      BY <2>2, <2>4 DEF BudgetScore
    <3> QED
      BY <2>1, <2>4, <3>1
  <2>5. CASE ~IsComparable(o, p) /\ ~(~o.budget.known /\ p.minimum # Unknown)
    BY <2>5 DEF BudgetScore
  <2> QED
    BY <2>3, <2>4, <2>5
<1> QED
  BY <1>2, <1>3, <1>4

-----------------------------------------------------------------------------
(* Scores                                                                  *)

LEMMA ContributionBound ==
  ASSUME NEW s \in Known(Fraction), NEW w \in Nat
  PROVE  Contribution(s, w) \in 0..(Percent * w)
<1>1. CASE s = Unknown
  <2>1. Percent * w \in Nat
    BY Units
  <2> QED
    BY <1>1, <2>1 DEF Contribution
<1>2. CASE s # Unknown
  <2>1. s \in 0..One
    BY <1>2 DEF Known, Fraction
  <2>2. s * w \in Nat /\ s * w <= (Percent * w) * 100
    <3>1. s * w <= One * w
      BY <2>1, Units
    <3>2. One * w = (Percent * w) * 100
      BY Units
    <3> QED
      BY <2>1, <3>1, <3>2, Units
  <2>3. Rounded(s * w, 100) \in 0..(Percent * w)
    <3>1. Percent * w \in Nat
      BY Units
    <3> QED
      BY <2>2, <3>1, RoundedBound, Units
  <2> QED
    BY <1>2, <2>3 DEF Contribution
<1> QED
  BY <1>1, <1>2

LEMMA ComponentsAreScores ==
  ASSUME NEW o, NEW p
  PROVE  /\ WorkTypeScore(o, p) \in Known(Fraction)
         /\ BudgetScore(o, p) \in Known(Fraction)
         /\ PreferencesScore(o, p) \in Known(Fraction)
<1>1. WorkTypeScore(o, p) \in Known(Fraction)
  BY Units DEF WorkTypeScore, Known, Fraction
<1>2. BudgetScore(o, p) \in Known(Fraction)
  BY Parts, Units DEF BudgetScore, Known, Fraction
<1>3. PreferencesScore(o, p) \in Known(Fraction)
  <2> DEFINE asked == {c \in {"language", "geography", "work_mode"} :
                         o[c] # Unknown /\ p[c] # Unknown}
             met == {c \in asked : o[c] \in p[c]}
  <2>1. PreferencesScore(o, p) = IF asked = {} THEN Unknown
                                 ELSE Rounded(Cardinality(met) * One, Cardinality(asked))
    BY DEF PreferencesScore
  <2>2. asked \in SUBSET {"language", "geography", "work_mode"} /\ met \subseteq asked
    OBVIOUS
  <2> HIDE DEF met, asked
  <2>3. /\ IsFiniteSet(asked) /\ Cardinality(asked) \in Nat
        /\ asked # {} => Cardinality(asked) # 0
    BY <2>2, FiniteTerms
  <2>4. Cardinality(met) \in Nat /\ Cardinality(met) <= Cardinality(asked)
    BY <2>2, <2>3, FS_Subset, FS_CardinalityType
  <2>5. CASE asked # {}
    <3> DEFINE m == Cardinality(met)
               n == Cardinality(asked)
    <3>1. m \in Nat /\ n \in Nat \ {0} /\ m <= n
      BY <2>3, <2>4, <2>5
    <3> HIDE DEF m, n
    <3>2. m * One \in Nat /\ m * One <= One * n
      BY <3>1, Units
    <3>3. Rounded(m * One, n) \in 0..One
      BY <3>1, <3>2, RoundedBound, Units
    <3> QED
      BY <2>1, <2>5, <3>3 DEF m, n, Known, Fraction
  <2> QED
    BY <2>1, <2>5 DEF Known
<1> QED
  BY <1>1, <1>2, <1>3

LEMMA LabelsAreScores ==
  ASSUME NEW sim \in Similarities
  PROVE  RoleScore(sim) \in Known(Fraction) /\ SkillsScore(sim) \in Known(Fraction)
<1>1. sim.role \in Known(Fraction) /\ sim.skills \in Known(Fraction)
  BY DEF Similarities
<1> QED
  BY <1>1, Parts DEF RoleScore, SkillsScore, Known

(* No label of the opportunity can be compared with one of the profile.    *)
NoLabels(sim) == sim.role = Unknown /\ sim.skills = Unknown /\ sim.category = Unknown

(* The three components that need no shared label are worth a fifth.       *)
LEMMA RelevanceBound ==
  ASSUME NEW o, NEW p, NEW sim \in Similarities
  PROVE  /\ Relevance(o, p, sim) \in Fraction
         /\ NoLabels(sim)
              => Relevance(o, p, sim) <= 20 * Percent
<1>1. /\ Weight.role = 30 /\ Weight.skills = 35 /\ Weight.category = 15
      /\ Weight.work_type = 8 /\ Weight.budget = 7 /\ Weight.preferences = 5
  BY DEF Weight
<1>2. /\ RoleScore(sim) \in Known(Fraction) /\ SkillsScore(sim) \in Known(Fraction)
      /\ sim.category \in Known(Fraction)
  BY LabelsAreScores DEF Similarities
<1>3. /\ Contribution(RoleScore(sim), 30) \in 0..(Percent * 30)
      /\ Contribution(SkillsScore(sim), 35) \in 0..(Percent * 35)
      /\ Contribution(sim.category, 15) \in 0..(Percent * 15)
  <2>1. Contribution(RoleScore(sim), 30) \in 0..(Percent * 30)
    BY <1>2, ContributionBound
  <2>2. Contribution(SkillsScore(sim), 35) \in 0..(Percent * 35)
    BY <1>2, ContributionBound
  <2>3. Contribution(sim.category, 15) \in 0..(Percent * 15)
    BY <1>2, ContributionBound
  <2> QED
    BY <2>1, <2>2, <2>3
<1>4. /\ Contribution(WorkTypeScore(o, p), 8) \in 0..(Percent * 8)
      /\ Contribution(BudgetScore(o, p), 7) \in 0..(Percent * 7)
      /\ Contribution(PreferencesScore(o, p), 5) \in 0..(Percent * 5)
  <2>1. Contribution(WorkTypeScore(o, p), 8) \in 0..(Percent * 8)
    BY ComponentsAreScores, ContributionBound
  <2>2. Contribution(BudgetScore(o, p), 7) \in 0..(Percent * 7)
    BY ComponentsAreScores, ContributionBound
  <2>3. Contribution(PreferencesScore(o, p), 5) \in 0..(Percent * 5)
    BY ComponentsAreScores, ContributionBound
  <2> QED
    BY <2>1, <2>2, <2>3
<1>5. Relevance(o, p, sim) = Contribution(RoleScore(sim), 30) + Contribution(SkillsScore(sim), 35)
        + Contribution(sim.category, 15) + Contribution(WorkTypeScore(o, p), 8)
        + Contribution(BudgetScore(o, p), 7) + Contribution(PreferencesScore(o, p), 5)
  BY <1>1 DEF Relevance
<1>6. ASSUME NoLabels(sim)
      PROVE  /\ Contribution(RoleScore(sim), 30) = 0 /\ Contribution(SkillsScore(sim), 35) = 0
             /\ Contribution(sim.category, 15) = 0
  BY <1>6 DEF Contribution, NoLabels, RoleScore, SkillsScore
<1> DEFINE a == Contribution(RoleScore(sim), 30)
           b == Contribution(SkillsScore(sim), 35)
           c == Contribution(sim.category, 15)
           d == Contribution(WorkTypeScore(o, p), 8)
           e == Contribution(BudgetScore(o, p), 7)
           f == Contribution(PreferencesScore(o, p), 5)
<1>7. /\ a \in 0..(Percent * 30) /\ b \in 0..(Percent * 35) /\ c \in 0..(Percent * 15)
      /\ d \in 0..(Percent * 8) /\ e \in 0..(Percent * 7) /\ f \in 0..(Percent * 5)
  BY <1>3, <1>4
<1>8. Relevance(o, p, sim) = a + b + c + d + e + f
  BY <1>5
<1>9. NoLabels(sim)
        => a = 0 /\ b = 0 /\ c = 0
  BY <1>6
<1> HIDE DEF a, b, c, d, e, f
<1>10. a + b + c + d + e + f \in 0..One
  BY <1>7, Units
<1>11. a = 0 /\ b = 0 /\ c = 0 => a + b + c + d + e + f <= 20 * Percent
  BY <1>7, Units
<1> QED
  BY <1>8, <1>9, <1>10, <1>11 DEF Fraction

LEMMA CombinedBound ==
  ASSUME NEW relevance \in Fraction, NEW similarity \in Known(Fraction)
  PROVE  CombinedRelevance(relevance, similarity) \in Fraction
<1>1. CASE similarity = Unknown
  BY <1>1 DEF CombinedRelevance
<1>2. CASE similarity # Unknown
  <2>1. relevance \in 0..One /\ similarity \in 0..One
    BY <1>2 DEF Known, Fraction
  <2>2. Rounded(relevance * 70 + similarity * 30, 100) \in 0..One
    BY <2>1, RoundedBound, Units
  <2> QED
    BY <1>2, <2>2 DEF CombinedRelevance, Fraction
<1> QED
  BY <1>1, <1>2

LEMMA AggregateBound ==
  ASSUME NEW o, IsScored(o), NEW relevance \in Fraction
  PROVE  Aggregate(o, relevance) \in Int /\ Aggregate(o, relevance) <= One * 100
<1>1. relevance \in 0..One /\ o.quality \in 0..One /\ o.flags \in Nat
  BY DEF IsScored, Fraction
<1>2. Penalty(o) \in 0..(32 * Percent)
  BY <1>1 DEF Penalty, Lesser, Percent
<1>3. (IF o.source_quality = Unknown THEN 0 ELSE o.source_quality * 10) \in 0..(One * 10)
  <2>1. o.source_quality # Unknown => o.source_quality \in 0..One
    BY DEF IsScored, Known, Fraction
  <2> QED
    BY <2>1, Units
<1> DEFINE q == IF o.source_quality = Unknown THEN 0 ELSE o.source_quality * 10
           r == Penalty(o)
<1>4. Aggregate(o, relevance) = relevance * 75 + o.quality * 15 + q - r * 100
  BY DEF Aggregate
<1>5. q \in 0..(One * 10) /\ r \in Nat
  BY <1>2, <1>3, Units
<1> HIDE DEF q, r
<1> QED
  BY <1>1, <1>4, <1>5, Units

(* Every score that is stored or compared with a threshold is a fraction   *)
(* of one: the sum of the components stays within it although each is      *)
(* rounded by itself, the penalty takes nothing below zero, and the clamp  *)
(* that _combine_score has and score_candidate_structured has not makes no *)
(* difference (StructuredScoringPolicy, _combine_score, _profile_trace).   *)
THEOREM ScoresAreFractions ==
  ASSUME NEW o, IsScored(o), NEW p, NEW sim \in Similarities,
         NEW similarity \in Known(Fraction), NEW policy \in Policy, NEW at \in Int
  PROVE  LET relevance == Relevance(o, p, sim)
             combined == CombinedScore(o, relevance, similarity)
             fresh == Freshness(o, at, policy)
         IN  /\ relevance \in Fraction /\ CombinedRelevance(relevance, similarity) \in Fraction
             /\ StructuredScore(o, relevance) \in Fraction /\ combined \in Fraction
             /\ fresh \in Fraction /\ RankScore(combined, fresh, policy) \in Fraction
<1> DEFINE relevance == Relevance(o, p, sim)
           joint == CombinedRelevance(relevance, similarity)
           combined == CombinedScore(o, relevance, similarity)
           fresh == Freshness(o, at, policy)
<1>1. relevance \in Fraction
  BY RelevanceBound
<1>2. joint \in Fraction
  BY <1>1, CombinedBound
<1>3. StructuredScore(o, relevance) \in Fraction
  <2> DEFINE sum == Aggregate(o, relevance)
             kept == IF sum < 0 THEN 0 ELSE sum
  <2>1. sum \in Int /\ sum <= One * 100
    BY <1>1, AggregateBound
  <2>2. Rounded(kept, 100) \in 0..One
    BY <2>1, RoundedBound, Units
  <2>3. StructuredScore(o, relevance) = Rounded(kept, 100)
    BY DEF StructuredScore
  <2> QED
    BY <2>2, <2>3 DEF Fraction
<1>4. combined \in Fraction
  <2>1. CASE similarity = Unknown
    BY <1>3, <2>1 DEF CombinedScore
  <2>2. CASE similarity # Unknown
    <3> DEFINE sum == Aggregate(o, joint)
               kept == IF sum < 0 THEN 0 ELSE Lesser(sum, 100 * One)
    <3>1. sum \in Int /\ sum <= One * 100
      BY <1>2, AggregateBound
    <3>2. kept \in 0..(One * 100)
      BY <3>1, Units DEF Lesser
    <3> HIDE DEF sum
    <3>3. Rounded(kept, 100) \in 0..One
      <4> HIDE DEF kept
      <4> QED
        BY <3>2, RoundedBound, Units
    <3>4. combined = Rounded(kept, 100)
      BY <2>2 DEF CombinedScore, sum
    <3> QED
      BY <3>3, <3>4 DEF Fraction
  <2> QED
    BY <2>1, <2>2
<1>5. fresh \in Fraction
  <2> DEFINE d == policy.maximum_age
             age == Age(o, at, policy)
             left == d - Lesser(age, d)
  <2>1. d \in Nat \ {0} /\ policy.bucket \in Nat \ {0} /\ o.last_seen \in Int
    BY DEF Policy, IsScored
  <2>2. Bucketed(at, policy) \in Int
    BY <2>1 DEF Bucketed
  <2>3. age \in Nat
    BY <2>1, <2>2 DEF Age
  <2> HIDE DEF d, age
  <2>4. left \in 0..d
    BY <2>1, <2>3 DEF Lesser
  <2> HIDE DEF left
  <2>5. One * left \in Nat /\ One * left <= One * d
    BY <2>1, <2>4, Units
  <2>6. Rounded(One * left, d) \in 0..One
    BY <2>1, <2>5, RoundedBound, Units
  <2>7. fresh = Rounded(One * left, d)
    BY DEF Freshness, left, d, age
  <2> QED
    BY <2>6, <2>7 DEF Fraction
<1> HIDE DEF relevance, joint, combined, fresh
<1>6. RankScore(combined, fresh, policy) \in Fraction
  <2> DEFINE w == policy.freshness_weight
             n == combined * (One - w) + fresh * w
  <2>1. w \in 0..One /\ combined \in 0..One /\ fresh \in 0..One
    BY <1>4, <1>5 DEF Policy, Fraction
  <2> HIDE DEF w
  <2>2. /\ combined * (One - w) \in Nat /\ fresh * w \in Nat
        /\ combined * (One - w) <= One * (One - w) /\ fresh * w <= One * w
    BY <2>1, Units
  <2>3. One * (One - w) + One * w = One * One
    BY <2>1, Units
  <2>4. n \in Nat /\ n <= One * One
    BY <2>1, <2>2, <2>3, Units
  <2> HIDE DEF n
  <2>5. Rounded(n, One) \in 0..One
    BY <2>4, RoundedBound, Units
  <2>6. RankScore(combined, fresh, policy) = Rounded(n, One)
    BY DEF RankScore, n, w
  <2> QED
    BY <2>5, <2>6 DEF Fraction
<1> QED
  BY <1>1, <1>2, <1>3, <1>4, <1>5, <1>6 DEF relevance, joint, combined, fresh

-----------------------------------------------------------------------------
(* The decision                                                            *)

(* What keeps a profile that agrees only in type, budget and place from    *)
(* being told of everything: with no label in common that can be compared, *)
(* and no similarity of the texts, a match stays below any threshold over  *)
(* a fifth, the one of MatchDecisionPolicy (0.3) included                  *)
(* (score_candidate_structured, _profile_trace).                           *)
THEOREM MatchNeedsALabelOrText ==
  ASSUME NEW o, NEW p, NEW profiles, NEW policy \in Policy, NEW at,
         NEW sim \in Similarities, NoLabels(sim),
         policy.minimum_relevance > 20 * Percent
  PROVE  Decision(o, p, profiles, sim, Unknown, at, policy) # "eligible"
<1> DEFINE relevance == Relevance(o, p, sim)
<1>2. relevance \in Fraction /\ relevance <= 20 * Percent
  BY RelevanceBound
<1>3. CombinedRelevance(relevance, Unknown) = relevance
  BY DEF CombinedRelevance
<1>4. relevance < policy.minimum_relevance
  BY <1>2, Units DEF Policy, Fraction
<1> QED
  BY <1>3, <1>4 DEF Decision

(* The instant of a decision is taken from the start of its hour, so that  *)
(* a match can be told of after its time; never by as much as the bucket   *)
(* of the policy (_bucketed_time, _freshness, _profile_trace).             *)
THEOREM ExpiryIsLateByLessThanABucket ==
  ASSUME NEW o, IsScored(o), NEW p, NEW profiles, NEW sim, NEW similarity,
         NEW policy \in Policy, NEW at \in Int, policy.suppress_expired,
         Decision(o, p, profiles, sim, similarity, at, policy) = "eligible"
  PROVE  at - o.last_seen < policy.maximum_age + policy.bucket
<1> DEFINE b == policy.bucket
           m == policy.maximum_age
<1>1. b \in Nat \ {0} /\ m \in Nat \ {0} /\ o.last_seen \in Int
  BY DEF Policy, IsScored
<1>2. at % b \in 0..(b - 1)
  BY <1>1
<1>3. ~Expired(o, at, policy)
  BY DEF Decision
<1>4. ~(Age(o, at, policy) >= m)
  BY <1>3 DEF Expired
<1>5. Age(o, at, policy) = IF (at - (at % b)) - o.last_seen < 0 THEN 0
                           ELSE (at - (at % b)) - o.last_seen
  BY DEF Age, Bucketed
<1> DEFINE rest == at % b
<1>6. rest \in 0..(b - 1)
  BY <1>2
<1>7. ~((IF (at - rest) - o.last_seen < 0 THEN 0 ELSE (at - rest) - o.last_seen) >= m)
  BY <1>4, <1>5
<1> HIDE DEF rest, b, m
<1>8. at - o.last_seen < m + b
  BY <1>1, <1>6, <1>7
<1> QED
  BY <1>8 DEF b, m

-----------------------------------------------------------------------------
(* Ranks                                                                   *)

LEMMA BeforeIsAnOrder ==
  /\ \A t \in Trace : ~Before(t, t)
  /\ \A s, t, u \in Trace : Before(s, t) /\ Before(t, u) => Before(s, u)
  /\ \A s, t \in Trace : s.id # t.id => Before(s, t) \/ Before(t, s)
<1>1. \A t \in Trace : /\ t.rank \in Int /\ t.relevance \in Int /\ t.fresh \in Int
                       /\ t.last_seen \in Int /\ t.id \in Int
  BY Units DEF Trace, Fraction
<1>2. \A t \in Trace : ~Before(t, t)
  BY <1>1 DEF Before
<1>3. ASSUME NEW s \in Trace, NEW t \in Trace, NEW u \in Trace,
             Before(s, t), Before(t, u)
      PROVE  Before(s, u)
  BY <1>1, <1>3 DEF Before
<1>4. ASSUME NEW s \in Trace, NEW t \in Trace, s.id # t.id
      PROVE  Before(s, t) \/ Before(t, s)
  BY <1>1, <1>4 DEF Before
<1> QED
  BY <1>2, <1>3, <1>4

(* The ranks of a profile's eligible matches are distinct and follow the   *)
(* sort key whatever ties there are in score, relevance, freshness and     *)
(* date: two runs over one set of matches rank it alike (_rank_eligible).  *)
THEOREM RanksFollowTheKey ==
  ASSUME NEW traces \in SUBSET Trace, IsFiniteSet(traces),
         \A s \in traces : \A t \in traces : s # t => s.id # t.id,
         NEW s \in traces, NEW t \in traces, s # t
  PROVE  /\ Before(s, t) <=> Rank(s, traces) < Rank(t, traces)
         /\ Rank(s, traces) # Rank(t, traces)
<1>1. ASSUME NEW x \in traces, NEW y \in traces, Before(x, y)
      PROVE  Rank(x, traces) < Rank(y, traces)
  <2> DEFINE ahead == {z \in traces : Before(z, x)}
             behind == {z \in traces : Before(z, y)}
  <2>1. IsFiniteSet(behind) /\ IsFiniteSet(ahead)
    <3>1. ahead \subseteq traces /\ behind \subseteq traces
      OBVIOUS
    <3> QED
      BY <3>1, FS_Subset
  <2>2. ahead \subseteq behind
    BY <1>1, BeforeIsAnOrder
  <2>3. x \in behind /\ x \notin ahead
    BY <1>1, BeforeIsAnOrder
  <2> HIDE DEF ahead, behind
  <2>4. Cardinality(ahead) < Cardinality(behind)
    BY <2>1, <2>2, <2>3, FS_Subset, FS_CardinalityType
  <2>5. Cardinality(ahead) \in Nat /\ Cardinality(behind) \in Nat
    BY <2>1, FS_CardinalityType
  <2> QED
    BY <2>4, <2>5 DEF Rank, ahead, behind
<1>2. Rank(s, traces) \in Nat /\ Rank(t, traces) \in Nat
  <2>1. {z \in traces : Before(z, s)} \subseteq traces /\ {z \in traces : Before(z, t)} \subseteq traces
    OBVIOUS
  <2> QED
    BY <2>1, FS_Subset, FS_CardinalityType DEF Rank
<1>3. Before(s, t) \/ Before(t, s)
  BY BeforeIsAnOrder
<1> QED
  BY <1>1, <1>2, <1>3

-----------------------------------------------------------------------------
(* The pipeline.                                                           *)

(* The columns of the tables and the fields of the handlers.               *)
Statuses == {"absent", "open", "done", "given up"}
HandlerStates ==
  [job : Jobs \cup {None}, try : Nat, began : Time, miss : BOOLEAN,
   parent : Messages \cup {None}, answer : Answers \cup {None}, messages : SUBSET Messages,
   step : {"idle", "started", "routing", "asking", "persisting", "linking", "returned"}]

Columns ==
  /\ now \in Time
  /\ raw \in [Messages -> Time \cup {None}]
  /\ result \in [Messages -> {None, Rejected}
                     \cup [parent : Messages \cup {None}, canonical : Messages, at : Time]]
  /\ cache \in [Keys -> Answers \cup {None}]
  /\ link \in [Keys -> Keys \cup {None}]
  /\ opp \in [Keys -> {None} \cup Opportunity]
  /\ source \in [Messages -> Keys \cup {None}]
  /\ matching \subseteq Keys
  /\ job \in [Jobs -> [status : Statuses, tries : Nat]]
  /\ handler \in [Handlers -> HandlerStates]
  /\ overtaken \subseteq Keys /\ late \subseteq Messages

(* What passed the prefilter was routed to a canonical message of its text *)
(* and parent, and the canonical messages are those with an analysis job.  *)
RoutedRows ==
  /\ \A m \in Messages : Passed(m) =>
       /\ Content[m] # None /\ result[m].parent \in {None, ReplyTo[m]}
       /\ Canonical(result[m].canonical)
       /\ KeyOfResult(result[m].canonical) = KeyOfResult(m)
       /\ result[m].parent # None => raw[result[m].parent] # None
  /\ \A m \in Messages :
       /\ job[<<"analysis", m>>].status # "absent" <=> Canonical(m)
       /\ job[<<"raw", m>>].status # "absent" <=> raw[m] # None
       /\ result[m] # None => raw[m] # None

(* A handler is in a step of the kind of its job, which was enqueued.      *)
HandlersInStep ==
  \A h \in Handlers :
    /\ handler[h].step = "idle" => handler[h] = Idle
    /\ handler[h].step # "idle" =>
         /\ handler[h].job \in Jobs /\ job[handler[h].job].status # "absent"
         /\ handler[h].try \in 1..MaxTries[handler[h].job]
         /\ handler[h].job[1] = "raw" => handler[h].step \in {"started", "routing", "returned"}
         /\ handler[h].job[1] = "analysis" => handler[h].step # "routing"
    /\ Runs(h, "raw", "routing") =>
         /\ Content[MessageOf(h)] # None
         /\ handler[h].parent \in {None, ReplyTo[MessageOf(h)]}
         /\ handler[h].parent # None => raw[handler[h].parent] # None
    /\ Runs(h, "analysis", "persisting") => handler[h].answer \in Answers
    /\ Runs(h, "analysis", "linking") =>
         /\ handler[h].answer \in Answers \ {NoDemand}
         /\ MessageOf(h) \in handler[h].messages
         /\ \A m \in handler[h].messages : Passed(m) /\ result[m].canonical = MessageOf(h)

(* An entry that is inserted and not committed is the only one of its key. *)
Inserts(h, k) == Runs(h, "analysis", "linking") /\ handler[h].miss /\ KeyOfJob(h) = k
EntriesAreInserted ==
  \A h \in Handlers, k \in Keys : Inserts(h, k) =>
    cache[k] = None /\ \A g \in Handlers : Inserts(g, k) => g = h

WindowsAreApart ==
  \A m, c \in Messages : Passed(m) /\ Canonical(c) /\ KeyOfResult(m) = KeyOfResult(c) =>
    /\ m # c /\ Canonical(m) =>
         result[m].at - result[c].at > DedupWindow \/ result[c].at - result[m].at > DedupWindow
    /\ result[m].canonical = c => result[m].at - result[c].at <= DedupWindow

(* An opportunity is that of the entry it was created for, and each entry  *)
(* with a demand is linked to one of them.                                 *)
LinkedRows ==
  /\ \A k \in Keys : link[k] # None => /\ cache[k] # None /\ opp[link[k]] # None
                                       /\ link[link[k]] = link[k]
  /\ \A k \in Keys : opp[k] # None => link[k] = k /\ opp[k].first <= opp[k].last
  /\ matching = {k \in Keys : opp[k] # None}
  /\ \A m \in Messages : source[m] # None => Passed(m) /\ source[m] = link[KeyOfResult(m)]

(* Two handlers of one text know of each other (history).                  *)
OvertakersAreNoted ==
  \A g, h \in Handlers, k \in Keys : g # h /\ Analyses(g, k) /\ Analyses(h, k) => k \in overtaken

(* What a handler is about to persist is what the cache holds or will hold,*)
(* unless it was overtaken.                                                *)
AnswersAreKnown ==
  \A h \in Handlers :
    /\ Runs(h, "analysis", "asking") /\ cache[KeyOfJob(h)] # None => KeyOfJob(h) \in overtaken
    /\ Runs(h, "analysis", "persisting") /\ ~handler[h].miss =>
         /\ cache[KeyOfJob(h)] # None
         /\ cache[KeyOfJob(h)] = handler[h].answer \/ KeyOfJob(h) \in overtaken
    /\ Runs(h, "analysis", "linking") /\ ~handler[h].miss =>
         /\ cache[KeyOfJob(h)] # None
         /\ cache[KeyOfJob(h)] = handler[h].answer \/ KeyOfJob(h) \in overtaken

(* What an analysis that waits for its rows has not listed is late.        *)
OthersAreLate ==
  \A h \in Handlers : Runs(h, "analysis", "linking") =>
    \A m \in Messages \ handler[h].messages :
      Passed(m) /\ result[m].canonical = MessageOf(h) => m \in late

(* The analysis of a canonical message is over: all that was routed to it  *)
(* until then is linked, if the answer was a demand.                       *)
Answered(c) ==
  /\ cache[KeyOfResult(c)] # None
  /\ \A m \in RoutedTo(c) :
       /\ KeyOfResult(c) \notin overtaken /\ cache[KeyOfResult(c)] # NoDemand
       /\ source[m] = None
       => m \in late

Over(j) == \/ job[j].status = "done"
           \/ \E h \in Handlers : handler[h].step = "returned" /\ handler[h].job = j

JobsDoTheirWork ==
  \A m \in Messages : /\ Over(<<"raw", m>>) => result[m] # None
                      /\ Over(<<"analysis", m>>) => Answered(m)

-----------------------------------------------------------------------------
LEMMA NoneIsNothing ==
  /\ None \notin Messages /\ None \notin Answers /\ None \notin Keys /\ None \notin Jobs
  /\ None \notin Time /\ None \notin PrefilterResult /\ None \notin Opportunity
BY PipelineAssumption

LEMMA Times == MaxTime \in Nat /\ Time \subseteq Nat /\ 0 \in Time
BY PipelineAssumption DEF Time

LEMMA JobsArePairs ==
  /\ \A j \in Jobs : j[1] \in {"raw", "analysis"} /\ j[2] \in Messages /\ j = <<j[1], j[2]>>
  /\ \A m \in Messages : <<"raw", m>> \in Jobs /\ <<"analysis", m>> \in Jobs
BY DEF Jobs

LEMMA KeysAreTyped ==
  /\ \A m \in Messages : Content[m] # None => KeyOf(m, None) \in Keys /\ KeyOf(m, ReplyTo[m]) \in Keys
  /\ \A m \in Messages : ReplyTo[m] # m /\ ReplyTo[m] \in Messages \cup {None}
<1>1. ASSUME NEW m \in Messages, Content[m] # None
      PROVE  KeyOf(m, None) \in Keys /\ KeyOf(m, ReplyTo[m]) \in Keys
  BY <1>1 DEF Keys
<1> QED
  BY <1>1, PipelineAssumption

(* The rows of a message.                                                  *)
LEMMA PassedRow ==
  ASSUME Columns, RoutedRows, NEW m \in Messages, Passed(m)
  PROVE  /\ result[m] \in [parent : Messages \cup {None}, canonical : Messages, at : Time]
         /\ KeyOfResult(m) \in Keys
         /\ result[m].canonical \in Messages
         /\ Canonical(result[m].canonical)
         /\ KeyOfResult(result[m].canonical) = KeyOfResult(m)
<1>1. result[m] \in [parent : Messages \cup {None}, canonical : Messages, at : Time]
  BY DEF Columns, Passed, Rejected
<1>2. KeyOfResult(m) \in Keys
  BY KeysAreTyped DEF RoutedRows, KeyOfResult
<1> QED
  BY <1>1, <1>2 DEF RoutedRows

LEMMA ResultRow ==
  ASSUME Columns, NEW m \in Messages
  PROVE  /\ result[m] = None \/ result[m] = Rejected \/ Passed(m)
         /\ Rejected.canonical = None /\ Rejected # None
         /\ Canonical(m) => Passed(m)
<1>1. Rejected \in PrefilterResult
  <2>1. 0 \in Time
    BY PipelineAssumption DEF Time
  <2> QED
    BY <2>1 DEF Rejected, PrefilterResult
<1>2. Rejected.canonical = None /\ Rejected # None
  BY <1>1, NoneIsNothing DEF Rejected
<1>3. result[m] \in [parent : Messages \cup {None}, canonical : Messages, at : Time] => Passed(m)
  <2> SUFFICES ASSUME result[m] \in [parent : Messages \cup {None}, canonical : Messages, at : Time]
               PROVE  Passed(m)
    OBVIOUS
  <2>1. result[m] \in PrefilterResult /\ result[m].canonical \in Messages
    BY DEF PrefilterResult
  <2> QED
    BY <2>1, NoneIsNothing DEF Passed
<1> QED
  BY <1>2, <1>3 DEF Columns, Canonical

(* The message and the key of a handler.                                   *)
LEMMA HandlerRow ==
  ASSUME Columns, HandlersInStep, NEW h \in Handlers, handler[h].step # "idle"
  PROVE  /\ handler[h] \in HandlerStates /\ handler[h].job # None
         /\ MessageOf(h) \in Messages /\ handler[h].job = <<handler[h].job[1], MessageOf(h)>>
         /\ handler[h].job \in Jobs /\ handler[h].job[1] \in {"raw", "analysis"}
         /\ job[handler[h].job].status # "absent"
<1>1. handler[h] \in HandlerStates /\ handler[h].job \in Jobs
  BY DEF Columns, HandlersInStep
<1> QED
  BY <1>1, JobsArePairs, NoneIsNothing DEF MessageOf, HandlersInStep

LEMMA AnalysisRow ==
  ASSUME Columns, RoutedRows, HandlersInStep, NEW h \in Handlers,
         handler[h].step # "idle", handler[h].job[1] = "analysis"
  PROVE  /\ Canonical(MessageOf(h)) /\ Passed(MessageOf(h)) /\ KeyOfJob(h) \in Keys
         /\ handler[h].job = <<"analysis", MessageOf(h)>>
         /\ RoutedTo(MessageOf(h)) \subseteq Messages
         /\ MessageOf(h) \in RoutedTo(MessageOf(h))
         /\ \A m \in RoutedTo(MessageOf(h)) : Passed(m) /\ KeyOfResult(m) = KeyOfJob(h)
<1>1. /\ MessageOf(h) \in Messages /\ handler[h].job = <<"analysis", MessageOf(h)>>
      /\ job[handler[h].job].status # "absent"
  BY HandlerRow
<1>2. Canonical(MessageOf(h)) /\ Passed(MessageOf(h))
  BY <1>1, ResultRow DEF RoutedRows
<1> QED
  BY <1>1, <1>2, PassedRow DEF KeyOfJob, RoutedTo, Canonical

-----------------------------------------------------------------------------
LEMMA LeastNumber ==
  ASSUME NEW S, S \subseteq Nat, S # {}
  PROVE  \E t \in S : \A u \in S : t <= u
<1>1. PICK t \in S : \A u \in S : ~(<<u, t>> \in OpToRel(<, Nat))
  BY WFMin, NatLessThanWellFounded
<1>2. \A u \in S : ~(u < t)
  BY <1>1 DEF OpToRel
<1> QED
  BY <1>2

(* A set of times has a first and a last one.                              *)
LEMMA TimesHaveEnds ==
  ASSUME NEW S, S \subseteq Time, S # {}
  PROVE  /\ \E t \in S : \A u \in S : t <= u
         /\ \E t \in S : \A u \in S : t >= u
<1>1. MaxTime \in Nat /\ S \subseteq Nat
  BY PipelineAssumption DEF Time
<1>2. \E t \in S : \A u \in S : t <= u
  BY <1>1, LeastNumber
<1> DEFINE R == {MaxTime - t : t \in S}
<1>3. R \subseteq Nat /\ R # {}
  <2>1. \A t \in S : MaxTime - t \in Nat
    BY <1>1 DEF Time
  <2> QED
    BY <2>1
<1>4. PICK r \in R : \A q \in R : r <= q
  BY <1>3, LeastNumber
<1>5. PICK t \in S : r = MaxTime - t
  BY <1>4
<1>6. \A u \in S : t >= u
  <2>1. \A u \in S : r <= MaxTime - u
    BY <1>4
  <2>2. \A u \in S : MaxTime - t <= MaxTime - u
    BY <1>5, <2>1
  <2> QED
    BY <1>1, <2>2
<1> QED
  BY <1>2, <1>6

LEMMA SeenTimes ==
  ASSUME raw \in [Messages -> Time \cup {None}], NEW S, S \subseteq Messages, S # {},
         \A m \in S : raw[m] # None
  PROVE  FirstSeen(S) \in Time /\ LastSeen(S) \in Time /\ FirstSeen(S) <= LastSeen(S)
<1> DEFINE T == {raw[m] : m \in S}
<1>1. T \subseteq Time /\ T # {}
  OBVIOUS
<1>2. PICK t \in T : \A u \in T : t <= u
  BY <1>1, TimesHaveEnds
<1>3. PICK l \in T : \A u \in T : l >= u
  BY <1>1, TimesHaveEnds
<1>4. FirstSeen(S) \in T /\ \A m \in S : FirstSeen(S) <= raw[m]
  <2>1. \A m \in S : t <= raw[m]
    BY <1>2
  <2> QED
    BY <1>2, <2>1 DEF FirstSeen
<1>5. LastSeen(S) \in T /\ \A m \in S : LastSeen(S) >= raw[m]
  <2>1. \A m \in S : l >= raw[m]
    BY <1>3
  <2> QED
    BY <1>3, <2>1 DEF LastSeen
<1>6. PICK m \in S : LastSeen(S) = raw[m]
  BY <1>5
<1> QED
  BY <1>1, <1>4, <1>5, <1>6

LEMMA LatestIsOne ==
  ASSUME NEW S, S # {}, S \subseteq Messages, \A m \in S : result[m].at \in Time
  PROVE  Latest(S) \in S
<1> DEFINE T == {result[m].at : m \in S}
<1>1. T \subseteq Time /\ T # {}
  OBVIOUS
<1>2. PICK t \in T : \A u \in T : t >= u
  BY <1>1, TimesHaveEnds
<1>3. PICK c \in S : t = result[c].at
  BY <1>2
<1>4. \A d \in S : result[c].at >= result[d].at
  BY <1>2, <1>3
<1> QED
  BY <1>3, <1>4 DEF Latest

(* The opportunity of an entry: the one it is linked to, one of its own or *)
(* one another entry is linked to.                                         *)
LEMMA HomeOfEntry ==
  ASSUME Columns, LinkedRows, NEW k \in Keys, NEW S, NEW answer, NEW o \in Homes(k, S, answer)
  PROVE  /\ o \in Keys
         /\ link[k] # None => o = link[k]
         /\ o # k => opp[o] # None /\ link[o] = o
<1> DEFINE linked == Linked(k, S)
<1>1. Duplicates(k, S, answer) \subseteq {link[l] : l \in linked}
  BY DEF Duplicates
<1>2. \A l \in linked : l \in Keys /\ link[l] # None
  BY DEF Linked
<1>3. \/ o = link[k] /\ link[k] # None
      \/ o = k /\ link[k] = None
      \/ link[k] = None /\ \E l \in linked : o = link[l]
  BY <1>1 DEF Homes
<1>4. \A l \in Keys : link[l] # None => link[l] \in Keys
  BY DEF Columns
<1> QED
  BY <1>2, <1>3, <1>4 DEF LinkedRows

(* A demand is persisted: its entry is linked, and all that was listed.    *)
LEMMA DemandIsPersisted ==
  ASSUME Columns, RoutedRows, HandlersInStep, LinkedRows, EntriesAreInserted,
         NEW h \in Handlers, PersistsDemand(h), ~Raises(h)
  PROVE  /\ Runs(h, "analysis", "linking") /\ ~StoreConflicts(h)
         /\ handler[h].answer \in Answers \ {NoDemand}
         /\ cache' = Stored(h) /\ Returns(h) /\ UNCHANGED <<now, raw, result, job, history>>
         /\ \E o \in Keys :
              /\ link[KeyOfJob(h)] # None => o = link[KeyOfJob(h)]
              /\ o # KeyOfJob(h) => opp[o] # None /\ link[o] = o
              /\ link' = [link EXCEPT ![KeyOfJob(h)] = o]
              /\ \E row \in Opportunity : /\ opp' = [opp EXCEPT ![o] = row]
                                          /\ row.first <= row.last
              /\ \A m \in handler[h].messages : source[m] \in {None, o}
              /\ source' = [m \in Messages |->
                              IF m \in handler[h].messages THEN o ELSE source[m]]
              /\ matching' = matching \cup {o}
<1> DEFINE k == KeyOfJob(h)
           S == handler[h].messages
           U == {m \in S : source[m] = None}
           answer == handler[h].answer
<1>0. /\ Runs(h, "analysis", "linking")
      /\ handler[h].step # "idle" /\ handler[h].job[1] = "analysis"
  BY DEF PersistsDemand, Runs
<1>1. Runs(h, "analysis", "linking") /\ ~StoreConflicts(h) /\ answer # NoDemand
  <2>1. k \in Keys
    BY <1>0, AnalysisRow
  <2>2. handler[h].miss => cache[k] = None
    BY <1>0, <2>1 DEF EntriesAreInserted, Inserts
  <2> QED
    BY <1>0, <2>2 DEF StoreConflicts, HandlersInStep
<1>2. answer \in Answers
  BY <1>1 DEF HandlersInStep
<1>3. /\ k \in Keys /\ S \subseteq Messages /\ S # {} /\ \A m \in S : raw[m] # None
      /\ \A m \in S : Passed(m)
  <2>1. /\ k \in Keys /\ S \subseteq Messages /\ MessageOf(h) \in S
        /\ \A m \in S : Passed(m)
    BY <1>0, AnalysisRow, HandlerRow DEF HandlersInStep, HandlerStates
  <2>2. \A m \in S : result[m] # None
    BY <2>1 DEF Passed
  <2> QED
    BY <2>1, <2>2 DEF RoutedRows
<1>4. PICK o \in Homes(k, S, answer) :
        /\ \A m \in S : source[m] \in {None, o}
        /\ cache' = Stored(h)
        /\ link' = [link EXCEPT ![k] = o]
        /\ opp' = [opp EXCEPT ![o] = IF @ = None THEN Created(S, answer)
                                     ELSE IF U # {} THEN Observed(o, S) ELSE @]
        /\ source' = [m \in Messages |-> IF m \in S THEN o ELSE source[m]]
        /\ matching' = matching \cup {o}
        /\ Returns(h)
        /\ UNCHANGED <<now, raw, result, job, history>>
  BY DEF PersistsDemand, Enqueued
<1>5. o \in Keys /\ (link[k] # None => o = link[k]) /\ (o # k => opp[o] # None /\ link[o] = o)
  BY <1>3, HomeOfEntry
<1>6. FirstSeen(S) \in Time /\ LastSeen(S) \in Time /\ FirstSeen(S) <= LastSeen(S)
  BY <1>3, SeenTimes DEF Columns
<1> HIDE DEF k, S, U, answer
<1>7. Created(S, answer) \in Opportunity /\ Created(S, answer).first <= Created(S, answer).last
  BY <1>1, <1>2, <1>6 DEF Created, Opportunity
<1>8. opp[o] # None => /\ opp[o] \in Opportunity /\ opp[o].first <= opp[o].last
                       /\ opp[o].first \in Time /\ opp[o].last \in Time
  BY <1>5 DEF Columns, LinkedRows, Opportunity
<1>9. opp[o] # None => /\ Observed(o, S) \in Opportunity
                       /\ Observed(o, S).first <= Observed(o, S).last
  <2> DEFINE f == IF opp[o].first < FirstSeen(S) THEN opp[o].first ELSE FirstSeen(S)
             l == IF opp[o].last > LastSeen(S) THEN opp[o].last ELSE LastSeen(S)
  <2>1. opp[o] # None => f \in Time /\ l \in Time /\ f <= l
    <3>1. FirstSeen(S) \in Nat /\ LastSeen(S) \in Nat
      BY <1>6, Times
    <3>2. opp[o] # None => opp[o].first \in Nat /\ opp[o].last \in Nat
      BY <1>8, Times
    <3>3. opp[o] # None => f \in Time /\ l \in Time
      BY <1>6, <1>8
    <3> QED
      BY <1>6, <1>8, <3>1, <3>2, <3>3
  <2>2. Observed(o, S) = [opp[o] EXCEPT !.first = f, !.last = l]
    BY DEF Observed
  <2> HIDE DEF f, l
  <2> QED
    BY <1>8, <2>1, <2>2 DEF Opportunity
<1>10. \E row \in Opportunity : opp' = [opp EXCEPT ![o] = row] /\ row.first <= row.last
  <2>1. CASE opp[o] = None
    <3>1. opp' = [opp EXCEPT ![o] = Created(S, answer)]
      BY <1>4, <2>1
    <3> QED
      BY <1>7, <3>1
  <2>2. CASE opp[o] # None /\ U # {}
    <3>1. opp' = [opp EXCEPT ![o] = Observed(o, S)]
      BY <1>4, <2>2
    <3> QED
      BY <1>9, <2>2, <3>1
  <2>3. CASE opp[o] # None /\ U = {}
    <3>1. opp' = [opp EXCEPT ![o] = opp[o]]
      BY <1>4, <2>3
    <3> QED
      BY <1>8, <2>3, <3>1
  <2> QED
    BY <2>1, <2>2, <2>3
<1> QED
  BY <1>1, <1>2, <1>4, <1>5, <1>10 DEF k, S, answer

-----------------------------------------------------------------------------
(* Every step leaves the columns typed.                                    *)
Rows == Columns /\ RoutedRows /\ HandlersInStep /\ LinkedRows /\ EntriesAreInserted

LEMMA IdleState == Idle \in HandlerStates /\ Idle.job = None /\ Idle.step = "idle"
BY Times DEF Idle, HandlerStates

LEMMA Returned ==
  ASSUME Columns, HandlersInStep, NEW h \in Handlers, handler[h].step # "idle", Returns(h)
  PROVE  /\ handler' \in [Handlers -> HandlerStates]
         /\ handler'[h].step = "returned" /\ handler'[h].job = handler[h].job
         /\ handler'[h].try = handler[h].try
         /\ \A g \in Handlers \ {h} : handler'[g] = handler[g]
<1>1. handler[h] \in HandlerStates /\ handler \in [Handlers -> HandlerStates]
  BY DEF Columns
<1> QED
  BY <1>1, IdleState DEF Returns, HandlerStates, Idle

LEMMA Raised ==
  ASSUME Columns, NEW h \in Handlers, Raises(h)
  PROVE  /\ handler' \in [Handlers -> HandlerStates] /\ handler'[h] = Idle
         /\ \A g \in Handlers \ {h} : handler'[g] = handler[g]
         /\ UNCHANGED <<now, stored, job, history>>
BY IdleState DEF Raises, Columns

(* A handler that goes on: a prefilter looks for the parent, an analysis   *)
(* into the cache, and then takes its entry or an answer.                  *)
RoutingState(h) ==
  [handler[h] EXCEPT !.step = "routing", !.began = now, !.parent = Parent(MessageOf(h))]

LEMMA PrefilterBegins ==
  ASSUME Columns, NEW h \in Handlers,
         handler' = [handler EXCEPT ![h].step = "routing", ![h].began = now,
                                    ![h].parent = Parent(MessageOf(h))]
  PROVE  handler' = [handler EXCEPT ![h] = RoutingState(h)]
<1>1. handler[h] \in HandlerStates /\ handler \in [Handlers -> HandlerStates]
  BY DEF Columns
<1> QED
  BY <1>1 DEF RoutingState, HandlerStates

LEMMA AnalysisMoves ==
  ASSUME Columns, NEW h \in Handlers, cache[KeyOfJob(h)] \in Answers \cup {None},
         Loads(h) \/ GetsAnswer(h)
  PROVE  /\ handler' \in [Handlers -> HandlerStates]
         /\ \A g \in Handlers \ {h} : handler'[g] = handler[g]
         /\ handler'[h].job = handler[h].job /\ handler'[h].try = handler[h].try
         /\ \/ handler'[h].step = "asking" /\ cache[KeyOfJob(h)] = None /\ Loads(h)
            \/ /\ handler'[h].step = "persisting" /\ Loads(h)
               /\ handler'[h].answer = cache[KeyOfJob(h)] /\ cache[KeyOfJob(h)] # None
            \/ /\ handler'[h].step = "persisting" /\ GetsAnswer(h)
               /\ handler'[h].answer \in Answers
               /\ handler'[h].miss <=> cache[KeyOfJob(h)] = None
<1>1. handler[h] \in HandlerStates /\ handler \in [Handlers -> HandlerStates]
  BY DEF Columns
<1>2. CASE Loads(h) /\ cache[KeyOfJob(h)] # None
  <2> DEFINE state == [handler[h] EXCEPT !.step = "persisting", !.answer = cache[KeyOfJob(h)]]
  <2>1. handler' = [handler EXCEPT ![h] = state]
    BY <1>1, <1>2 DEF Loads, HandlerStates
  <2>2. /\ state \in HandlerStates /\ state.job = handler[h].job /\ state.try = handler[h].try
        /\ state.step = "persisting" /\ state.answer = cache[KeyOfJob(h)]
    BY <1>1 DEF HandlerStates
  <2> QED
    BY <1>1, <1>2, <2>1, <2>2
<1>3. CASE Loads(h) /\ cache[KeyOfJob(h)] = None
  BY <1>1, <1>3 DEF Loads, HandlerStates
<1>4. CASE GetsAnswer(h)
  <2> DEFINE missing == cache[KeyOfJob(h)] = None
  <2>1. PICK answer \in Answers :
          handler' = [handler EXCEPT ![h].step = "persisting", ![h].answer = answer,
                                     ![h].miss = missing]
    BY <1>4 DEF GetsAnswer
  <2>2. missing \in BOOLEAN
    OBVIOUS
  <2>3. missing <=> cache[KeyOfJob(h)] = None
    OBVIOUS
  <2> HIDE DEF missing
  <2> DEFINE state == [handler[h] EXCEPT !.step = "persisting", !.answer = answer, !.miss = missing]
  <2>4. handler' = [handler EXCEPT ![h] = state]
    BY <1>1, <2>1 DEF HandlerStates
  <2>5. /\ state \in HandlerStates /\ state.job = handler[h].job /\ state.try = handler[h].try
        /\ state.step = "persisting" /\ state.answer = answer /\ state.miss = missing
    BY <1>1, <2>2 DEF HandlerStates
  <2>6. handler'[h] = state
    BY <1>1, <2>4
  <2>7. /\ handler' \in [Handlers -> HandlerStates]
        /\ \A g \in Handlers \ {h} : handler'[g] = handler[g]
    BY <1>1, <2>4, <2>5
  <2> QED
    BY <1>4, <2>3, <2>5, <2>6, <2>7
<1> QED
  BY <1>2, <1>3, <1>4

(* A demand that lists the messages it will link.                          *)
LEMMA ListingMoves ==
  ASSUME Columns, RoutedRows, HandlersInStep, NEW h \in Handlers, ListsMessages(h)
  PROVE  /\ handler' \in [Handlers -> HandlerStates]
         /\ \A g \in Handlers \ {h} : handler'[g] = handler[g]
         /\ handler'[h].job = handler[h].job /\ handler'[h].try = handler[h].try
         /\ handler'[h].step = "linking" /\ handler'[h].messages = RoutedTo(MessageOf(h))
         /\ handler'[h].miss <=> handler[h].miss /\ cache[KeyOfJob(h)] = None
         /\ handler'[h].answer = handler[h].answer /\ handler[h].answer \in Answers \ {NoDemand}
         /\ handler[h].step = "persisting" /\ handler[h].job[1] = "analysis"
         /\ Runs(h, "analysis", "persisting") /\ MayStore(h) /\ ~StoreConflicts(h)
         /\ UNCHANGED <<now, stored, job, history>>
<1> DEFINE missing == handler[h].miss /\ cache[KeyOfJob(h)] = None
           listed == RoutedTo(MessageOf(h))
           state == [handler[h] EXCEPT !.step = "linking", !.messages = listed, !.miss = missing]
<1>1. /\ Runs(h, "analysis", "persisting") /\ MayStore(h) /\ ~StoreConflicts(h)
      /\ handler[h].step = "persisting" /\ handler[h].job[1] = "analysis"
      /\ handler[h].answer \in Answers \ {NoDemand}
      /\ UNCHANGED <<now, stored, job, history>>
  BY DEF ListsMessages, Settles, Runs, HandlersInStep
<1>2. handler[h] \in HandlerStates /\ handler \in [Handlers -> HandlerStates]
  BY DEF Columns
<1>3. listed \subseteq Messages
  BY DEF RoutedTo
<1>4. missing \in BOOLEAN
  OBVIOUS
<1>5. handler' = [handler EXCEPT ![h].step = "linking", ![h].messages = listed,
                                 ![h].miss = missing]
  BY <1>2 DEF ListsMessages, HandlerStates
<1>6. missing <=> handler[h].miss /\ cache[KeyOfJob(h)] = None
  OBVIOUS
<1> HIDE DEF missing, listed
<1>7. handler' = [handler EXCEPT ![h] = state]
  BY <1>2, <1>5 DEF HandlerStates
<1>8. /\ state \in HandlerStates /\ state.job = handler[h].job /\ state.try = handler[h].try
      /\ state.step = "linking" /\ state.messages = listed /\ state.miss = missing
      /\ state.answer = handler[h].answer
  BY <1>2, <1>3, <1>4 DEF HandlerStates
<1> HIDE DEF state
<1>9. /\ handler' \in [Handlers -> HandlerStates] /\ handler'[h] = state
      /\ \A g \in Handlers \ {h} : handler'[g] = handler[g]
  BY <1>2, <1>7, <1>8
<1>10. listed = RoutedTo(MessageOf(h))
  BY DEF listed
<1> QED
  BY <1>1, <1>6, <1>8, <1>9, <1>10

(* The kinds of steps.                                                     *)
LEMMA StepKinds ==
  ASSUME [Next]_vars
  PROVE  \/ UNCHANGED <<stored, job, handler, history>> /\ (now' = now \/ Tick)
         \/ \E m \in Messages : Ingests(m)
         \/ \E j \in Jobs : GivesUp(j) \/ \E h \in Handlers : Starts(h, j)
         \/ \E h \in Handlers : \/ Raises(h) \/ Completes(h) \/ Prefilters(h) \/ Routes(h)
                                \/ (FindsResult(h) /\ ~Raises(h))
                                \/ Loads(h) \/ GetsAnswer(h) \/ PersistsNoDemand(h)
                                \/ ListsMessages(h) \/ (PersistsDemand(h) /\ ~Raises(h))
<1>1. CASE UNCHANGED vars
  BY <1>1 DEF vars, stored, history
<1>2. CASE Tick
  BY <1>2 DEF Tick
<1>3. CASE \E h \in Handlers : HandlerStep(h)
  BY <1>3 DEF HandlerStep, Fails, FindsConflict
<1> QED
  BY <1>1, <1>2, <1>3 DEF Next

LEMMA ColumnsNext == Rows /\ [Next]_vars => Columns'
<1> SUFFICES ASSUME Rows, [Next]_vars PROVE Columns'
  OBVIOUS
<1> USE DEF Rows, stored, history
<1>1. CASE UNCHANGED <<stored, job, handler, history>> /\ (now' = now \/ Tick)
  <2>1. now' \in Time
    BY <1>1, Times DEF Columns, Tick, Time
  <2> QED
    BY <1>1, <2>1 DEF Columns
<1>2. ASSUME NEW m \in Messages, Ingests(m) PROVE Columns'
  <2>1. job' \in [Jobs -> [status : Statuses, tries : Nat]]
    BY <1>2 DEF Ingests, Submitted, Columns, Statuses
  <2> QED
    BY <1>2, <2>1 DEF Ingests, Columns
<1>3. ASSUME NEW j \in Jobs, GivesUp(j) PROVE Columns'
  BY <1>3 DEF GivesUp, Columns, Statuses
<1>4. ASSUME NEW j \in Jobs, NEW h \in Handlers, Starts(h, j) PROVE Columns'
  <2>1. job' \in [Jobs -> [status : Statuses, tries : Nat]]
    BY <1>4 DEF Starts, Columns
  <2>2. handler' \in [Handlers -> HandlerStates]
    <3>1. job[j].tries + 1 \in Nat
      BY DEF Columns
    <3> DEFINE tried == job[j].tries + 1
    <3>2. handler' = [handler EXCEPT ![h] = [Idle EXCEPT !.job = j, !.step = "started", !.try = tried]]
      BY <1>4 DEF Starts
    <3> HIDE DEF tried
    <3>3. tried \in Nat
      BY <3>1 DEF tried
    <3>4. [Idle EXCEPT !.job = j, !.step = "started", !.try = tried] \in HandlerStates
      BY <3>3, IdleState DEF HandlerStates
    <3> QED
      BY <3>2, <3>4 DEF Columns
  <2>3. overtaken' \subseteq Keys
    <3>1. CASE j[1] = "analysis" /\ \E g \in Handlers : Analyses(g, KeyOfResult(j[2]))
      <4>1. job[<<"analysis", j[2]>>].status # "absent" /\ j[2] \in Messages
        BY <1>4, <3>1, JobsArePairs DEF Starts
      <4>2. KeyOfResult(j[2]) \in Keys
        BY <4>1, ResultRow, PassedRow DEF RoutedRows
      <4> QED
        BY <1>4, <3>1, <4>2 DEF Starts, Columns
    <3> QED
      BY <1>4, <3>1 DEF Starts, Columns
  <2> QED
    BY <1>4, <2>1, <2>2, <2>3 DEF Starts, Columns
<1>5. ASSUME NEW h \in Handlers, Raises(h) PROVE Columns'
  BY <1>5, Raised DEF Columns
<1>6. ASSUME NEW h \in Handlers, Completes(h) PROVE Columns'
  <2>1. job' \in [Jobs -> [status : Statuses, tries : Nat]]
    BY <1>6 DEF Completes, Columns, Statuses
  <2> QED
    BY <1>6, <2>1, IdleState DEF Completes, Columns
<1>7. ASSUME NEW h \in Handlers, Prefilters(h) PROVE Columns'
  <2>1. handler[h].step # "idle" /\ MessageOf(h) \in Messages
    BY <1>7, HandlerRow DEF Prefilters, Runs
  <2>2. CASE Returns(h)
    BY <1>7, <2>1, <2>2, Returned DEF Prefilters, Columns
  <2>3. CASE /\ handler' = [handler EXCEPT ![h].step = "routing", ![h].began = now,
                                           ![h].parent = Parent(MessageOf(h))]
             /\ UNCHANGED result
    <3>1. Parent(MessageOf(h)) \in Messages \cup {None}
      BY <2>1, KeysAreTyped DEF Parent
    <3>2. handler' = [handler EXCEPT ![h] = RoutingState(h)]
      BY <1>7, <2>1, <2>3, PrefilterBegins
    <3>3. RoutingState(h) \in HandlerStates
      <4>1. handler[h] \in HandlerStates /\ now \in Time
        BY <2>1, HandlerRow DEF Columns
      <4> QED
        BY <3>1, <4>1 DEF RoutingState, HandlerStates
    <3>4. handler' \in [Handlers -> HandlerStates]
      BY <3>2, <3>3 DEF Columns
    <3> QED
      BY <1>7, <2>3, <3>4 DEF Prefilters, Columns
  <2> QED
    BY <1>7, <2>2, <2>3 DEF Prefilters
<1>8. ASSUME NEW h \in Handlers, Routes(h) PROVE Columns'
  <2>1. handler[h].step # "idle" /\ MessageOf(h) \in Messages /\ handler[h] \in HandlerStates
    BY <1>8, HandlerRow DEF Routes, Runs
  <2> DEFINE m == MessageOf(h)
             S == Recent(KeyOf(m, handler[h].parent), handler[h].began)
             canonical == IF S = {} THEN m ELSE Latest(S)
  <2>2. S \subseteq Messages /\ \A c \in S : result[c].at \in Time
    BY ResultRow, PassedRow DEF Recent
  <2>3. canonical \in Messages
    BY <2>1, <2>2, LatestIsOne
  <2>4. job' \in [Jobs -> [status : Statuses, tries : Nat]]
    BY <1>8 DEF Routes, Submitted, Columns, Statuses
  <2>5. /\ result' = [result EXCEPT ![m] = [parent |-> handler[h].parent, canonical |-> canonical,
                                            at |-> handler[h].began]]
        /\ late' \subseteq late \cup {m} /\ Returns(h)
        /\ UNCHANGED <<now, raw, cache, link, opp, source, matching, overtaken>>
    BY <1>8 DEF Routes
  <2> HIDE DEF canonical, S, m
  <2>6. result' \in [Messages -> {None, Rejected}
                         \cup [parent : Messages \cup {None}, canonical : Messages, at : Time]]
    BY <2>1, <2>3, <2>5 DEF Columns, HandlerStates
  <2>7. late' \subseteq Messages
    BY <2>1, <2>5 DEF Columns, m
  <2> QED
    BY <2>1, <2>4, <2>5, <2>6, <2>7, Returned DEF Columns
<1>9. ASSUME NEW h \in Handlers, FindsResult(h), ~Raises(h) PROVE Columns'
  BY <1>9, Returned DEF FindsResult, Runs, Columns
<1>10. ASSUME NEW h \in Handlers, Loads(h) \/ GetsAnswer(h) PROVE Columns'
  <2>1. handler[h].step # "idle" /\ handler[h].job[1] = "analysis"
    BY <1>10 DEF Loads, GetsAnswer, Runs
  <2>2. cache[KeyOfJob(h)] \in Answers \cup {None}
    BY <2>1, AnalysisRow DEF Columns
  <2>3. handler' \in [Handlers -> HandlerStates]
    BY <1>10, <2>1, <2>2, AnalysisMoves
  <2> QED
    BY <1>10, <2>3 DEF Loads, GetsAnswer, Columns
<1>11. ASSUME NEW h \in Handlers, PersistsNoDemand(h) PROVE Columns'
  <2>1. Runs(h, "analysis", "persisting") /\ handler[h].step # "idle"
    BY <1>11 DEF PersistsNoDemand, Settles, Runs
  <2>2. cache' \in [Keys -> Answers \cup {None}]
    BY <1>11, <2>1 DEF PersistsNoDemand, Stored, Columns, HandlersInStep
  <2> QED
    BY <1>11, <2>1, <2>2, Returned DEF PersistsNoDemand, Columns
<1>12. ASSUME NEW h \in Handlers, PersistsDemand(h), ~Raises(h) PROVE Columns'
  <2>1. /\ Runs(h, "analysis", "linking") /\ handler[h].step # "idle"
        /\ handler[h].answer \in Answers
        /\ cache' = Stored(h) /\ Returns(h) /\ UNCHANGED <<now, raw, result, job, history>>
    BY <1>12, DemandIsPersisted DEF Runs
  <2>2. PICK o \in Keys :
          /\ link' = [link EXCEPT ![KeyOfJob(h)] = o]
          /\ \E row \in Opportunity : opp' = [opp EXCEPT ![o] = row]
          /\ source' = [m \in Messages |-> IF m \in handler[h].messages THEN o ELSE source[m]]
          /\ matching' = matching \cup {o}
    BY <1>12, DemandIsPersisted
  <2>3. cache' \in [Keys -> Answers \cup {None}]
    BY <2>1 DEF Stored, Columns
  <2>4. /\ link' \in [Keys -> Keys \cup {None}] /\ opp' \in [Keys -> {None} \cup Opportunity]
        /\ source' \in [Messages -> Keys \cup {None}] /\ matching' \subseteq Keys
    BY <2>2 DEF Columns
  <2> QED
    BY <2>1, <2>3, <2>4, Returned DEF Columns
<1>13. ASSUME NEW h \in Handlers, ListsMessages(h) PROVE Columns'
  BY <1>13, ListingMoves DEF Columns
<1> QED
  BY <1>1, <1>2, <1>3, <1>4, <1>5, <1>6, <1>7, <1>8, <1>9, <1>10, <1>11, <1>12, <1>13, StepKinds

-----------------------------------------------------------------------------
(* No step takes back what is stored: rows, cache entries and links stay   *)
(* as they are.                                                            *)
RowsStay ==
  /\ \A m \in Messages : /\ raw[m] # None => raw'[m] = raw[m]
                         /\ result[m] # None => result'[m] = result[m]
                         /\ source[m] # None => source'[m] = source[m]
  /\ \A k \in Keys : /\ cache[k] # None => cache'[k] = cache[k]
                     /\ link[k] # None => link'[k] = link[k]
                     /\ opp[k] # None => opp'[k] # None
  /\ \A j \in Jobs : job[j].status # "absent" => job'[j].status # "absent"
  /\ overtaken \subseteq overtaken' /\ late \subseteq late'

LEMMA NothingIsTakenBack == Rows /\ [Next]_vars => RowsStay
<1> SUFFICES ASSUME Rows, [Next]_vars PROVE RowsStay
  OBVIOUS
<1> USE DEF Rows, RowsStay, stored, history
<1>1. CASE UNCHANGED <<stored, job, handler, history>> /\ (now' = now \/ Tick)
  BY <1>1
<1>2. ASSUME NEW m \in Messages, Ingests(m) PROVE RowsStay
  BY <1>2 DEF Ingests, Submitted, Columns
<1>3. ASSUME NEW j \in Jobs, GivesUp(j) PROVE RowsStay
  BY <1>3 DEF GivesUp, Columns
<1>4. ASSUME NEW j \in Jobs, NEW h \in Handlers, Starts(h, j) PROVE RowsStay
  BY <1>4 DEF Starts, Columns
<1>5. ASSUME NEW h \in Handlers, Raises(h) PROVE RowsStay
  BY <1>5 DEF Raises
<1>6. ASSUME NEW h \in Handlers, Completes(h) PROVE RowsStay
  BY <1>6 DEF Completes, Columns
<1>7. ASSUME NEW h \in Handlers, Prefilters(h) PROVE RowsStay
  BY <1>7 DEF Prefilters, Columns
<1>8. ASSUME NEW h \in Handlers, Routes(h) PROVE RowsStay
  <2>1. /\ \A m \in Messages : result[m] # None => result'[m] = result[m]
        /\ late \subseteq late'
    BY <1>8 DEF Routes, Unrouted, Columns
  <2>2. \A j \in Jobs : job[j].status # "absent" => job'[j].status # "absent"
    BY <1>8 DEF Routes, Submitted, Columns
  <2> QED
    BY <1>8, <2>1, <2>2 DEF Routes
<1>9. ASSUME NEW h \in Handlers, FindsResult(h), ~Raises(h) PROVE RowsStay
  BY <1>9 DEF FindsResult
<1>10. ASSUME NEW h \in Handlers, Loads(h) \/ GetsAnswer(h) PROVE RowsStay
  BY <1>10 DEF Loads, GetsAnswer
<1>11. ASSUME NEW h \in Handlers, PersistsNoDemand(h) PROVE RowsStay
  <2>1. \A k \in Keys : cache[k] # None => cache'[k] = cache[k]
    BY <1>11 DEF PersistsNoDemand, StoreConflicts, Stored, Columns
  <2> QED
    BY <1>11, <2>1 DEF PersistsNoDemand
<1>12. ASSUME NEW h \in Handlers, PersistsDemand(h), ~Raises(h) PROVE RowsStay
  <2>1. /\ ~StoreConflicts(h) /\ cache' = Stored(h) /\ UNCHANGED <<now, raw, result, job, history>>
    BY <1>12, DemandIsPersisted
  <2>2. PICK o \in Keys :
          /\ link[KeyOfJob(h)] # None => o = link[KeyOfJob(h)]
          /\ link' = [link EXCEPT ![KeyOfJob(h)] = o]
          /\ \E row \in Opportunity : opp' = [opp EXCEPT ![o] = row]
          /\ \A m \in handler[h].messages : source[m] \in {None, o}
          /\ source' = [m \in Messages |-> IF m \in handler[h].messages THEN o ELSE source[m]]
    BY <1>12, DemandIsPersisted
  <2>3. \A k \in Keys : cache[k] # None => cache'[k] = cache[k]
    BY <2>1 DEF StoreConflicts, Stored, Columns
  <2>4. \A k \in Keys : /\ link[k] # None => link'[k] = link[k]
                        /\ opp[k] # None => opp'[k] # None
    BY <2>2, NoneIsNothing DEF Columns
  <2>5. \A m \in Messages : source[m] # None => source'[m] = source[m]
    BY <2>2
  <2> QED
    BY <2>1, <2>3, <2>4, <2>5
<1>13. ASSUME NEW h \in Handlers, ListsMessages(h) PROVE RowsStay
  BY <1>13 DEF ListsMessages
<1> QED
  BY <1>1, <1>2, <1>3, <1>4, <1>5, <1>6, <1>7, <1>8, <1>9, <1>10, <1>11, <1>12, <1>13, StepKinds

(* So what a message was routed by stays, too.                             *)
LEMMA RoutesStay ==
  ASSUME RowsStay, NEW m \in Messages, result[m] # None
  PROVE  /\ Passed(m)' <=> Passed(m)
         /\ Canonical(m)' <=> Canonical(m)
         /\ KeyOfResult(m)' = KeyOfResult(m)
         /\ result'[m] = result[m]
BY DEF RowsStay, Passed, Canonical, KeyOfResult

(* A handler keeps its job until it ends, unless it starts a new one.      *)
LEMMA HandlersStay ==
  ASSUME Rows, [Next]_vars, NEW h \in Handlers, handler'[h].step # "idle"
  PROVE  \/ \E j \in Jobs : Starts(h, j)
         \/ /\ handler[h].step # "idle"
            /\ handler'[h].job = handler[h].job /\ handler'[h].try = handler[h].try
            /\ \/ handler'[h] = handler[h]
               \/ Prefilters(h) \/ Routes(h) \/ (FindsResult(h) /\ Returns(h))
               \/ Loads(h) \/ GetsAnswer(h) \/ PersistsNoDemand(h)
               \/ ListsMessages(h) \/ (PersistsDemand(h) /\ ~Raises(h))
<1> DEFINE Kept ==
      /\ handler[h].step # "idle"
      /\ handler'[h].job = handler[h].job /\ handler'[h].try = handler[h].try
      /\ \/ handler'[h] = handler[h]
         \/ Prefilters(h) \/ Routes(h) \/ (FindsResult(h) /\ Returns(h))
         \/ Loads(h) \/ GetsAnswer(h) \/ PersistsNoDemand(h)
         \/ ListsMessages(h) \/ (PersistsDemand(h) /\ ~Raises(h))
<1> USE DEF Rows, stored, history
<1>1. CASE UNCHANGED handler
  BY <1>1
<1>2. ASSUME NEW m \in Messages, Ingests(m) PROVE Kept
  BY <1>2 DEF Ingests
<1>3. ASSUME NEW j \in Jobs, GivesUp(j) PROVE Kept
  BY <1>3 DEF GivesUp
<1>4. ASSUME NEW j \in Jobs, NEW g \in Handlers, Starts(g, j), g # h PROVE Kept
  BY <1>4 DEF Starts, Columns
<1>5. ASSUME NEW g \in Handlers, Raises(g) \/ Completes(g) PROVE Kept
  <2>1. handler' = [handler EXCEPT ![g] = Idle]
    BY <1>5 DEF Raises, Completes
  <2>2. g # h /\ handler'[h] = handler[h]
    BY <2>1, IdleState DEF Columns
  <2> QED
    BY <2>2
<1>6. ASSUME NEW g \in Handlers, g # h, handler'[h] = handler[h] PROVE Kept
  BY <1>6
<1>7. ASSUME Prefilters(h) PROVE Kept
  <2>1. handler[h].step # "idle"
    BY <1>7 DEF Prefilters, Runs
  <2>2. \/ Returns(h)
        \/ handler' = [handler EXCEPT ![h] = RoutingState(h)]
    BY <1>7, PrefilterBegins DEF Prefilters
  <2>3. handler'[h].job = handler[h].job /\ handler'[h].try = handler[h].try
    BY <2>1, <2>2, Returned DEF RoutingState, Columns, HandlerStates
  <2> QED
    BY <1>7, <2>1, <2>3
<1>8. ASSUME NEW g \in Handlers, Returns(g), handler[g].step # "idle"
      PROVE  /\ g # h => handler'[h] = handler[h]
             /\ handler'[g].job = handler[g].job /\ handler'[g].try = handler[g].try
  BY <1>8, Returned
<1>9. ASSUME NEW g \in Handlers, Prefilters(g), g # h PROVE handler'[h] = handler[h]
  <2>1. handler[g].step # "idle"
    BY <1>9 DEF Prefilters, Runs
  <2> QED
    BY <1>9, <2>1, <1>8 DEF Prefilters, Columns
<1>10. ASSUME NEW g \in Handlers,
              Routes(g) \/ (FindsResult(g) /\ ~Raises(g)) \/ PersistsNoDemand(g)
                        \/ (PersistsDemand(g) /\ ~Raises(g))
       PROVE  handler[g].step # "idle" /\ Returns(g)
  BY <1>10, DemandIsPersisted DEF Routes, FindsResult, PersistsNoDemand, Settles, Runs
<1>11. ASSUME NEW g \in Handlers, Loads(g) \/ GetsAnswer(g)
       PROVE  /\ handler[g].step # "idle"
              /\ g # h => handler'[h] = handler[h]
              /\ handler'[g].job = handler[g].job /\ handler'[g].try = handler[g].try
  <2>1. handler[g].step # "idle" /\ handler[g].job[1] = "analysis"
    BY <1>11 DEF Loads, GetsAnswer, Runs
  <2>2. cache[KeyOfJob(g)] \in Answers \cup {None}
    BY <2>1, AnalysisRow DEF Columns
  <2> QED
    BY <1>11, <2>1, <2>2, AnalysisMoves
<1>12. ASSUME NEW g \in Handlers,
              \/ Prefilters(g) \/ Routes(g) \/ (FindsResult(g) /\ ~Raises(g))
              \/ Loads(g) \/ GetsAnswer(g) \/ PersistsNoDemand(g)
              \/ ListsMessages(g) \/ (PersistsDemand(g) /\ ~Raises(g))
       PROVE  Kept
  <2>1. ListsMessages(g) => /\ handler[g].step # "idle"
                            /\ g # h => handler'[h] = handler[h]
                            /\ handler'[g].job = handler[g].job /\ handler'[g].try = handler[g].try
    BY ListingMoves
  <2>2. CASE g # h
    BY <1>6, <1>8, <1>9, <1>10, <1>11, <1>12, <2>1, <2>2
  <2>3. CASE g = h
    BY <1>7, <1>8, <1>10, <1>11, <1>12, <2>1, <2>3
  <2> QED
    BY <2>2, <2>3
<1> QED
  BY <1>1, <1>2, <1>3, <1>4, <1>5, <1>12, StepKinds

-----------------------------------------------------------------------------
(* A message is routed: it becomes canonical, or a duplicate of a          *)
(* canonical message that is recent.                                       *)
LEMMA RowIsRouted ==
  ASSUME Rows, NEW h \in Handlers, Routes(h), NEW m, m = MessageOf(h), NEW k,
         k = KeyOf(m, handler[h].parent)
  PROVE  /\ m \in Messages /\ handler[h].job = <<"raw", m>> /\ handler[h].step # "idle"
         /\ raw[m] # None /\ result[m] = None /\ Content[m] # None /\ k \in Keys
         /\ handler[h].parent \in {None, ReplyTo[m]}
         /\ handler[h].parent # None => raw[handler[h].parent] # None
         /\ handler[h].began \in Time
         /\ result'[m] # None /\ result'[m].canonical # None
         /\ KeyOf(m, result'[m].parent) = k /\ result'[m].at = handler[h].began
         /\ result'[m].parent = handler[h].parent
         /\ \A x \in Messages \ {m} : result'[x] = result[x]
         /\ \/ /\ result'[m].canonical = m
               /\ \A d \in Messages : Canonical(d) /\ KeyOfResult(d) = k
                                      => result[d].at < handler[h].began - DedupWindow
               /\ job' = [job EXCEPT ![<<"analysis", m>>].status = "open"]
               /\ late' = late
            \/ /\ result'[m].canonical \in Messages \ {m} /\ Canonical(result'[m].canonical)
               /\ KeyOfResult(result'[m].canonical) = k
               /\ result[result'[m].canonical].at >= handler[h].began - DedupWindow
               /\ job' = job
               /\ late' = IF cache[k] # None \/ Listed(result'[m].canonical)
                          THEN late \cup {m} ELSE late
         /\ Returns(h) /\ UNCHANGED <<now, raw, cache, link, opp, source, matching, overtaken>>
<1> USE DEF Rows
<1> DEFINE p == handler[h].parent
           began == handler[h].began
           S == Recent(k, began)
           canonical == IF S = {} THEN m ELSE Latest(S)
<1>1. Runs(h, "raw", "routing") /\ result[m] = None /\ handler[h].step # "idle"
  BY DEF Routes, Unrouted, Runs
<1>2. m \in Messages /\ handler[h].job = <<"raw", m>> /\ handler[h] \in HandlerStates
  BY <1>1, HandlerRow DEF Runs
<1>3. /\ Content[m] # None /\ p \in {None, ReplyTo[m]}
      /\ p # None => raw[p] # None
      /\ began \in Time /\ p \in Messages \cup {None}
  BY <1>1, <1>2 DEF HandlersInStep, HandlerStates
<1>4. k \in Keys /\ raw[m] # None
  <2>1. KeyOf(m, None) \in Keys /\ KeyOf(m, ReplyTo[m]) \in Keys
    BY <1>2, <1>3, KeysAreTyped
  <2>2. k = KeyOf(m, None) \/ k = KeyOf(m, ReplyTo[m])
    BY <1>3
  <2>3. job[<<"raw", m>>].status # "absent"
    BY <1>1, <1>2, HandlerRow
  <2> QED
    BY <1>2, <2>1, <2>2, <2>3 DEF RoutedRows
<1>5. S \subseteq Messages /\ (\A c \in S : result[c].at \in Time /\ result[c] # None)
  BY ResultRow, PassedRow DEF Recent, Passed
<1>6. S # {} => canonical \in S
  BY <1>5, LatestIsOne
<1>7. canonical \in Messages
  BY <1>2, <1>5, <1>6
<1>8. /\ result' = [result EXCEPT ![m] = [parent |-> p, canonical |-> canonical, at |-> began]]
      /\ job' = IF canonical = m THEN Submitted(<<"analysis", m>>) ELSE job
      /\ late' = IF canonical # m /\ (cache[k] # None \/ Listed(canonical))
                 THEN late \cup {m} ELSE late
      /\ Returns(h) /\ UNCHANGED <<now, raw, cache, link, opp, source, matching, overtaken>>
  BY DEF Routes
<1>9. result'[m] = [parent |-> p, canonical |-> canonical, at |-> began]
  BY <1>2, <1>8 DEF Columns
<1>10. /\ result'[m] # None /\ result'[m].canonical # None
       /\ KeyOf(m, result'[m].parent) = k
  <2>1. result'[m] \in PrefilterResult
    BY <1>3, <1>7, <1>9 DEF PrefilterResult
  <2> QED
    BY <1>7, <1>9, <2>1, NoneIsNothing
<1>11. \A x \in Messages \ {m} : result'[x] = result[x]
  BY <1>2, <1>8 DEF Columns
<1>12. /\ m \in Messages /\ handler[h].job = <<"raw", m>> /\ handler[h].step # "idle"
       /\ raw[m] # None /\ result[m] = None /\ Content[m] # None /\ k \in Keys
       /\ handler[h].parent \in {None, ReplyTo[m]}
       /\ handler[h].parent # None => raw[handler[h].parent] # None
       /\ handler[h].began \in Time
       /\ result'[m] # None /\ result'[m].canonical # None
       /\ KeyOf(m, result'[m].parent) = k /\ result'[m].at = handler[h].began
       /\ result'[m].parent = handler[h].parent
       /\ \A x \in Messages \ {m} : result'[x] = result[x]
       /\ Returns(h) /\ UNCHANGED <<now, raw, cache, link, opp, source, matching, overtaken>>
  BY <1>1, <1>2, <1>3, <1>4, <1>8, <1>9, <1>10, <1>11
<1>13. CASE S = {}
  <2>1. ASSUME NEW d \in Messages, Canonical(d), KeyOfResult(d) = k
        PROVE  result[d].at < began - DedupWindow
    <3>1. ~(result[d].at >= began - DedupWindow)
      BY <1>13, <2>1 DEF Recent
    <3>2. result[d].at \in Nat /\ began \in Nat /\ DedupWindow \in Nat
      BY <1>3, <2>1, ResultRow, PassedRow, Times, PipelineAssumption
    <3> QED
      BY <3>1, <3>2
  <2>2. job' = [job EXCEPT ![<<"analysis", m>>].status = "open"]
    <3>1. ~Canonical(m)
      BY <1>1 DEF Canonical, Passed
    <3>2. job[<<"analysis", m>>].status = "absent"
      BY <1>2, <3>1 DEF RoutedRows
    <3> QED
      BY <1>8, <1>13, <3>2 DEF Submitted
  <2>3. result'[m].canonical = m /\ late' = late
    BY <1>8, <1>9, <1>13
  <2> QED
    BY <1>12, <2>1, <2>2, <2>3
<1>14. CASE S # {}
  <2>1. /\ canonical \in Messages /\ Canonical(canonical) /\ KeyOfResult(canonical) = k
        /\ result[canonical].at >= began - DedupWindow /\ result[canonical] # None
    BY <1>5, <1>6, <1>14 DEF Recent
  <2>2. canonical # m
    BY <1>1, <2>1
  <2>3. /\ result'[m].canonical = canonical /\ job' = job
        /\ late' = IF cache[k] # None \/ Listed(result'[m].canonical)
                   THEN late \cup {m} ELSE late
    BY <1>8, <1>9, <2>2
  <2> HIDE DEF canonical, S
  <2> QED
    BY <1>12, <2>1, <2>2, <2>3
<1> QED
  BY <1>13, <1>14

LEMMA RoutedRowsNext == Rows /\ [Next]_vars => RoutedRows'
<1> SUFFICES ASSUME Rows, [Next]_vars PROVE RoutedRows'
  OBVIOUS
<1> USE DEF Rows, stored
<1>0. RowsStay /\ Columns
  BY NothingIsTakenBack
<1>1. ASSUME UNCHANGED <<raw, result>>,
             \A j \in Jobs : job'[j].status # "absent" <=> job[j].status # "absent"
      PROVE  RoutedRows'
  BY <1>1, JobsArePairs DEF RoutedRows, Passed, Canonical, KeyOfResult
<1>2. ASSUME UNCHANGED <<raw, result, job>> PROVE RoutedRows'
  BY <1>1, <1>2
<1>3. ASSUME NEW m \in Messages, Ingests(m) PROVE RoutedRows'
  <2>1. /\ raw' = [raw EXCEPT ![m] = now] /\ UNCHANGED result
        /\ raw[m] = None /\ now # None
    BY <1>3, NoneIsNothing DEF Ingests, Columns
  <2>2. job[<<"raw", m>>].status = "absent"
    BY <2>1 DEF RoutedRows
  <2>3. job' = [job EXCEPT ![<<"raw", m>>].status = "open"]
    BY <1>3, <2>2 DEF Ingests, Submitted
  <2>4. \A x \in Messages : raw'[x] # None <=> x = m \/ raw[x] # None
    BY <2>1 DEF Columns
  <2>5. \A x \in Messages : /\ job'[<<"analysis", x>>] = job[<<"analysis", x>>]
                            /\ x # m => job'[<<"raw", x>>] = job[<<"raw", x>>]
                            /\ job'[<<"raw", m>>].status # "absent"
    BY <2>3, JobsArePairs DEF Columns
  <2>6. \A x \in Messages : Passed(x) => result[x].parent \in Messages \cup {None}
    BY PassedRow
  <2> QED
    BY <2>1, <2>4, <2>5, <2>6 DEF RoutedRows, Passed, Canonical, KeyOfResult
<1>4. ASSUME NEW j \in Jobs, GivesUp(j) PROVE RoutedRows'
  <2>1. \A i \in Jobs : job'[i].status # "absent" <=> job[i].status # "absent"
    BY <1>4 DEF GivesUp, Columns
  <2> QED
    BY <1>1, <1>4, <2>1 DEF GivesUp
<1>5. ASSUME NEW j \in Jobs, NEW h \in Handlers, Starts(h, j) PROVE RoutedRows'
  <2>1. \A i \in Jobs : job'[i].status # "absent" <=> job[i].status # "absent"
    BY <1>5 DEF Starts, Columns
  <2> QED
    BY <1>1, <1>5, <2>1 DEF Starts
<1>6. ASSUME NEW h \in Handlers, Completes(h) PROVE RoutedRows'
  <2>1. \A i \in Jobs : job'[i].status # "absent" <=> job[i].status # "absent"
    BY <1>6 DEF Completes, Columns
  <2> QED
    BY <1>1, <1>6, <2>1 DEF Completes
<1>7. ASSUME NEW h \in Handlers, Prefilters(h) PROVE RoutedRows'
  <2>1. PICK m \in Messages : m = MessageOf(h)
    BY <1>7, HandlerRow DEF Prefilters, Runs
  <2>2. CASE result[m] = None /\ Content[m] = None
    <3>1. result' = [result EXCEPT ![m] = Rejected] /\ UNCHANGED <<raw, job>>
      BY <1>7, <2>1, <2>2 DEF Prefilters
    <3>2. result'[m] = Rejected /\ \A x \in Messages \ {m} : result'[x] = result[x]
      BY <3>1 DEF Columns
    <3>3. ~Passed(m)' /\ ~Passed(m) /\ ~Canonical(m)' /\ ~Canonical(m)
      BY <2>2, <3>2, ResultRow DEF Passed, Canonical
    <3>4. \A x \in Messages \ {m} : /\ Passed(x)' <=> Passed(x)
                                    /\ Canonical(x)' <=> Canonical(x)
                                    /\ KeyOfResult(x)' = KeyOfResult(x)
      BY <3>2 DEF Passed, Canonical, KeyOfResult
    <3>5. raw[m] # None
      <4>1. handler[h].job = <<"raw", m>> /\ job[<<"raw", m>>].status # "absent"
        BY <1>7, <2>1, HandlerRow DEF Prefilters, Runs
      <4> QED
        BY <4>1 DEF RoutedRows
    <3> QED
      BY <3>1, <3>2, <3>3, <3>4, <3>5, PassedRow DEF RoutedRows
  <2>3. CASE result[m] # None \/ Content[m] # None
    <3>1. UNCHANGED <<raw, result, job>>
      BY <1>7, <2>1, <2>3 DEF Prefilters, Columns
    <3> QED
      BY <1>2, <3>1
  <2> QED
    BY <2>2, <2>3
<1>8. ASSUME NEW h \in Handlers, Routes(h) PROVE RoutedRows'
  <2>1. PICK m \in Messages : m = MessageOf(h)
    BY <1>8, HandlerRow DEF Routes, Runs
  <2>2. PICK k \in Keys : k = KeyOf(m, handler[h].parent)
    BY <1>8, <2>1, RowIsRouted
  <2>3. /\ result[m] = None /\ raw[m] # None /\ raw' = raw /\ Content[m] # None
        /\ result'[m].parent \in {None, ReplyTo[m]}
        /\ result'[m].parent # None => raw[result'[m].parent] # None
        /\ Passed(m)' /\ KeyOfResult(m)' = k
        /\ \A x \in Messages \ {m} : result'[x] = result[x]
    <3>1. /\ result[m] = None /\ raw[m] # None /\ Content[m] # None
          /\ handler[h].parent \in {None, ReplyTo[m]}
          /\ handler[h].parent # None => raw[handler[h].parent] # None
          /\ result'[m].parent = handler[h].parent
      BY <1>8, <2>1, <2>2, RowIsRouted
    <3>2. /\ raw' = raw /\ result'[m] # None /\ result'[m].canonical # None
          /\ KeyOf(m, result'[m].parent) = k
          /\ \A x \in Messages \ {m} : result'[x] = result[x]
      BY <1>8, <2>1, <2>2, RowIsRouted
    <3> QED
      BY <3>1, <3>2 DEF Passed, KeyOfResult
  <2> PICK c \in Messages : c = result'[m].canonical
    BY <1>8, <2>1, <2>2, RowIsRouted
  <2>4. \A x \in Messages \ {m} : /\ Passed(x)' <=> Passed(x)
                                  /\ Canonical(x)' <=> Canonical(x)
                                  /\ KeyOfResult(x)' = KeyOfResult(x)
    BY <2>3 DEF Passed, Canonical, KeyOfResult
  <2>5. \A x \in Messages : Passed(x) => x # m /\ result[x].canonical # m
    BY <2>3, PassedRow DEF Passed, Canonical
  <2>6. ~Canonical(m) /\ job[<<"analysis", m>>].status = "absent"
    BY <2>3 DEF Canonical, Passed, RoutedRows
  <2>7. Canonical(m)' <=> c = m
    BY <2>3 DEF Canonical
  <2>8. CASE c = m /\ job' = [job EXCEPT ![<<"analysis", m>>].status = "open"]
    <3>1. \A x \in Messages : /\ job'[<<"raw", x>>] = job[<<"raw", x>>]
                              /\ x # m => job'[<<"analysis", x>>] = job[<<"analysis", x>>]
                              /\ job'[<<"analysis", m>>].status # "absent"
      BY <2>8, JobsArePairs DEF Columns
    <3>2. Canonical(m)' /\ Passed(m)' /\ KeyOfResult(m)' = k /\ result'[m].canonical = m
      BY <2>3, <2>7, <2>8
    <3>3. ASSUME NEW x \in Messages, x # m, Passed(x)'
          PROVE  /\ Content[x] # None /\ result'[x].parent \in {None, ReplyTo[x]}
                 /\ \E d \in Messages : /\ d = result'[x].canonical
                                        /\ Canonical(d)' /\ KeyOfResult(d)' = KeyOfResult(x)'
                 /\ result'[x].parent # None => raw'[result'[x].parent] # None
      <4>1. Passed(x) /\ result'[x] = result[x] /\ raw' = raw
        BY <2>3, <2>4, <3>3
      <4>2. PICK d \in Messages \ {m} : d = result[x].canonical
        BY <2>5, <4>1, PassedRow
      <4>3. /\ Canonical(d) /\ KeyOfResult(d) = KeyOfResult(x)
            /\ Content[x] # None /\ result[x].parent \in {None, ReplyTo[x]}
            /\ result[x].parent # None => raw[result[x].parent] # None
        BY <4>1, <4>2 DEF RoutedRows
      <4> QED
        BY <2>4, <3>3, <4>1, <4>2, <4>3
    <3>4. ASSUME NEW x \in Messages
          PROVE  /\ job'[<<"analysis", x>>].status # "absent" <=> Canonical(x)'
                 /\ job'[<<"raw", x>>].status # "absent" <=> raw'[x] # None
                 /\ result'[x] # None => raw'[x] # None
      BY <2>3, <2>4, <3>1, <3>2 DEF RoutedRows
    <3>5. ASSUME NEW x \in Messages, Passed(x)'
          PROVE  /\ Content[x] # None /\ result'[x].parent \in {None, ReplyTo[x]}
                 /\ \E d \in Messages : /\ d = result'[x].canonical
                                        /\ Canonical(d)' /\ KeyOfResult(d)' = KeyOfResult(x)'
                 /\ result'[x].parent # None => raw'[result'[x].parent] # None
      BY <2>3, <3>2, <3>3, <3>5
    <3> QED
      BY <3>4, <3>5 DEF RoutedRows
  <2>9. CASE c \in Messages \ {m} /\ Canonical(c) /\ KeyOfResult(c) = k /\ job' = job
    <3>1. Canonical(c)' /\ KeyOfResult(c)' = k
      BY <2>4, <2>9
    <3> QED
      BY <2>3, <2>4, <2>5, <2>6, <2>7, <2>9, <3>1, PassedRow DEF RoutedRows
  <2> QED
    BY <1>8, <2>1, <2>2, <2>8, <2>9, RowIsRouted
<1> QED
  BY <1>2, <1>3, <1>4, <1>5, <1>6, <1>7, <1>8, StepKinds, DemandIsPersisted
     DEF Raises, FindsResult, Loads, GetsAnswer, PersistsNoDemand, ListsMessages
-----------------------------------------------------------------------------
LEMMA Started ==
  ASSUME Columns, NEW h \in Handlers, NEW j \in Jobs, Starts(h, j)
  PROVE  /\ handler[h] = Idle /\ job[j].status = "open" /\ job[j].tries < MaxTries[j]
         /\ handler'[h].job = j /\ handler'[h].step = "started"
         /\ handler'[h].try = job[j].tries + 1
         /\ \A g \in Handlers \ {h} : handler'[g] = handler[g]
         /\ \A i \in Jobs : job'[i].status = job[i].status
         /\ UNCHANGED <<now, stored, late>>
<1> DEFINE tried == job[j].tries + 1
<1>1. handler' = [handler EXCEPT ![h] = [Idle EXCEPT !.job = j, !.step = "started", !.try = tried]]
  BY DEF Starts
<1>2. tried \in Nat
  BY DEF Columns
<1>3. \A i \in Jobs : job'[i].status = job[i].status
  BY DEF Starts, Columns
<1> HIDE DEF tried
<1>4. handler'[h] = [Idle EXCEPT !.job = j, !.step = "started", !.try = tried]
  BY <1>1 DEF Columns
<1>5. handler'[h].job = j /\ handler'[h].step = "started" /\ handler'[h].try = tried
  BY <1>4, IdleState DEF HandlerStates
<1> QED
  BY <1>1, <1>3, <1>5 DEF Starts, Columns, tried

(* A handler that has become idle is free for another job.                 *)
LEMMA IdleAgain ==
  ASSUME Rows, [Next]_vars, NEW h \in Handlers, handler'[h].step = "idle"
  PROVE  handler'[h] = Idle
<1> USE DEF Rows, stored, history
<1>1. handler[h].step = "idle" => handler[h] = Idle
  BY DEF HandlersInStep
<1>2. CASE UNCHANGED handler
  BY <1>1, <1>2
<1>3. ASSUME NEW m \in Messages, Ingests(m) PROVE handler'[h] = Idle
  BY <1>1, <1>3 DEF Ingests
<1>4. ASSUME NEW j \in Jobs, GivesUp(j) PROVE handler'[h] = Idle
  BY <1>1, <1>4 DEF GivesUp
<1>5. ASSUME NEW j \in Jobs, NEW g \in Handlers, Starts(g, j) PROVE handler'[h] = Idle
  BY <1>1, <1>5, Started
<1>6. ASSUME NEW g \in Handlers, Raises(g) \/ Completes(g) PROVE handler'[h] = Idle
  <2>1. handler' = [handler EXCEPT ![g] = Idle]
    BY <1>6 DEF Raises, Completes
  <2> QED
    BY <1>1, <2>1 DEF Columns
<1>7. ASSUME NEW g \in Handlers, Returns(g), handler[g].step # "idle" PROVE handler'[h] = Idle
  BY <1>1, <1>7, Returned
<1>8. ASSUME NEW g \in Handlers, Prefilters(g) PROVE handler'[h] = Idle
  <2>1. handler[g].step # "idle"
    BY <1>8 DEF Prefilters, Runs
  <2>2. CASE Returns(g)
    BY <1>7, <2>1, <2>2
  <2>3. CASE handler' = [handler EXCEPT ![g] = RoutingState(g)]
    <3>1. RoutingState(g).step = "routing"
      BY DEF RoutingState, Columns, HandlerStates
    <3> QED
      BY <1>1, <2>3, <3>1 DEF Columns
  <2> QED
    BY <1>8, <2>2, <2>3, PrefilterBegins DEF Prefilters
<1>9. ASSUME NEW g \in Handlers,
             Routes(g) \/ (FindsResult(g) /\ ~Raises(g)) \/ PersistsNoDemand(g)
                       \/ (PersistsDemand(g) /\ ~Raises(g))
      PROVE  handler'[h] = Idle
  <2>1. handler[g].step # "idle" /\ Returns(g)
    BY <1>9, DemandIsPersisted DEF Routes, FindsResult, PersistsNoDemand, Settles, Runs
  <2> QED
    BY <1>7, <2>1
<1>10. ASSUME NEW g \in Handlers, Loads(g) \/ GetsAnswer(g) PROVE handler'[h] = Idle
  <2>1. handler[g].step # "idle" /\ handler[g].job[1] = "analysis"
    BY <1>10 DEF Loads, GetsAnswer, Runs
  <2>2. cache[KeyOfJob(g)] \in Answers \cup {None}
    BY <2>1, AnalysisRow DEF Columns
  <2>3. handler'[g].step # "idle" /\ \A f \in Handlers \ {g} : handler'[f] = handler[f]
    BY <1>10, <2>1, <2>2, AnalysisMoves
  <2> QED
    BY <1>1, <2>3
<1>11. ASSUME NEW g \in Handlers, ListsMessages(g) PROVE handler'[h] = Idle
  BY <1>1, <1>11, ListingMoves
<1> QED
  BY <1>2, <1>3, <1>4, <1>5, <1>6, <1>8, <1>9, <1>10, <1>11, StepKinds

LEMMA HandlersInStepNext == Rows /\ [Next]_vars => HandlersInStep'
<1> SUFFICES ASSUME Rows, [Next]_vars, NEW h \in Handlers
             PROVE  /\ handler'[h].step = "idle" => handler'[h] = Idle
                    /\ handler'[h].step # "idle" =>
                         /\ handler'[h].job \in Jobs /\ job'[handler'[h].job].status # "absent"
                         /\ handler'[h].try \in 1..MaxTries[handler'[h].job]
                         /\ handler'[h].job[1] = "raw" =>
                              handler'[h].step \in {"started", "routing", "returned"}
                         /\ handler'[h].job[1] = "analysis" => handler'[h].step # "routing"
                    /\ Runs(h, "raw", "routing")' =>
                         /\ Content[MessageOf(h)'] # None
                         /\ handler'[h].parent \in {None, ReplyTo[MessageOf(h)']}
                         /\ handler'[h].parent # None => raw'[handler'[h].parent] # None
                    /\ Runs(h, "analysis", "persisting")' => handler'[h].answer \in Answers
                    /\ Runs(h, "analysis", "linking")' =>
                         /\ handler'[h].answer \in Answers \ {NoDemand}
                         /\ MessageOf(h)' \in handler'[h].messages
                         /\ \A m \in handler'[h].messages :
                              Passed(m)' /\ result'[m].canonical = MessageOf(h)'
  BY DEF HandlersInStep
<1> USE DEF Rows
<1> DEFINE Well ==
             /\ handler'[h].job \in Jobs /\ job'[handler'[h].job].status # "absent"
             /\ handler'[h].try \in 1..MaxTries[handler'[h].job]
             /\ handler'[h].job[1] = "raw" =>
                  handler'[h].step \in {"started", "routing", "returned"}
             /\ handler'[h].job[1] = "analysis" => handler'[h].step # "routing"
           Begun ==
             Runs(h, "raw", "routing")' =>
               /\ Content[MessageOf(h)'] # None
               /\ handler'[h].parent \in {None, ReplyTo[MessageOf(h)']}
               /\ handler'[h].parent # None => raw'[handler'[h].parent] # None
           Asked == Runs(h, "analysis", "persisting")' => handler'[h].answer \in Answers
           Lists ==
             Runs(h, "analysis", "linking")' =>
               /\ handler'[h].answer \in Answers \ {NoDemand}
               /\ MessageOf(h)' \in handler'[h].messages
               /\ \A m \in handler'[h].messages :
                    Passed(m)' /\ result'[m].canonical = MessageOf(h)'
<1>1. handler'[h].step = "idle" => handler'[h] = Idle
  BY IdleAgain
<1>2. handler'[h].step = "idle" => Begun /\ Asked /\ Lists
  BY DEF Runs
<1>3. RowsStay
  BY NothingIsTakenBack
<1>4. ASSUME NEW j \in Jobs, Starts(h, j) PROVE Well /\ Begun /\ Asked /\ Lists
  <2>1. job[j].tries + 1 \in 1..MaxTries[j]
    BY <1>4, Started, PipelineAssumption DEF Columns
  <2> QED
    BY <1>4, <2>1, Started, JobsArePairs DEF Runs
<1>5. ASSUME handler[h].step # "idle", handler'[h].job = handler[h].job,
             handler'[h].try = handler[h].try
      PROVE  /\ handler'[h].job \in Jobs /\ job'[handler'[h].job].status # "absent"
             /\ handler'[h].try \in 1..MaxTries[handler'[h].job]
             /\ handler'[h].job[1] \in {"raw", "analysis"}
  BY <1>3, <1>5, HandlerRow DEF HandlersInStep, RowsStay
<1>6. ASSUME handler[h].step # "idle", handler'[h] = handler[h] PROVE Well /\ Begun /\ Asked /\ Lists
  <2>1. handler[h].parent \in Messages \cup {None}
    BY <1>6, HandlerRow DEF HandlerStates
  <2>2. \A m \in Messages : raw[m] # None => raw'[m] # None
    BY <1>3, NoneIsNothing DEF RowsStay, Columns
  <2>3. Begun /\ Asked
    BY <1>6, <2>1, <2>2 DEF HandlersInStep, Runs, MessageOf
  <2>4. Lists
    <3> SUFFICES ASSUME Runs(h, "analysis", "linking")' PROVE Lists
      OBVIOUS
    <3>1. Runs(h, "analysis", "linking") /\ MessageOf(h)' = MessageOf(h)
      BY <1>6 DEF Runs, MessageOf
    <3>2. /\ handler[h].answer \in Answers \ {NoDemand}
          /\ MessageOf(h) \in handler[h].messages /\ handler[h].messages \subseteq Messages
          /\ \A m \in handler[h].messages : Passed(m) /\ result[m].canonical = MessageOf(h)
      BY <1>6, <3>1, HandlerRow DEF HandlersInStep, HandlerStates
    <3>3. \A m \in handler[h].messages : Passed(m)' /\ result'[m] = result[m]
      BY <1>3, <3>2, RoutesStay DEF Passed
    <3> QED
      BY <1>6, <3>1, <3>2, <3>3
  <2> QED
    BY <1>5, <1>6, <2>3, <2>4 DEF HandlersInStep
<1>7. ASSUME handler[h].step # "idle", handler'[h].job = handler[h].job,
             handler'[h].try = handler[h].try, handler'[h].step = "returned"
      PROVE  Well /\ Begun /\ Asked /\ Lists
  BY <1>5, <1>7 DEF Runs
<1>8. ASSUME handler[h].step # "idle", handler'[h].job = handler[h].job,
             handler'[h].try = handler[h].try, Prefilters(h), ~Returns(h)
      PROVE  Well /\ Begun /\ Asked /\ Lists
  <2>1. PICK m \in Messages : m = MessageOf(h) /\ handler[h].job[1] = "raw"
    BY <1>8, HandlerRow DEF Prefilters, Runs
  <2>2. Content[m] # None /\ handler' = [handler EXCEPT ![h] = RoutingState(h)] /\ raw' = raw
    BY <1>8, <2>1, PrefilterBegins DEF Prefilters
  <2>3. handler'[h].step = "routing" /\ handler'[h].parent = Parent(m) /\ MessageOf(h)' = m
    BY <1>8, <2>1, <2>2 DEF RoutingState, Columns, HandlerStates, MessageOf
  <2>4. Parent(m) \in {None, ReplyTo[m]} /\ (Parent(m) # None => raw[Parent(m)] # None)
    BY DEF Parent
  <2> QED
    BY <1>5, <1>8, <2>1, <2>2, <2>3, <2>4 DEF Runs
<1>9. ASSUME handler[h].step # "idle", handler'[h].job = handler[h].job,
             handler'[h].try = handler[h].try, Loads(h) \/ GetsAnswer(h)
      PROVE  Well /\ Begun /\ Asked /\ Lists
  <2>1. handler[h].job[1] = "analysis" /\ cache[KeyOfJob(h)] \in Answers \cup {None}
    BY <1>9, AnalysisRow DEF Loads, GetsAnswer, Runs, Columns
  <2>2. \/ handler'[h].step = "asking"
        \/ handler'[h].step = "persisting" /\ handler'[h].answer \in Answers
    BY <1>9, <2>1, AnalysisMoves
  <2> QED
    BY <1>5, <1>9, <2>1, <2>2 DEF Runs
<1>10. ASSUME handler[h].step # "idle", handler'[h].job = handler[h].job,
              handler'[h].try = handler[h].try, ListsMessages(h)
       PROVE  Well /\ Begun /\ Asked /\ Lists
  <2>1. /\ handler'[h].step = "linking" /\ handler'[h].messages = RoutedTo(MessageOf(h))
        /\ handler'[h].answer \in Answers \ {NoDemand} /\ handler[h].job[1] = "analysis"
        /\ UNCHANGED result
    BY <1>10, ListingMoves DEF stored
  <2>2. MessageOf(h)' = MessageOf(h) /\ MessageOf(h) \in RoutedTo(MessageOf(h))
    BY <1>10, <2>1, AnalysisRow DEF MessageOf
  <2>3. \A m \in RoutedTo(MessageOf(h)) : Passed(m)' /\ result'[m].canonical = MessageOf(h)
    BY <2>1 DEF RoutedTo, Passed
  <2>4. Begun /\ Asked /\ Lists
    BY <2>1, <2>2, <2>3 DEF Runs
  <2> QED
    BY <1>5, <1>10, <2>1, <2>4
<1>11. handler'[h].step # "idle" => Well /\ Begun /\ Asked /\ Lists
  <2> SUFFICES ASSUME handler'[h].step # "idle" PROVE Well /\ Begun /\ Asked /\ Lists
    OBVIOUS
  <2>1. CASE /\ handler[h].step # "idle"
             /\ handler'[h].job = handler[h].job /\ handler'[h].try = handler[h].try
             /\ \/ handler'[h] = handler[h]
                \/ Prefilters(h) \/ Routes(h) \/ (FindsResult(h) /\ Returns(h))
                \/ Loads(h) \/ GetsAnswer(h) \/ PersistsNoDemand(h)
                \/ ListsMessages(h) \/ (PersistsDemand(h) /\ ~Raises(h))
    <3>1. CASE Returns(h)
      BY <1>7, <2>1, <3>1, Returned
    <3>2. CASE Routes(h) \/ PersistsNoDemand(h) \/ (PersistsDemand(h) /\ ~Raises(h))
      <4>1. Returns(h)
        BY <3>2, DemandIsPersisted DEF Routes, PersistsNoDemand
      <4> QED
        BY <3>1, <4>1
    <3> QED
      BY <1>6, <1>8, <1>9, <1>10, <2>1, <3>1, <3>2
  <2> QED
    BY <1>4, <2>1, HandlersStay
<1> QED
  BY <1>1, <1>2, <1>11
-----------------------------------------------------------------------------
LEMMA LinkedRowsNext == Rows /\ AnswersAreKnown /\ [Next]_vars => LinkedRows'
<1> SUFFICES ASSUME Rows, AnswersAreKnown, [Next]_vars PROVE LinkedRows'
  OBVIOUS
<1> USE DEF Rows, stored
<1>1. RowsStay
  BY NothingIsTakenBack
<1>2. ASSUME UNCHANGED <<link, opp, source, matching>> PROVE LinkedRows'
  <2>1. \A k \in Keys : link[k] # None => cache'[k] # None
    BY <1>1 DEF RowsStay, LinkedRows
  <2>2. \A m \in Messages : source[m] # None => /\ Passed(m)'
                                                /\ KeyOfResult(m)' = KeyOfResult(m)
    BY <1>1, RoutesStay DEF LinkedRows, Passed
  <2> QED
    BY <1>2, <2>1, <2>2 DEF LinkedRows
<1>3. ASSUME NEW h \in Handlers, PersistsDemand(h), ~Raises(h) PROVE LinkedRows'
  <2>1. PICK k \in Keys : k = KeyOfJob(h)
    BY <1>3, AnalysisRow DEF PersistsDemand, Runs
  <2>2. /\ Runs(h, "analysis", "linking") /\ handler[h].step # "idle"
        /\ handler[h].answer \in Answers
        /\ cache' = Stored(h) /\ UNCHANGED <<raw, result>>
    BY <1>3, DemandIsPersisted DEF Runs
  <2>3. PICK o \in Keys :
          /\ link[k] # None => o = link[k]
          /\ o # k => opp[o] # None /\ link[o] = o
          /\ link' = [link EXCEPT ![k] = o]
          /\ \E row \in Opportunity : opp' = [opp EXCEPT ![o] = row] /\ row.first <= row.last
          /\ source' = [m \in Messages |-> IF m \in handler[h].messages THEN o ELSE source[m]]
          /\ matching' = matching \cup {o}
    BY <1>3, <2>1, DemandIsPersisted
  <2>4. cache'[k] # None
    BY <2>1, <2>2, NoneIsNothing DEF Stored, Columns, AnswersAreKnown
  <2>5. /\ link'[k] = o /\ opp'[o] # None /\ opp'[o].first <= opp'[o].last /\ link'[o] = o
        /\ \A l \in Keys \ {k} : link'[l] = link[l]
        /\ \A l \in Keys \ {o} : opp'[l] = opp[l]
    BY <2>3, NoneIsNothing DEF Columns
  <2>6. \A l \in Keys : link'[l] # None => /\ cache'[l] # None /\ opp'[link'[l]] # None
                                           /\ link'[link'[l]] = link'[l]
    <3>1. ASSUME NEW l \in Keys \ {k}, link[l] # None
          PROVE  cache'[l] # None /\ opp'[link[l]] # None /\ link'[link[l]] = link[l]
      <4>1. PICK p \in Keys : p = link[l]
        BY <3>1 DEF Columns
      <4>2. cache[l] # None /\ opp[p] # None /\ link[p] = p
        BY <3>1, <4>1 DEF LinkedRows
      <4> QED
        BY <1>1, <4>1, <4>2, NoneIsNothing DEF RowsStay
    <3> QED
      BY <2>4, <2>5, <3>1
  <2>7. \A l \in Keys : opp'[l] # None => link'[l] = l /\ opp'[l].first <= opp'[l].last
    BY <1>1, <2>5, NoneIsNothing DEF LinkedRows, RowsStay
  <2>8. matching' = {l \in Keys : opp'[l] # None}
    BY <2>3, <2>5 DEF LinkedRows
  <2>9. \A m \in Messages : source'[m] # None =>
          Passed(m)' /\ source'[m] = link'[KeyOfResult(m)']
    <3>1. \A m \in Messages : (Passed(m)' <=> Passed(m)) /\ KeyOfResult(m)' = KeyOfResult(m)
      BY <2>2 DEF Passed, KeyOfResult
    <3>2. \A m \in handler[h].messages : Passed(m) /\ KeyOfResult(m) = k
      <4>1. handler[h].messages \subseteq Messages
        BY <2>2, HandlerRow DEF HandlerStates
      <4>2. handler[h].messages \subseteq RoutedTo(MessageOf(h))
        BY <2>2, <4>1 DEF HandlersInStep, RoutedTo
      <4> QED
        BY <2>1, <2>2, <4>2, AnalysisRow DEF Runs
    <3>3. ASSUME NEW m \in Messages \ handler[h].messages, source[m] # None
          PROVE  Passed(m) /\ source[m] = link'[KeyOfResult(m)]
      <4>1. Passed(m) /\ source[m] = link[KeyOfResult(m)]
        BY <3>3 DEF LinkedRows
      <4> QED
        BY <1>1, <3>3, <4>1, PassedRow DEF RowsStay
    <3> QED
      BY <2>3, <2>5, <3>1, <3>2, <3>3
  <2> QED
    BY <2>6, <2>7, <2>8, <2>9 DEF LinkedRows
<1>4. \/ UNCHANGED <<link, opp, source, matching>>
      \/ \E h \in Handlers : PersistsDemand(h) /\ ~Raises(h)
  BY StepKinds DEF Ingests, GivesUp, Starts, Raises, Completes, Prefilters, Routes,
     FindsResult, Loads, GetsAnswer, PersistsNoDemand, ListsMessages
<1> QED
  BY <1>2, <1>3, <1>4

LEMMA WindowsAreApartNext == Rows /\ WindowsAreApart /\ [Next]_vars => WindowsAreApart'
<1> SUFFICES ASSUME Rows, WindowsAreApart, [Next]_vars PROVE WindowsAreApart'
  OBVIOUS
<1> USE DEF Rows
<1>1. ASSUME UNCHANGED result PROVE WindowsAreApart'
  BY <1>1 DEF WindowsAreApart, Passed, Canonical, KeyOfResult
<1>2. ASSUME NEW h \in Handlers, Prefilters(h), result' # result PROVE WindowsAreApart'
  <2>1. PICK m \in Messages : m = MessageOf(h)
    BY <1>2, HandlerRow DEF Prefilters, Runs
  <2>2. result[m] = None /\ result' = [result EXCEPT ![m] = Rejected]
    BY <1>2, <2>1 DEF Prefilters, Columns
  <2>3. ~Passed(m)' /\ ~Canonical(m)' /\ \A x \in Messages \ {m} : result'[x] = result[x]
    BY <2>2, ResultRow DEF Passed, Canonical, Columns
  <2>4. \A x \in Messages \ {m} : /\ Passed(x)' <=> Passed(x)
                                  /\ Canonical(x)' <=> Canonical(x)
                                  /\ KeyOfResult(x)' = KeyOfResult(x)
    BY <2>3 DEF Passed, Canonical, KeyOfResult
  <2> QED
    BY <2>3, <2>4 DEF WindowsAreApart
<1>3. ASSUME NEW h \in Handlers, Routes(h) PROVE WindowsAreApart'
  <2>1. PICK m \in Messages : m = MessageOf(h)
    BY <1>3, HandlerRow DEF Routes, Runs
  <2>2. PICK k \in Keys : k = KeyOf(m, handler[h].parent)
    BY <1>3, <2>1, RowIsRouted
  <2>3. PICK t \in Time : t = handler[h].began
    BY <1>3, <2>1, <2>2, RowIsRouted
  <2>4. /\ result[m] = None /\ result'[m].at = t /\ KeyOfResult(m)' = k /\ Passed(m)'
        /\ \A x \in Messages \ {m} : result'[x] = result[x]
    BY <1>3, <2>1, <2>2, <2>3, RowIsRouted DEF KeyOfResult, Passed
  <2>5. PICK c \in Messages :
          /\ c = result'[m].canonical
          /\ \/ /\ c = m
                /\ \A d \in Messages : Canonical(d) /\ KeyOfResult(d) = k
                                       => result[d].at < t - DedupWindow
             \/ c # m /\ Canonical(c) /\ KeyOfResult(c) = k /\ result[c].at >= t - DedupWindow
    <3>1. \/ /\ result'[m].canonical = m
             /\ \A d \in Messages : Canonical(d) /\ KeyOfResult(d) = k
                                    => result[d].at < handler[h].began - DedupWindow
             /\ job' = [job EXCEPT ![<<"analysis", m>>].status = "open"]
             /\ late' = late
          \/ /\ result'[m].canonical \in Messages \ {m} /\ Canonical(result'[m].canonical)
             /\ KeyOfResult(result'[m].canonical) = k
             /\ result[result'[m].canonical].at >= handler[h].began - DedupWindow
             /\ job' = job
             /\ late' = IF cache[k] # None \/ Listed(result'[m].canonical)
                        THEN late \cup {m} ELSE late
      BY <1>3, <2>1, <2>2, RowIsRouted
    <3>2. PICK c \in Messages : c = result'[m].canonical
      BY <2>1, <3>1
    <3>3. CASE result'[m].canonical = m
      BY <2>3, <3>1, <3>2, <3>3
    <3>4. CASE result'[m].canonical # m
      BY <2>3, <3>1, <3>2, <3>4
    <3> QED
      BY <3>3, <3>4
  <2>6. \A x \in Messages \ {m} : /\ Passed(x)' <=> Passed(x)
                                  /\ Canonical(x)' <=> Canonical(x)
                                  /\ KeyOfResult(x)' = KeyOfResult(x)
    BY <2>4 DEF Passed, Canonical, KeyOfResult
  <2>7. \A x \in Messages : Passed(x) => x # m /\ result[x].canonical # m /\ result[x].at \in Time
    BY <2>4, PassedRow DEF Passed, Canonical
  <2>8. Canonical(m)' <=> c = m
    BY <2>4, <2>5 DEF Canonical
  <2>9. DedupWindow \in Nat /\ Time \subseteq Nat
    BY PipelineAssumption, Times
  <2>10. ASSUME NEW x \in Messages, NEW d \in Messages, Passed(x)', Canonical(d)',
                KeyOfResult(x)' = KeyOfResult(d)'
         PROVE  /\ x # d /\ Canonical(x)' => \/ result'[x].at - result'[d].at > DedupWindow
                                             \/ result'[d].at - result'[x].at > DedupWindow
                /\ result'[x].canonical = d => result'[x].at - result'[d].at <= DedupWindow
    <3>1. CASE x = m /\ d = m
      BY <2>4, <2>9, <3>1
    <3>2. CASE x = m /\ d # m
      <4>1. Canonical(d) /\ KeyOfResult(d) = k /\ result'[d].at = result[d].at /\ result[d].at \in Time
        BY <2>4, <2>6, <2>7, <2>10, <3>2, ResultRow
      <4>2. Canonical(m)' => t - result[d].at > DedupWindow
        <5>1. PICK u \in Nat : u = result[d].at
          BY <2>9, <4>1
        <5>2. Canonical(m)' => u < t - DedupWindow
          BY <2>5, <2>8, <4>1, <5>1
        <5> QED
          BY <2>3, <2>9, <5>1, <5>2
      <4>3. result'[m].canonical = d => t - result[d].at <= DedupWindow
        <5>1. PICK u \in Nat : u = result[d].at
          BY <2>9, <4>1
        <5>2. result'[m].canonical = d => u >= t - DedupWindow
          BY <2>5, <3>2, <5>1
        <5> QED
          BY <2>3, <2>9, <5>1, <5>2
      <4> QED
        BY <2>4, <3>2, <4>1, <4>2, <4>3
    <3>3. CASE x # m /\ d = m
      <4>1. /\ Passed(x) /\ KeyOfResult(x) = k /\ result'[x] = result[x] /\ c = m
            /\ result[x].at \in Time /\ result[x].canonical # m
        BY <2>4, <2>6, <2>7, <2>8, <2>10, <3>3
      <4>2. Canonical(x)' => t - result[x].at > DedupWindow
        <5>1. PICK u \in Nat : u = result[x].at
          BY <2>9, <4>1
        <5>2. Canonical(x)' => u < t - DedupWindow
          BY <2>5, <2>6, <3>3, <4>1, <5>1
        <5> QED
          BY <2>3, <2>9, <5>1, <5>2
      <4> QED
        BY <2>4, <3>3, <4>1, <4>2
    <3>4. CASE x # m /\ d # m
      BY <2>4, <2>6, <2>10, <3>4 DEF WindowsAreApart
    <3> QED
      BY <3>1, <3>2, <3>3, <3>4
  <2> QED
    BY <2>10 DEF WindowsAreApart
<1>4. \/ UNCHANGED result
      \/ \E h \in Handlers : (Prefilters(h) /\ result' # result) \/ Routes(h)
  BY StepKinds, DemandIsPersisted
     DEF stored, Ingests, GivesUp, Starts, Raises, Completes, FindsResult, Loads, GetsAnswer,
         PersistsNoDemand, ListsMessages
<1> QED
  BY <1>1, <1>2, <1>3, <1>4
-----------------------------------------------------------------------------
(* The text a handler analyses was chosen when it started.                 *)
LEMMA StillAnalyses ==
  ASSUME Rows, [Next]_vars, NEW h \in Handlers, NEW k, Analyses(h, k)',
         \A j \in Jobs : ~Starts(h, j)
  PROVE  Analyses(h, k)
<1>1. handler'[h].step # "idle" /\ handler'[h].job[1] = "analysis" /\ KeyOfResult(MessageOf(h))' = k
  BY DEF Analyses
<1>2. handler[h].step # "idle" /\ handler'[h].job = handler[h].job
  BY <1>1, HandlersStay
<1>3. Columns /\ RoutedRows /\ HandlersInStep /\ RowsStay
  BY NothingIsTakenBack DEF Rows
<1>4. PICK m \in Messages : m = MessageOf(h) /\ Passed(m)
  BY <1>1, <1>2, <1>3, AnalysisRow DEF RoutedTo
<1>5. handler[h].job # None
  BY <1>2, <1>3, HandlerRow
<1>6. KeyOfResult(m)' = KeyOfResult(m) /\ MessageOf(h)' = m
  BY <1>2, <1>3, <1>4, RoutesStay DEF Passed, MessageOf
<1>7. KeyOfResult(MessageOf(h))' = KeyOfResult(m)'
  BY <1>6 DEF KeyOfResult
<1> QED
  BY <1>1, <1>2, <1>4, <1>5, <1>6, <1>7 DEF Analyses

(* One that starts sees the others that are at its text.                   *)
LEMMA StartsAreNoted ==
  ASSUME Rows, [Next]_vars, NEW h \in Handlers, NEW j \in Jobs, Starts(h, j),
         NEW g \in Handlers \ {h}, NEW k, Analyses(h, k)', Analyses(g, k)'
  PROVE  k \in overtaken'
<1>1. Columns
  BY DEF Rows
<1>2. handler'[h].job = j /\ handler'[g] = handler[g] /\ UNCHANGED result
  BY <1>1, Started DEF stored
<1>3. Analyses(g, k)
  BY <1>2 DEF Analyses, MessageOf, KeyOfResult
<1>4. j[1] = "analysis" /\ KeyOfResult(j[2]) = k
  BY <1>2 DEF Analyses, MessageOf, KeyOfResult
<1> QED
  BY <1>3, <1>4 DEF Starts

LEMMA OvertakersAreNotedNext ==
  Rows /\ OvertakersAreNoted /\ [Next]_vars => OvertakersAreNoted'
<1> SUFFICES ASSUME Rows, OvertakersAreNoted, [Next]_vars,
                    NEW g \in Handlers, NEW h \in Handlers, NEW k \in Keys,
                    g # h, Analyses(g, k)', Analyses(h, k)'
             PROVE  k \in overtaken'
  BY DEF OvertakersAreNoted
<1>1. CASE \E j \in Jobs : Starts(h, j)
  BY <1>1, StartsAreNoted
<1>2. CASE \E j \in Jobs : Starts(g, j)
  BY <1>2, StartsAreNoted
<1>3. CASE \A j \in Jobs : ~Starts(h, j) /\ ~Starts(g, j)
  <2>1. Analyses(g, k) /\ Analyses(h, k)
    BY <1>3, StillAnalyses
  <2>2. k \in overtaken
    BY <2>1 DEF OvertakersAreNoted
  <2> QED
    BY <2>2, NothingIsTakenBack DEF RowsStay
<1> QED
  BY <1>1, <1>2, <1>3

(* A handler in the analysis of a text is at its key.                      *)
LEMMA RunsItsKey ==
  ASSUME Rows, NEW h \in Handlers, handler[h].step # "idle", handler[h].job[1] = "analysis"
  PROVE  Analyses(h, KeyOfJob(h)) /\ KeyOfJob(h) \in Keys
BY AnalysisRow, HandlerRow DEF Rows, Analyses, KeyOfJob

(* An entry is written by a handler at its key, that persists.             *)
LEMMA EntryIsWritten ==
  ASSUME Rows, [Next]_vars, NEW k \in Keys, cache'[k] # cache[k]
  PROVE  \E g \in Handlers : /\ \/ Runs(g, "analysis", "persisting") /\ MayStore(g)
                                \/ Runs(g, "analysis", "linking")
                             /\ KeyOfJob(g) = k /\ handler[g].miss /\ cache[k] = None
                             /\ cache'[k] = handler[g].answer /\ Returns(g)
<1> USE DEF Rows
<1>1. \E g \in Handlers : PersistsNoDemand(g) \/ (PersistsDemand(g) /\ ~Raises(g))
  BY StepKinds DEF stored, Ingests, GivesUp, Starts, Raises, Completes, Prefilters, Routes,
     FindsResult, Loads, GetsAnswer, ListsMessages
<1>2. PICK g \in Handlers : PersistsNoDemand(g) \/ (PersistsDemand(g) /\ ~Raises(g))
  BY <1>1
<1>3. /\ \/ Runs(g, "analysis", "persisting") /\ MayStore(g)
         \/ Runs(g, "analysis", "linking")
      /\ cache' = Stored(g) /\ Returns(g)
      /\ ~StoreConflicts(g) /\ handler[g].answer \in Answers
  BY <1>2, DemandIsPersisted DEF PersistsNoDemand, Settles, HandlersInStep
<1>4. KeyOfJob(g) = k /\ handler[g].miss /\ cache'[k] = handler[g].answer
  BY <1>3 DEF Stored, Columns
<1> QED
  BY <1>3, <1>4 DEF StoreConflicts

(* A handler that waits for its rows went on waiting, or has just listed   *)
(* its messages; its message and its key are those it had.                 *)
LEMMA LinkingStays ==
  ASSUME Rows, [Next]_vars, NEW h \in Handlers, Runs(h, "analysis", "linking")'
  PROVE  /\ MessageOf(h)' = MessageOf(h) /\ MessageOf(h) \in Messages /\ Canonical(MessageOf(h))
         /\ KeyOfJob(h)' = KeyOfJob(h) /\ KeyOfJob(h) \in Keys
         /\ \/ handler'[h] = handler[h] /\ Runs(h, "analysis", "linking")
            \/ ListsMessages(h)
<1> USE DEF Rows
<1>1. handler'[h].job[1] = "analysis" /\ handler'[h].step = "linking" /\ RowsStay
  BY NothingIsTakenBack DEF Runs
<1>2. \A j \in Jobs : ~Starts(h, j)
  BY <1>1, Started
<1>3. /\ handler[h].step # "idle" /\ handler'[h].job = handler[h].job
      /\ \/ handler'[h] = handler[h]
         \/ Prefilters(h) \/ Routes(h) \/ (FindsResult(h) /\ Returns(h))
         \/ Loads(h) \/ GetsAnswer(h) \/ PersistsNoDemand(h)
         \/ ListsMessages(h) \/ (PersistsDemand(h) /\ ~Raises(h))
  BY <1>1, <1>2, HandlersStay
<1>4. PICK m \in Messages : m = MessageOf(h) /\ Canonical(m) /\ Passed(m) /\ KeyOfResult(m) \in Keys
  BY <1>1, <1>3, AnalysisRow, HandlerRow DEF KeyOfJob
<1>5. MessageOf(h)' = m /\ KeyOfResult(m)' = KeyOfResult(m)
  BY <1>1, <1>3, <1>4, RoutesStay DEF MessageOf, Passed
<1>6. KeyOfJob(h)' = KeyOfJob(h)
  BY <1>4, <1>5 DEF KeyOfJob, KeyOfResult
<1>7. ~Returns(h)
  BY <1>1, <1>3, Returned
<1>8. ~Prefilters(h) /\ ~Routes(h) /\ ~PersistsNoDemand(h) /\ ~(PersistsDemand(h) /\ ~Raises(h))
  BY <1>1, <1>3, <1>7, DemandIsPersisted DEF Prefilters, Routes, PersistsNoDemand, Runs
<1>9. ~(Loads(h) \/ GetsAnswer(h))
  <2> SUFFICES ASSUME Loads(h) \/ GetsAnswer(h) PROVE FALSE
    OBVIOUS
  <2>1. cache[KeyOfJob(h)] \in Answers \cup {None}
    BY <1>4 DEF KeyOfJob, Columns
  <2> QED
    BY <1>1, <2>1, AnalysisMoves
<1>10. \/ handler'[h] = handler[h] /\ Runs(h, "analysis", "linking")
       \/ ListsMessages(h)
  BY <1>1, <1>3, <1>7, <1>8, <1>9 DEF Runs
<1> QED
  BY <1>4, <1>5, <1>6, <1>10 DEF KeyOfJob

(* A second insert of a key waits for the first.                           *)
LEMMA EntriesAreInsertedNext == Rows /\ [Next]_vars => EntriesAreInserted'
<1> SUFFICES ASSUME Rows, [Next]_vars, NEW h \in Handlers, NEW k \in Keys, Inserts(h, k)'
             PROVE  cache'[k] = None /\ \A g \in Handlers : Inserts(g, k)' => g = h
  BY DEF EntriesAreInserted
<1> USE DEF Rows
<1>1. ASSUME NEW g \in Handlers, Inserts(g, k)'
      PROVE  /\ cache[k] = None /\ handler'[g].step = "linking"
             /\ \/ Inserts(g, k)
                \/ ListsMessages(g) /\ KeyOfJob(g) = k /\ handler[g].miss
  <2>1. Runs(g, "analysis", "linking")' /\ handler'[g].miss /\ KeyOfJob(g)' = k
    BY <1>1 DEF Inserts
  <2>2. KeyOfJob(g) = k
    BY <2>1, LinkingStays
  <2>3. handler'[g].step = "linking"
    BY <2>1 DEF Runs
  <2>4. CASE handler'[g] = handler[g] /\ Runs(g, "analysis", "linking")
    BY <2>1, <2>2, <2>3, <2>4 DEF Inserts, EntriesAreInserted
  <2>5. CASE ListsMessages(g)
    BY <2>1, <2>2, <2>3, <2>5, ListingMoves
  <2> QED
    BY <2>1, <2>4, <2>5, LinkingStays
<1>2. cache'[k] = None
  <2> SUFFICES ASSUME cache'[k] # cache[k] PROVE FALSE
    BY <1>1
  <2>1. PICK g \in Handlers : /\ \/ Runs(g, "analysis", "persisting") /\ MayStore(g)
                                 \/ Runs(g, "analysis", "linking")
                              /\ KeyOfJob(g) = k /\ handler[g].miss /\ Returns(g)
    BY EntryIsWritten
  <2>2. handler[g].step # "idle"
    BY <2>1 DEF Runs
  <2>3. handler'[g].step = "returned" /\ \A f \in Handlers \ {g} : handler'[f] = handler[f]
    BY <2>1, <2>2, Returned
  <2>4. g # h /\ handler[h].step = "linking"
    BY <1>1, <2>3
  <2>5. Inserts(h, k)
    BY <1>1, <2>4, ListingMoves
  <2>6. CASE Runs(g, "analysis", "persisting") /\ MayStore(g)
    BY <2>1, <2>4, <2>5, <2>6 DEF MayStore, Inserts
  <2>7. CASE Runs(g, "analysis", "linking")
    BY <2>1, <2>4, <2>5, <2>7 DEF Inserts, EntriesAreInserted
  <2> QED
    BY <2>1, <2>6, <2>7
<1>3. ASSUME NEW f \in Handlers, NEW g \in Handlers, f # g, ListsMessages(f), Inserts(g, k)',
             KeyOfJob(f) = k, handler[f].miss
      PROVE  FALSE
  <2>1. MayStore(f) /\ handler'[g] = handler[g] /\ handler'[g].step = "linking"
    BY <1>1, <1>3, ListingMoves
  <2>2. Inserts(g, k)
    BY <1>1, <1>3, <2>1, ListingMoves
  <2> QED
    BY <1>3, <2>1, <2>2 DEF MayStore, Inserts
<1>4. ASSUME NEW g \in Handlers, Inserts(g, k)', g # h PROVE FALSE
  <2>1. Inserts(h, k) /\ Inserts(g, k)
    BY <1>1, <1>3, <1>4
  <2> QED
    BY <1>4, <2>1 DEF EntriesAreInserted
<1> QED
  BY <1>2, <1>4

LEMMA LinkingAnswersAreKnown ==
  ASSUME Rows, AnswersAreKnown, [Next]_vars, NEW h \in Handlers,
         Runs(h, "analysis", "linking")', ~handler'[h].miss
  PROVE  /\ cache'[KeyOfJob(h)'] # None
         /\ cache'[KeyOfJob(h)'] = handler'[h].answer \/ KeyOfJob(h)' \in overtaken'
<1> USE DEF Rows
<1>1. PICK k \in Keys : k = KeyOfJob(h) /\ KeyOfJob(h)' = k
  BY LinkingStays
<1>2. overtaken \subseteq overtaken' /\ (cache[k] # None => cache'[k] = cache[k])
  BY NothingIsTakenBack DEF RowsStay
<1>3. CASE handler'[h] = handler[h] /\ Runs(h, "analysis", "linking")
  BY <1>1, <1>2, <1>3 DEF AnswersAreKnown
<1>4. CASE ListsMessages(h)
  <2>1. /\ Runs(h, "analysis", "persisting") /\ ~StoreConflicts(h)
        /\ handler'[h].answer = handler[h].answer
        /\ ~(handler[h].miss /\ cache[k] = None)
    BY <1>1, <1>4, ListingMoves
  <2>2. cache[k] # None /\ (cache[k] = handler[h].answer \/ k \in overtaken)
    BY <1>1, <2>1 DEF AnswersAreKnown, StoreConflicts
  <2> QED
    BY <1>1, <1>2, <2>1, <2>2
<1> QED
  BY <1>3, <1>4, LinkingStays

LEMMA AnswersAreKnownNext ==
  Rows /\ OvertakersAreNoted /\ AnswersAreKnown /\ [Next]_vars => AnswersAreKnown'
<1> SUFFICES ASSUME Rows, OvertakersAreNoted, AnswersAreKnown, [Next]_vars, NEW h \in Handlers
             PROVE  /\ Runs(h, "analysis", "asking")' /\ cache'[KeyOfJob(h)'] # None
                         => KeyOfJob(h)' \in overtaken'
                    /\ Runs(h, "analysis", "persisting")' /\ ~handler'[h].miss =>
                         /\ cache'[KeyOfJob(h)'] # None
                         /\ \/ cache'[KeyOfJob(h)'] = handler'[h].answer
                            \/ KeyOfJob(h)' \in overtaken'
  BY LinkingAnswersAreKnown DEF AnswersAreKnown
<1> USE DEF Rows
<1> SUFFICES ASSUME Runs(h, "analysis", "asking")' \/ Runs(h, "analysis", "persisting")'
             PROVE  /\ Runs(h, "analysis", "asking")' /\ cache'[KeyOfJob(h)'] # None
                         => KeyOfJob(h)' \in overtaken'
                    /\ Runs(h, "analysis", "persisting")' /\ ~handler'[h].miss =>
                         /\ cache'[KeyOfJob(h)'] # None
                         /\ \/ cache'[KeyOfJob(h)'] = handler'[h].answer
                            \/ KeyOfJob(h)' \in overtaken'
  OBVIOUS
<1>1. /\ handler'[h].job[1] = "analysis" /\ handler'[h].step \in {"asking", "persisting"}
      /\ RowsStay
  BY NothingIsTakenBack DEF Runs
<1>2. \A j \in Jobs : ~Starts(h, j)
  BY <1>1, Started
<1>3. /\ handler[h].step # "idle" /\ handler'[h].job = handler[h].job
      /\ \/ handler'[h] = handler[h]
         \/ Prefilters(h) \/ Routes(h) \/ (FindsResult(h) /\ Returns(h))
         \/ Loads(h) \/ GetsAnswer(h) \/ PersistsNoDemand(h)
         \/ ListsMessages(h) \/ (PersistsDemand(h) /\ ~Raises(h))
  BY <1>1, <1>2, HandlersStay
<1>4. PICK k \in Keys : k = KeyOfJob(h) /\ Analyses(h, k)
  BY <1>1, <1>3, RunsItsKey
<1>5. KeyOfJob(h)' = k
  <2>1. MessageOf(h)' = MessageOf(h) /\ MessageOf(h) \in Messages /\ Passed(MessageOf(h))
    BY <1>1, <1>3, AnalysisRow, HandlerRow DEF MessageOf
  <2>2. PICK m \in Messages : m = MessageOf(h) /\ Passed(m)
    BY <2>1
  <2>3. KeyOfResult(m)' = KeyOfResult(m)
    BY <1>1, <2>2, RoutesStay DEF Passed
  <2> QED
    BY <1>4, <2>1, <2>2, <2>3 DEF KeyOfJob, KeyOfResult
<1>6. ~Returns(h)
  BY <1>1, <1>3, Returned
<1>7. handler'[h] = handler[h] \/ Loads(h) \/ GetsAnswer(h)
  <2>1. ~Prefilters(h)
    BY <1>1, <1>3 DEF Prefilters, Runs
  <2>2. ~Routes(h) /\ ~PersistsNoDemand(h)
    BY <1>6 DEF Routes, PersistsNoDemand
  <2>3. ~(PersistsDemand(h) /\ ~Raises(h)) /\ ~ListsMessages(h)
    BY <1>1, <1>6, DemandIsPersisted, ListingMoves
  <2> QED
    BY <1>3, <1>6, <2>1, <2>2, <2>3
<1>8. overtaken \subseteq overtaken' /\ (cache[k] # None => cache'[k] = cache[k])
  BY <1>1 DEF RowsStay
<1>9. CASE handler'[h] = handler[h]
  <2>1. Runs(h, "analysis", "asking")' /\ cache'[k] # None => k \in overtaken'
    <3> SUFFICES ASSUME Runs(h, "analysis", "asking")', cache'[k] # None PROVE k \in overtaken'
      OBVIOUS
    <3>1. Runs(h, "analysis", "asking")
      BY <1>9 DEF Runs
    <3>2. CASE cache[k] # None
      BY <1>4, <1>8, <3>1, <3>2 DEF AnswersAreKnown
    <3>3. CASE cache[k] = None
      <4>1. PICK g \in Handlers : /\ \/ Runs(g, "analysis", "persisting")
                                     \/ Runs(g, "analysis", "linking")
                                  /\ KeyOfJob(g) = k
        BY <3>3, EntryIsWritten
      <4>2. g # h /\ Analyses(g, k)
        BY <3>1, <4>1, RunsItsKey DEF Runs
      <4> QED
        BY <1>4, <1>8, <4>2 DEF OvertakersAreNoted
    <3> QED
      BY <3>2, <3>3
  <2>2. Runs(h, "analysis", "persisting")' /\ ~handler'[h].miss =>
          cache'[k] # None /\ (cache'[k] = handler'[h].answer \/ k \in overtaken')
    BY <1>4, <1>8, <1>9 DEF AnswersAreKnown, Runs
  <2> QED
    BY <1>5, <2>1, <2>2
<1>10. CASE Loads(h) \/ GetsAnswer(h)
  <2>1. cache' = cache /\ cache[k] \in Answers \cup {None}
    BY <1>10 DEF Loads, GetsAnswer, stored, Columns
  <2>2. \/ handler'[h].step = "asking" /\ cache[k] = None
        \/ /\ handler'[h].step = "persisting"
           /\ handler'[h].answer = cache[k] /\ cache[k] # None
        \/ /\ handler'[h].step = "persisting" /\ GetsAnswer(h)
           /\ handler'[h].miss <=> cache[k] = None
    BY <1>4, <1>10, <2>1, AnalysisMoves
  <2>3. GetsAnswer(h) /\ cache[k] # None => k \in overtaken
    BY <1>4 DEF GetsAnswer, AnswersAreKnown
  <2> QED
    BY <1>5, <1>8, <2>1, <2>2, <2>3 DEF Runs
<1> QED
  BY <1>7, <1>9, <1>10
-----------------------------------------------------------------------------
(* What becomes over was over, or a handler returns from it.               *)
LEMMA BecomesOver ==
  ASSUME Rows, [Next]_vars, NEW j \in Jobs, Over(j)'
  PROVE  \/ Over(j)
         \/ \E h \in Handlers :
              /\ handler[h].step # "idle" /\ handler[h].job = j /\ Returns(h)
              /\ \/ Prefilters(h) \/ Routes(h) \/ FindsResult(h) \/ PersistsNoDemand(h)
                 \/ (PersistsDemand(h) /\ ~Raises(h))
<1> USE DEF Rows
<1>1. ASSUME job'[j].status = "done", job[j].status # "done" PROVE Over(j)
  <2>1. ASSUME NEW m \in Messages, Ingests(m) PROVE FALSE
    BY <1>1, <2>1 DEF Ingests, Submitted, Columns
  <2>2. ASSUME NEW i \in Jobs, GivesUp(i) PROVE FALSE
    BY <1>1, <2>2 DEF GivesUp, Columns
  <2>3. ASSUME NEW i \in Jobs, NEW h \in Handlers, Starts(h, i) PROVE FALSE
    BY <1>1, <2>3, Started
  <2>4. ASSUME NEW h \in Handlers, Routes(h) PROVE FALSE
    BY <1>1, <2>4 DEF Routes, Submitted, Columns
  <2>5. ASSUME NEW h \in Handlers, Completes(h) PROVE Over(j)
    <3>1. handler[h].job = j /\ handler[h].step = "returned"
      BY <1>1, <2>5 DEF Completes, Columns
    <3> QED
      BY <3>1 DEF Over
  <2>6. job' # job
    BY <1>1
  <2> QED
    BY <2>1, <2>2, <2>3, <2>4, <2>5, <2>6, StepKinds, DemandIsPersisted
       DEF stored, Raises, Prefilters, FindsResult, Loads, GetsAnswer, PersistsNoDemand,
           ListsMessages
<1>2. ASSUME NEW h \in Handlers, handler'[h].step = "returned", handler'[h].job = j
      PROVE  \/ Over(j)
             \/ /\ handler[h].step # "idle" /\ handler[h].job = j /\ Returns(h)
                /\ \/ Prefilters(h) \/ Routes(h) \/ FindsResult(h) \/ PersistsNoDemand(h)
                   \/ (PersistsDemand(h) /\ ~Raises(h))
  <2>1. \A i \in Jobs : ~Starts(h, i)
    BY <1>2, Started
  <2>2. /\ handler[h].step # "idle" /\ handler[h].job = j
        /\ \/ handler'[h] = handler[h]
           \/ Prefilters(h) \/ Routes(h) \/ (FindsResult(h) /\ Returns(h))
           \/ Loads(h) \/ GetsAnswer(h) \/ PersistsNoDemand(h)
           \/ ListsMessages(h) \/ (PersistsDemand(h) /\ ~Raises(h))
    BY <1>2, <2>1, HandlersStay
  <2>3. CASE handler'[h] = handler[h]
    BY <1>2, <2>3 DEF Over
  <2>4. ~(Loads(h) \/ GetsAnswer(h))
    <3> SUFFICES ASSUME Loads(h) \/ GetsAnswer(h) PROVE FALSE
      OBVIOUS
    <3>1. handler[h].job[1] = "analysis" /\ cache[KeyOfJob(h)] \in Answers \cup {None}
      BY <2>2, AnalysisRow DEF Loads, GetsAnswer, Runs, Columns
    <3> QED
      BY <1>2, <3>1, AnalysisMoves
  <2>5. CASE Prefilters(h) /\ ~Returns(h)
    <3>1. handler' = [handler EXCEPT ![h] = RoutingState(h)]
      BY <2>5, PrefilterBegins DEF Prefilters
    <3>2. handler'[h].step = "routing"
      BY <3>1 DEF RoutingState, Columns, HandlerStates
    <3> QED
      BY <1>2, <3>2
  <2>6. CASE Routes(h) \/ PersistsNoDemand(h) \/ (PersistsDemand(h) /\ ~Raises(h))
    <3>1. Returns(h)
      BY <2>6, DemandIsPersisted DEF Routes, PersistsNoDemand
    <3> QED
      BY <2>2, <2>6, <3>1
  <2> QED
    BY <1>2, <2>2, <2>3, <2>4, <2>5, <2>6, ListingMoves
<1>3. CASE job[j].status = "done"
  BY <1>3 DEF Over
<1> QED
  BY <1>1, <1>2, <1>3 DEF Over

(* A message that has just become a duplicate is late if its text has been *)
(* analysed, or the messages of its canonical one have been listed.        *)
LEMMA BecomesDuplicate ==
  ASSUME Rows, [Next]_vars, NEW m \in Messages, NEW c \in Messages \ {m},
         result[m] = None, Passed(m)', result'[m].canonical = c,
         cache[KeyOfResult(c)] # None \/ Listed(c)
  PROVE  m \in late'
<1> USE DEF Rows
<1>1. result'[m] # result[m] /\ result'[m] # Rejected
  BY ResultRow, NoneIsNothing DEF Passed
<1>2. PICK h \in Handlers : Prefilters(h) \/ Routes(h)
  BY <1>1, StepKinds, DemandIsPersisted
     DEF stored, Ingests, GivesUp, Starts, Raises, Completes, FindsResult, Loads, GetsAnswer,
         PersistsNoDemand, ListsMessages
<1>3. Routes(h)
  BY <1>1, <1>2 DEF Prefilters, Columns
<1>4. PICK x \in Messages : x = MessageOf(h)
  BY <1>3, HandlerRow DEF Routes, Runs
<1>5. PICK l \in Keys : l = KeyOf(x, handler[h].parent)
  BY <1>3, <1>4, RowIsRouted
<1>6. x = m
  <2>1. \A y \in Messages \ {x} : result'[y] = result[y]
    BY <1>3, <1>4 DEF Routes, Columns
  <2> QED
    BY <1>1, <2>1
<1>7. \/ /\ result'[x].canonical = x
         /\ \A d \in Messages : Canonical(d) /\ KeyOfResult(d) = l
                                => result[d].at < handler[h].began - DedupWindow
         /\ job' = [job EXCEPT ![<<"analysis", x>>].status = "open"]
         /\ late' = late
      \/ /\ result'[x].canonical \in Messages \ {x} /\ Canonical(result'[x].canonical)
         /\ KeyOfResult(result'[x].canonical) = l
         /\ result[result'[x].canonical].at >= handler[h].began - DedupWindow
         /\ job' = job
         /\ late' = IF cache[l] # None \/ Listed(result'[x].canonical)
                    THEN late \cup {x} ELSE late
  BY <1>3, <1>4, <1>5, RowIsRouted
<1>8. KeyOfResult(c) = l /\ late' = IF cache[l] # None \/ Listed(c) THEN late \cup {m} ELSE late
  BY <1>6, <1>7
<1> QED
  BY <1>8

LEMMA OthersAreLateNext == Rows /\ OthersAreLate /\ [Next]_vars => OthersAreLate'
<1> SUFFICES ASSUME Rows, OthersAreLate, [Next]_vars, NEW h \in Handlers,
                    Runs(h, "analysis", "linking")',
                    NEW m \in Messages, m \notin handler'[h].messages,
                    Passed(m)', result'[m].canonical = MessageOf(h)'
             PROVE  m \in late'
  BY DEF OthersAreLate
<1> USE DEF Rows
<1>1. PICK c \in Messages : c = MessageOf(h) /\ MessageOf(h)' = c /\ Canonical(c)
  BY LinkingStays
<1>2. RowsStay
  BY NothingIsTakenBack
<1>3. CASE handler'[h] = handler[h] /\ Runs(h, "analysis", "linking")
  <2>1. CASE result[m] # None
    <3>1. Passed(m) /\ result[m].canonical = c
      BY <1>1, <1>2, <2>1, RoutesStay
    <3> QED
      BY <1>1, <1>2, <1>3, <3>1 DEF OthersAreLate, RowsStay
  <2>2. CASE result[m] = None
    <3>1. c # m
      BY <1>1, <2>2 DEF Canonical, Passed
    <3>2. Listed(c)
      BY <1>1, <1>3 DEF Listed
    <3> QED
      BY <1>1, <2>2, <3>1, <3>2, BecomesDuplicate
  <2> QED
    BY <2>1, <2>2
<1>4. CASE ListsMessages(h)
  <2>1. handler'[h].messages = RoutedTo(c) /\ UNCHANGED result
    BY <1>1, <1>4, ListingMoves DEF stored
  <2>2. m \in RoutedTo(c)
    BY <1>1, <2>1 DEF RoutedTo, Passed
  <2> QED
    BY <2>1, <2>2
<1> QED
  BY <1>3, <1>4, LinkingStays

(* What was routed to a message after its analysis is late.                *)
LEMMA AnsweredStays ==
  ASSUME Rows, [Next]_vars, NEW c \in Messages, Canonical(c), Answered(c)
  PROVE  Answered(c)'
<1> USE DEF Rows
<1>1. RowsStay
  BY NothingIsTakenBack
<1>2. PICK k \in Keys : k = KeyOfResult(c)
  BY ResultRow, PassedRow
<1>3. KeyOfResult(c)' = k /\ cache'[k] = cache[k] /\ cache[k] # None
  BY <1>1, <1>2, RoutesStay DEF Canonical, Passed, Answered, RowsStay
<1>4. ASSUME NEW m \in Messages, Passed(m)', result'[m].canonical = c,
             k \notin overtaken', cache[k] # NoDemand, source'[m] = None
      PROVE  m \in late'
  <2>1. CASE result[m] # None
    <3>1. m \in RoutedTo(c)
      BY <1>1, <1>4, <2>1, RoutesStay DEF RoutedTo
    <3>2. source[m] = None /\ k \notin overtaken
      BY <1>1, <1>4 DEF RowsStay
    <3>3. m \in late
      BY <1>2, <1>4, <3>1, <3>2 DEF Answered
    <3> QED
      BY <1>1, <3>3 DEF RowsStay
  <2>2. CASE result[m] = None
    <3>1. c # m
      BY <2>2 DEF Canonical, Passed
    <3> QED
      BY <1>2, <1>3, <1>4, <2>2, <3>1, BecomesDuplicate
  <2> QED
    BY <2>1, <2>2
<1> QED
  BY <1>3, <1>4 DEF Answered, RoutedTo

LEMMA JobsDoTheirWorkNext ==
  Rows /\ AnswersAreKnown /\ OthersAreLate /\ JobsDoTheirWork /\ [Next]_vars => JobsDoTheirWork'
<1> SUFFICES ASSUME Rows, AnswersAreKnown, OthersAreLate, JobsDoTheirWork, [Next]_vars, NEW m \in Messages
             PROVE  /\ Over(<<"raw", m>>)' => result'[m] # None
                    /\ Over(<<"analysis", m>>)' => Answered(m)'
  BY DEF JobsDoTheirWork
<1> USE DEF Rows
<1>1. <<"raw", m>> \in Jobs /\ <<"analysis", m>> \in Jobs /\ RowsStay
  BY JobsArePairs, NothingIsTakenBack
<1>2. ASSUME Over(<<"raw", m>>)' PROVE result'[m] # None
  <2>1. CASE Over(<<"raw", m>>)
    BY <1>1, <2>1 DEF JobsDoTheirWork, RowsStay
  <2>2. CASE \E h \in Handlers :
               /\ handler[h].step # "idle" /\ handler[h].job = <<"raw", m>> /\ Returns(h)
               /\ \/ Prefilters(h) \/ Routes(h) \/ FindsResult(h) \/ PersistsNoDemand(h)
                  \/ (PersistsDemand(h) /\ ~Raises(h))
    <3>1. PICK h \in Handlers :
               /\ handler[h].step # "idle" /\ handler[h].job = <<"raw", m>> /\ Returns(h)
               /\ \/ Prefilters(h) \/ Routes(h) \/ FindsResult(h) \/ PersistsNoDemand(h)
                  \/ (PersistsDemand(h) /\ ~Raises(h))
      BY <2>2
    <3>2. MessageOf(h) = m /\ handler[h].job[1] = "raw"
      BY <3>1 DEF MessageOf
    <3>3. Prefilters(h) \/ Routes(h) \/ FindsResult(h)
      BY <3>1, <3>2, DemandIsPersisted DEF PersistsNoDemand, Settles, Runs
    <3>4. CASE Prefilters(h)
      <4>1. handler'[h].step = "returned"
        BY <3>1, Returned
      <4>2. handler' # [handler EXCEPT ![h] = RoutingState(h)]
        <5>1. RoutingState(h).step = "routing"
          BY DEF RoutingState, Columns, HandlerStates
        <5> QED
          BY <4>1, <5>1 DEF Columns
      <4>3. result' = [result EXCEPT ![m] = IF @ = None THEN Rejected ELSE @]
        BY <3>2, <3>4, <4>2, PrefilterBegins DEF Prefilters
      <4> QED
        BY <4>3, ResultRow DEF Columns
    <3>5. CASE Routes(h)
      <4>1. PICK k \in Keys : k = KeyOf(m, handler[h].parent)
        BY <3>2, <3>5, RowIsRouted
      <4> QED
        BY <3>2, <3>5, <4>1, RowIsRouted
    <3>6. CASE FindsResult(h)
      BY <1>1, <3>2, <3>6 DEF FindsResult, Unrouted, RowsStay
    <3> QED
      BY <3>3, <3>4, <3>5, <3>6
  <2> QED
    BY <1>1, <1>2, <2>1, <2>2, BecomesOver
<1>3. ASSUME Over(<<"analysis", m>>)' PROVE Answered(m)'
  <2>1. CASE Over(<<"analysis", m>>)
    <3>1. job[<<"analysis", m>>].status # "absent"
      BY <2>1, HandlerRow DEF Over
    <3> QED
      BY <2>1, <3>1, AnsweredStays DEF JobsDoTheirWork, RoutedRows
  <2>2. CASE \E h \in Handlers :
               /\ handler[h].step # "idle" /\ handler[h].job = <<"analysis", m>> /\ Returns(h)
               /\ \/ Prefilters(h) \/ Routes(h) \/ FindsResult(h) \/ PersistsNoDemand(h)
                  \/ (PersistsDemand(h) /\ ~Raises(h))
    <3>1. PICK h \in Handlers :
               /\ handler[h].step # "idle" /\ handler[h].job = <<"analysis", m>> /\ Returns(h)
               /\ \/ Prefilters(h) \/ Routes(h) \/ FindsResult(h) \/ PersistsNoDemand(h)
                  \/ (PersistsDemand(h) /\ ~Raises(h))
      BY <2>2
    <3>2. MessageOf(h) = m /\ handler[h].job[1] = "analysis"
      BY <3>1 DEF MessageOf
    <3>3. PersistsNoDemand(h) \/ (PersistsDemand(h) /\ ~Raises(h))
      BY <3>1, <3>2 DEF Prefilters, Routes, FindsResult, Runs
    <3>4. PICK k \in Keys : k = KeyOfJob(h) /\ k = KeyOfResult(m)
      BY <3>1, <3>2, AnalysisRow DEF KeyOfJob
    <3>5. /\ Runs(h, "analysis", "persisting") \/ Runs(h, "analysis", "linking")
          /\ ~StoreConflicts(h) /\ cache' = Stored(h)
          /\ handler[h].answer \in Answers /\ UNCHANGED <<result, overtaken, late>>
          /\ \A x \in RoutedTo(m) :
               handler[h].answer # NoDemand => source'[x] # None \/ x \in late
      <4>1. CASE PersistsNoDemand(h)
        BY <4>1 DEF PersistsNoDemand, Settles, HandlersInStep, history
      <4>2. CASE PersistsDemand(h) /\ ~Raises(h)
        <5>1. /\ Runs(h, "analysis", "linking") /\ ~StoreConflicts(h) /\ cache' = Stored(h)
              /\ handler[h].answer \in Answers /\ UNCHANGED <<result, overtaken, late>>
          BY <3>2, <4>2, DemandIsPersisted DEF history
        <5>2. PICK o \in Keys : source' = [x \in Messages |-> IF x \in handler[h].messages
                                                              THEN o ELSE source[x]]
          BY <3>2, <4>2, DemandIsPersisted
        <5>3. ASSUME NEW x \in RoutedTo(m) PROVE source'[x] # None \/ x \in late
          BY <3>2, <5>1, <5>2, NoneIsNothing DEF RoutedTo, OthersAreLate
        <5> QED
          BY <5>1, <5>3
      <4> QED
        BY <3>3, <4>1, <4>2
    <3>6. KeyOfResult(m)' = k /\ RoutedTo(m)' = RoutedTo(m)
      BY <3>4, <3>5 DEF KeyOfResult, RoutedTo, Passed
    <3>7. cache'[k] # None /\ (cache'[k] = handler[h].answer \/ k \in overtaken)
      BY <3>4, <3>5, NoneIsNothing DEF Stored, AnswersAreKnown, Columns
    <3> QED
      BY <3>5, <3>6, <3>7 DEF Answered
  <2> QED
    BY <1>1, <1>3, <2>1, <2>2, BecomesOver
<1> QED
  BY <1>2, <1>3
-----------------------------------------------------------------------------
(* The inductive invariant.                                                *)
PipelineInv ==
  /\ Rows /\ WindowsAreApart /\ OvertakersAreNoted /\ AnswersAreKnown /\ OthersAreLate
  /\ JobsDoTheirWork /\ CacheContradictedOnlyIfOvertaken

LEMMA ContradictedNext ==
  Rows /\ AnswersAreKnown /\ CacheContradictedOnlyIfOvertaken /\ [Next]_vars
    => CacheContradictedOnlyIfOvertaken'
<1> SUFFICES ASSUME Rows, AnswersAreKnown, CacheContradictedOnlyIfOvertaken, [Next]_vars,
                    NEW k \in Keys, link'[k] # None, cache'[k] = NoDemand
             PROVE  k \in overtaken'
  BY DEF CacheContradictedOnlyIfOvertaken
<1> USE DEF Rows
<1>1. RowsStay
  BY NothingIsTakenBack
<1>2. CASE link[k] # None
  <2>1. cache[k] # None
    BY <1>2 DEF LinkedRows
  <2> QED
    BY <1>1, <1>2, <2>1 DEF RowsStay, CacheContradictedOnlyIfOvertaken
<1>3. CASE link[k] = None
  <2>1. PICK h \in Handlers : PersistsDemand(h) /\ ~Raises(h)
    BY <1>3, StepKinds DEF stored, Ingests, GivesUp, Starts, Raises, Completes, Prefilters,
       Routes, FindsResult, Loads, GetsAnswer, PersistsNoDemand, ListsMessages
  <2>2. \E o \in Keys : link' = [link EXCEPT ![KeyOfJob(h)] = o]
    BY <2>1, DemandIsPersisted
  <2>3. KeyOfJob(h) = k
    BY <1>3, <2>2 DEF Columns
  <2>4. /\ Runs(h, "analysis", "linking") /\ cache' = Stored(h) /\ handler[h].answer # NoDemand
        /\ UNCHANGED overtaken
    BY <2>1, DemandIsPersisted DEF history
  <2> QED
    BY <2>3, <2>4 DEF Stored, AnswersAreKnown, Columns
<1> QED
  BY <1>2, <1>3

LEMMA PipelineInvHolds == Spec => []PipelineInv
<1>1. Init => PipelineInv
  <2> SUFFICES ASSUME Init PROVE PipelineInv
    OBVIOUS
  <2> USE DEF Init
  <2>1. /\ \A m \in Messages : ~Passed(m) /\ ~Canonical(m)
        /\ \A h \in Handlers : handler[h] = Idle
        /\ \A j \in Jobs : job[j].status = "absent"
    BY DEF Passed, Canonical
  <2>2. Columns
    BY Times, IdleState DEF Columns, Statuses
  <2>3. RoutedRows
    BY <2>1, JobsArePairs DEF RoutedRows
  <2>4. HandlersInStep
    BY <2>1, IdleState DEF HandlersInStep, Runs
  <2>5. LinkedRows
    BY DEF LinkedRows
  <2>6. WindowsAreApart /\ OvertakersAreNoted /\ AnswersAreKnown
    BY <2>1, IdleState DEF WindowsAreApart, OvertakersAreNoted, AnswersAreKnown, Analyses, Runs
  <2>9. EntriesAreInserted /\ OthersAreLate
    BY <2>1, IdleState DEF EntriesAreInserted, Inserts, OthersAreLate, Runs
  <2>7. JobsDoTheirWork
    BY <2>1, IdleState, JobsArePairs DEF JobsDoTheirWork, Over
  <2>8. CacheContradictedOnlyIfOvertaken
    BY DEF CacheContradictedOnlyIfOvertaken
  <2> QED
    BY <2>2, <2>3, <2>4, <2>5, <2>6, <2>7, <2>8, <2>9 DEF Rows, PipelineInv
<1>2. PipelineInv /\ [Next]_vars => PipelineInv'
  BY ColumnsNext, RoutedRowsNext, HandlersInStepNext, LinkedRowsNext, WindowsAreApartNext,
     EntriesAreInsertedNext, OvertakersAreNotedNext, AnswersAreKnownNext, OthersAreLateNext,
     JobsDoTheirWorkNext, ContradictedNext
     DEF PipelineInv, Rows
<1> QED
  BY <1>1, <1>2, PTL DEF Spec

(* The tables keep their columns, foreign keys and check constraints in    *)
(* every run: TypeOK of the pipeline.                                      *)
THEOREM PipelineTypeCorrect == Spec => []TypeOK
<1>1. PipelineInv => TypeOK
  <2> SUFFICES ASSUME PipelineInv PROVE TypeOK
    OBVIOUS
  <2> USE DEF PipelineInv, Rows
  <2>1. RawMessages
    BY DEF RawMessages, Columns, RoutedRows
  <2>2. PrefilterResults
    <3>1. ASSUME NEW m \in Messages, result[m] # None
          PROVE  raw[m] # None /\ result[m].parent # m
      <4>1. CASE Passed(m)
        <5>1. raw[m] # None /\ result[m].parent \in {None, ReplyTo[m]}
          BY <3>1, <4>1 DEF RoutedRows
        <5>2. ReplyTo[m] # m /\ None # m
          BY KeysAreTyped, NoneIsNothing
        <5> QED
          BY <5>1, <5>2
      <4>2. CASE result[m] = Rejected
        <5>1. raw[m] # None
          BY <3>1 DEF RoutedRows
        <5>2. Rejected.parent = None /\ None # m
          BY NoneIsNothing DEF Rejected
        <5> QED
          BY <4>2, <5>1, <5>2
      <4> QED
        BY <3>1, <4>1, <4>2, ResultRow
    <3>2. ASSUME NEW m \in Messages, Passed(m)
          PROVE  /\ Canonical(result[m].canonical)
                 /\ job[<<"analysis", result[m].canonical>>].status # "absent"
                 /\ result[m].parent # None => raw[result[m].parent] # None
      BY <3>2, PassedRow DEF RoutedRows
    <3> QED
      BY <3>1, <3>2 DEF PrefilterResults, Columns
  <2>3. AnalysisCache /\ Opportunities
    BY DEF AnalysisCache, Opportunities, Columns, LinkedRows
  <2>4. AnalysisLinks
    BY DEF AnalysisLinks, Columns, LinkedRows
  <2>5. SourceMessages
    <3>1. ASSUME NEW m \in Messages, source[m] # None PROVE raw[m] # None /\ opp[source[m]] # None
      <4>1. Passed(m) /\ source[m] = link[KeyOfResult(m)]
        BY <3>1 DEF LinkedRows
      <4> QED
        <5>1. result[m] # None
          BY <4>1 DEF Passed
        <5>2. raw[m] # None
          BY <5>1 DEF RoutedRows
        <5>3. PICK k \in Keys : k = KeyOfResult(m)
          BY <4>1, PassedRow
        <5>4. link[k] # None /\ opp[link[k]] # None
          BY <3>1, <4>1, <5>3 DEF LinkedRows
        <5> QED
          BY <4>1, <5>2, <5>3, <5>4
    <3> QED
      BY <3>1 DEF SourceMessages, Columns
  <2>6. MatchingJobs
    BY DEF MatchingJobs, LinkedRows
  <2>7. \A h \in Handlers : handler[h].job # None =>
          handler[h].try \in 1..MaxTries[handler[h].job] /\ handler[h].messages \subseteq Messages
    BY IdleState DEF HandlersInStep, Columns, HandlerStates
  <2> QED
    BY <2>1, <2>2, <2>3, <2>4, <2>5, <2>6, <2>7 DEF TypeOK, Columns, Statuses
<1> QED
  BY <1>1, PipelineInvHolds, PTL

(* However many handlers prefilter at once: the canonical messages of one  *)
(* text and parent are further apart than the window, and a duplicate      *)
(* refers to one of its text, no older than the window, with an analysis.  *)
THEOREM CanonicalsStayApart == Spec => []OneCanonicalPerWindow
<1>1. PipelineInv => OneCanonicalPerWindow
  <2> SUFFICES ASSUME PipelineInv PROVE OneCanonicalPerWindow
    OBVIOUS
  <2> USE DEF PipelineInv, Rows
  <2>1. ASSUME NEW m \in Messages, Passed(m)
        PROVE  /\ Canonical(result[m].canonical)
               /\ KeyOfResult(result[m].canonical) = KeyOfResult(m)
               /\ job[<<"analysis", result[m].canonical>>].status # "absent"
    BY <2>1, PassedRow DEF RoutedRows
  <2> QED
    BY <2>1 DEF OneCanonicalPerWindow, WindowsAreApart
<1> QED
  BY <1>1, PipelineInvHolds, PTL

(* A message belongs to the opportunity of its analysis, whatever retries  *)
(* and stale handlers did: OpportunityLinkConflict cannot happen.          *)
THEOREM SourcesAlwaysFollowLinks == Spec => []SourcesFollowLinks
<1>1. PipelineInv => SourcesFollowLinks
  BY DEF PipelineInv, Rows, LinkedRows, SourcesFollowLinks
<1> QED
  BY <1>1, PipelineInvHolds, PTL

(* Only where two handlers analysed a text at once does an opportunity     *)
(* stand for an entry without a demand.                                    *)
THEOREM ContradictionsAreOvertaken == Spec => []CacheContradictedOnlyIfOvertaken
<1>1. PipelineInv => CacheContradictedOnlyIfOvertaken
  BY DEF PipelineInv
<1> QED
  BY <1>1, PipelineInvHolds, PTL

(* A message of a demand whose analysis is done is linked to it, unless it *)
(* was routed there afterwards, or while an analysis that had listed its   *)
(* messages waited for the rows and the lock.                              *)
THEOREM OnlyLateMessagesStayUnlinked == Spec => []UnlinkedOnlyIfLate
<1>1. PipelineInv => UnlinkedOnlyIfLate
  <2> SUFFICES ASSUME PipelineInv, NEW m \in Messages, Passed(m), KeyOfResult(m) \notin overtaken,
                      job[<<"analysis", result[m].canonical>>].status = "done",
                      link[KeyOfResult(m)] # None, source[m] = None
               PROVE  m \in late
    BY DEF UnlinkedOnlyIfLate
  <2> USE DEF PipelineInv, Rows
  <2>1. PICK c \in Messages : c = result[m].canonical /\ KeyOfResult(c) = KeyOfResult(m)
    BY PassedRow
  <2>2. Answered(c)
    BY <2>1 DEF JobsDoTheirWork, Over
  <2>3. cache[KeyOfResult(c)] # NoDemand
    BY <2>1, PassedRow DEF CacheContradictedOnlyIfOvertaken
  <2>4. m \in RoutedTo(c)
    BY <2>1 DEF RoutedTo
  <2> QED
    BY <2>1, <2>2, <2>3, <2>4 DEF Answered
<1> QED
  BY <1>1, PipelineInvHolds, PTL

(* A queue that has come to rest has lost no message: each is rejected,    *)
(* its text is analysed, or a job of its own or its canonical was given up.*)
THEOREM NoMessageIsLost == Spec => []MessagesAreAnswered
<1>1. PipelineInv => MessagesAreAnswered
  <2> SUFFICES ASSUME PipelineInv, Quiet, NEW m \in Messages, raw[m] # None,
                      job[<<"raw", m>>].status # "given up",
                      ~(result[m] # None /\ result[m].canonical = None)
               PROVE  /\ Passed(m)
                      /\ \/ cache[KeyOfResult(m)] # None
                         \/ job[<<"analysis", result[m].canonical>>].status = "given up"
    BY DEF MessagesAreAnswered
  <2> USE DEF PipelineInv, Rows
  <2>1. \A j \in Jobs : job[j].status \in {"absent", "done", "given up"}
    BY DEF Quiet, Columns, Statuses
  <2>2. job[<<"raw", m>>].status = "done"
    BY <2>1, JobsArePairs DEF RoutedRows
  <2>3. Passed(m)
    BY <2>2 DEF JobsDoTheirWork, Over, Passed
  <2>4. PICK c \in Messages : /\ c = result[m].canonical /\ KeyOfResult(c) = KeyOfResult(m)
                              /\ Canonical(c)
    BY <2>3, PassedRow
  <2>5. job[<<"analysis", c>>].status \in {"done", "given up"}
    BY <2>1, <2>4, JobsArePairs DEF RoutedRows
  <2>6. job[<<"analysis", c>>].status = "done" => cache[KeyOfResult(c)] # None
    BY DEF JobsDoTheirWork, Over, Answered
  <2> QED
    BY <2>3, <2>4, <2>5, <2>6
<1> QED
  BY <1>1, PipelineInvHolds, PTL
=============================================================================
