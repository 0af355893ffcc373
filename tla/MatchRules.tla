----------------------------- MODULE MatchRules -----------------------------
(***************************************************************************)
(* The rules by which an opportunity is matched with a search profile:     *)
(* hard filters, narrowing and the structured score (matching.py), its     *)
(* combination with the semantic similarity (semantic_matching.py), and    *)
(* the decision and rank of a match (match_decisions.py).  Scores are      *)
(* decimals of four places and are counted here in units of 0.0001, with   *)
(* the rounding of Decimal.quantize; the similarity of two labels, and of  *)
(* two texts, is a score that is given.                                    *)
(***************************************************************************)
EXTENDS Integers, FiniteSets

CONSTANT Unknown     \* None in the analysis or the preferences

Percent == 100
One == 100 * Percent
Fraction == 0..One

(* quantize: to the nearest, half to even; n is in units of 1/(One * d).   *)
Rounded(n, d) ==
    LET q == n \div d
        r == n % d
    IN  IF 2 * r < d \/ (2 * r = d /\ q % 2 = 0) THEN q ELSE q + 1

Lesser(a, b) == IF a <= b THEN a ELSE b

-----------------------------------------------------------------------------
(* Hard filters: an unknown value of the opportunity, or of the profile,   *)
(* never blocks.                                                           *)

Blocks(value, allowed) == value # Unknown /\ allowed # Unknown /\ value \notin allowed

(* _evaluate_term_constraint, the work type and the work mode have the     *)
(* same form; a type no profile can ask for is in no set of work types.    *)
TermFailures(o, p) ==
    {c \in {"work_type", "language", "geography", "work_mode"} : Blocks(o[c], p[c])}

IsExcluded(o, p) ==
    o.category # Unknown /\ p.excluded # Unknown /\ o.category \in p.excluded

(* A budget in another currency, or in none, is not compared.              *)
IsComparable(o, p) ==
    /\ o.budget.known /\ p.minimum # Unknown
    /\ o.budget.currency # Unknown /\ o.budget.currency = p.currency

BudgetFailures(o, p) ==
    (IF ~o.budget.known /\ p.budget_policy = "require_explicit" /\ ~o.budget.explicit
     THEN {"budget_not_explicit"} ELSE {})
    \cup (IF IsComparable(o, p) /\ o.budget.amount < p.minimum
          THEN {"budget_below_minimum"} ELSE {})

(* evaluate_hard_filters                                                   *)
Failures(o, p) ==
    (IF o.status # "active" THEN {"opportunity_not_active"} ELSE {})
    \cup (IF ~p.is_active THEN {"profile_not_active"} ELSE {})
    \cup (IF ~p.confirmed THEN {"profile_not_confirmed"} ELSE {})
    \cup TermFailures(o, p)
    \cup (IF IsExcluded(o, p) THEN {"excluded_category"} ELSE {})
    \cup BudgetFailures(o, p)

-----------------------------------------------------------------------------
(* Narrowing: the dimensions a candidate is looked up by                   *)

(* The targets are the labels of category, role and skills; overlap is     *)
(* that of labels_have_overlap.                                            *)
Disjoint(o, p) ==
    /\ o.targets # {} /\ p.targets # {}
    /\ \A x \in o.targets, y \in p.targets : <<x, y>> \notin o.overlap

Dimension == [work_type |-> 1, language |-> 2, geography |-> 3, no_target_overlap |-> 4]

Excluding(o, p) ==
    (TermFailures(o, p) \cap DOMAIN Dimension)
    \cup (IF Disjoint(o, p) THEN {"no_target_overlap"} ELSE {})

(* _candidate_exclusion: the first of these, or none.                      *)
Exclusion(o, p) ==
    IF Excluding(o, p) = {} THEN "none"
    ELSE CHOOSE c \in Excluding(o, p) : \A d \in Excluding(o, p) : Dimension[c] <= Dimension[d]

Narrowed(o, profiles) ==
    {p \in profiles : /\ p.is_active /\ p.confirmed
                      /\ o.status = "active"
                      /\ Exclusion(o, p) = "none"}

(* narrow_and_filter_candidates; these, and only these, are scored.        *)
Eligible(o, profiles) == {p \in Narrowed(o, profiles) : Failures(o, p) = {}}

-----------------------------------------------------------------------------
(* The structured score                                                    *)

Known(S) == S \cup {Unknown}

(* What is known of the labels of an opportunity and a profile: the best   *)
(* similarity of role, skills and category, Unknown where one side names   *)
(* none; whether the roles are of one family, and whether a skill that is  *)
(* not generic is shared.                                                  *)
Similarities == [role : Known(Fraction), skills : Known(Fraction), category : Known(Fraction),
                 family : BOOLEAN, specific : BOOLEAN]
IsScored(o) == /\ o.flags \in Nat /\ o.quality \in Fraction /\ o.source_quality \in Known(Fraction)
               /\ o.last_seen \in Int

(* The weights of StructuredScoringPolicy, in hundredths.                  *)
Weight == [role |-> 30, skills |-> 35, category |-> 15, work_type |-> 8, budget |-> 7,
           preferences |-> 5]

(* A generic role counts only beside a specific skill, and a single        *)
(* specific skill for half only within a coherent role.                    *)
RoleScore(sim) ==
    IF sim.role # Unknown /\ sim.role = 0 /\ sim.family /\ sim.specific THEN 6000 ELSE sim.role

SkillsScore(sim) ==
    IF /\ sim.skills # Unknown /\ sim.skills < 5000 /\ sim.specific
       /\ sim.role # Unknown /\ (sim.role > 0 \/ sim.family)
    THEN 5000 ELSE sim.skills

WorkTypeScore(o, p) ==
    IF o.work_type = Unknown \/ p.work_type = Unknown THEN Unknown
    ELSE IF o.work_type \in p.work_type THEN One ELSE 0

BudgetScore(o, p) ==
    CASE ~o.budget.known /\ p.minimum # Unknown -> IF o.budget.explicit THEN 7500 ELSE 5000
      [] IsComparable(o, p) -> IF o.budget.amount >= p.minimum THEN One ELSE 0
      [] OTHER -> Unknown

(* The share of the known constraints that are met.                        *)
PreferencesScore(o, p) ==
    LET asked == {c \in {"language", "geography", "work_mode"} : o[c] # Unknown /\ p[c] # Unknown}
        met == {c \in asked : o[c] \in p[c]}
    IN  IF asked = {} THEN Unknown
        ELSE Rounded(Cardinality(met) * One, Cardinality(asked))

(* A component that cannot be told adds nothing.                           *)
Contribution(score, weight) == IF score = Unknown THEN 0 ELSE Rounded(score * weight, 100)

Relevance(o, p, sim) ==
    Contribution(RoleScore(sim), Weight.role)
    + Contribution(SkillsScore(sim), Weight.skills)
    + Contribution(sim.category, Weight.category)
    + Contribution(WorkTypeScore(o, p), Weight.work_type)
    + Contribution(BudgetScore(o, p), Weight.budget)
    + Contribution(PreferencesScore(o, p), Weight.preferences)

Penalty(o) == Lesser(3200, 800 * o.flags)

(* The aggregate of a relevance with the quality of the opportunity and of *)
(* its source, in units of 0.01 * 0.0001, less the penalty.                *)
Aggregate(o, relevance) ==
    relevance * 75 + o.quality * 15
    + (IF o.source_quality = Unknown THEN 0 ELSE o.source_quality * 10)
    - Penalty(o) * 100

StructuredScore(o, relevance) ==
    LET sum == Aggregate(o, relevance) IN Rounded(IF sum < 0 THEN 0 ELSE sum, 100)

(* _combine_score, or _structured_fallback without a similarity.           *)
CombinedRelevance(relevance, similarity) ==
    IF similarity = Unknown THEN relevance
    ELSE Rounded(relevance * 70 + similarity * 30, 100)

CombinedScore(o, relevance, similarity) ==
    IF similarity = Unknown THEN StructuredScore(o, relevance)
    ELSE LET sum == Aggregate(o, CombinedRelevance(relevance, similarity))
         IN  Rounded(IF sum < 0 THEN 0 ELSE Lesser(sum, 100 * One), 100)

-----------------------------------------------------------------------------
(* The decision                                                            *)

(* MatchDecisionPolicy: weights and thresholds are scores.                 *)
Policy == [minimum_relevance : Fraction, minimum_rank : Fraction, freshness_weight : Fraction,
           maximum_age : Nat \ {0}, bucket : Nat \ {0}, suppress_expired : BOOLEAN]

Bucketed(t, policy) == t - (t % policy.bucket)

Age(o, at, policy) ==
    LET age == Bucketed(at, policy) - o.last_seen IN IF age < 0 THEN 0 ELSE age

Freshness(o, at, policy) ==
    Rounded(One * (policy.maximum_age - Lesser(Age(o, at, policy), policy.maximum_age)),
            policy.maximum_age)

RankScore(combined, fresh, policy) ==
    Rounded(combined * (One - policy.freshness_weight) + fresh * policy.freshness_weight, One)

Expired(o, at, policy) == policy.suppress_expired /\ Age(o, at, policy) >= policy.maximum_age

(* _profile_trace: what becomes of an active profile; a score is there for *)
(* the eligible ones.                                                      *)
Decision(o, p, profiles, sim, similarity, at, policy) ==
    LET relevance == Relevance(o, p, sim)
        rank == RankScore(CombinedScore(o, relevance, similarity), Freshness(o, at, policy), policy)
    IN  IF p \notin Eligible(o, profiles) THEN "hard_rejected"
        ELSE IF Expired(o, at, policy) THEN "freshness_expired"
        ELSE IF CombinedRelevance(relevance, similarity) < policy.minimum_relevance
             THEN "below_relevance_threshold"
        ELSE IF rank < policy.minimum_rank THEN "below_rank_score_threshold"
        ELSE "eligible"

-----------------------------------------------------------------------------
(* The rank of a match among the eligible ones of its profile              *)

Trace == [rank : Fraction, relevance : Fraction, fresh : Fraction, last_seen : Int, id : Int]

(* The sort key: scores and dates descending, then the identifier.         *)
Before(s, t) ==
    \/ s.rank > t.rank
    \/ s.rank = t.rank /\ s.relevance > t.relevance
    \/ s.rank = t.rank /\ s.relevance = t.relevance /\ s.fresh > t.fresh
    \/ /\ s.rank = t.rank /\ s.relevance = t.relevance /\ s.fresh = t.fresh
       /\ s.last_seen > t.last_seen
    \/ /\ s.rank = t.rank /\ s.relevance = t.relevance /\ s.fresh = t.fresh
       /\ s.last_seen = t.last_seen /\ s.id < t.id

(* _rank_eligible                                                          *)
Rank(t, traces) == Cardinality({s \in traces : Before(s, t)}) + 1
=============================================================================
