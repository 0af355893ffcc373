---- MODULE MCMatching ----
(* A small instance of Matching: one user with two profiles.  Both want the work of the    *)
(* opportunity; the rules of matching.py and match_decisions.py, at their default policy,  *)
(* accept the first, and reject the second for its minimum budget.  Time is in quarter     *)
(* hours.  The other opportunity, matched before, takes the one place of a rematch.        *)
EXTENDS Matching, TLC
CONSTANTS user, p1, p2, o1, o2, w1, w2, none
Rules == INSTANCE MatchRules WITH Unknown <- none
MCOwner == [p \in Profiles |-> user]
MCOpportunity ==
    [status |-> "active", work_type |-> "project", language |-> "en", geography |-> none,
     work_mode |-> "remote", category |-> "development", targets |-> {"python"},
     overlap |-> {<<"python", "python">>},
     budget |-> [known |-> TRUE, explicit |-> TRUE, amount |-> 500, currency |-> "USD"],
     flags |-> 1, quality |-> 8000, source_quality |-> none, last_seen |-> 1]
MCProfile(minimum) ==
    [is_active |-> TRUE, confirmed |-> TRUE, work_type |-> {"project"}, language |-> {"en", "de"},
     geography |-> none, work_mode |-> {"remote"}, excluded |-> none, targets |-> {"python"},
     minimum |-> minimum, currency |-> "USD", budget_policy |-> "allow_unknown"]
MCPolicy == [minimum_relevance |-> 3000, minimum_rank |-> 4000, freshness_weight |-> 1000,
             maximum_age |-> 672, bucket |-> 4, suppress_expired |-> TRUE]
MCSimilarity == [role |-> 0, skills |-> 4000, category |-> none, family |-> TRUE,
                 specific |-> TRUE]
MCRelevant == {<<o1, p1>>}
MCSymmetry == Permutations(Workers)
MCRevisions == (p1 :> 3) @@ (p2 :> 2)
ASSUME RulesAccept ==
    LET rules == [p \in Profiles |-> MCProfile(IF p = p1 THEN 300 ELSE 900)]
    IN  MCRelevant = {<<o1, p>> : p \in {q \in Profiles :
            Rules!Decision(MCOpportunity, rules[q], {rules[r] : r \in Profiles}, MCSimilarity,
                           9000, 7, MCPolicy) = "eligible"}}
====
